------------------------- MODULE SymbolScopesProofs -------------------------
(***************************************************************************)
(* Proofs, for every set of modules, that symbol tables stay a forest      *)
(* below the global one in which no name is entered twice, that what the   *)
(* visitors push on their stacks are tables that there are, that they all  *)
(* come to one table for a namespace, and that the assertion in            *)
(* visitingNamespaceExpr is reached in the copies of templates alone.  The *)
(* sections are those of SymbolScopesInvariant.                            *)
(***************************************************************************)
EXTENDS SymbolScopesInvariant, SequenceLemmas, SequenceTheorems, FiniteSetTheorems, TLAPS

----
\* The text as a tree.

\* One node more: the depth changes by what the node lifts.
LEMMA DepthStep ==
  ASSUME NEW text, NEW i \in Nat, NEW j \in Nat, j + 1 >= i
  PROVE  /\ Depth(text, i, j) \in Int
         /\ Depth(text, i, j + 1) = Depth(text, i, j) + Lift(text[j + 1].op)
<1>. DEFINE A(m) == {k \in i .. m : text[k].op \in Opener}
            B(m) == {k \in i .. m : text[k].op = "end"}
<1>1. \A m \in Nat : IsFiniteSet(A(m)) /\ IsFiniteSet(B(m))
  <2>1. \A m \in Nat : IsFiniteSet(i .. m) /\ A(m) \in SUBSET (i .. m) /\ B(m) \in SUBSET (i .. m)
    BY FS_Interval
  <2>. HIDE DEF A, B
  <2>. QED  BY <2>1, FS_Subset
<1>2. \A m \in Nat : Cardinality(A(m)) \in Nat /\ Cardinality(B(m)) \in Nat
  <2>. HIDE DEF A, B
  <2>. QED  BY <1>1, FS_CardinalityType
<1>0. \A m \in Nat : Depth(text, i, m) = Cardinality(A(m)) - Cardinality(B(m))
  BY DEF Depth
<1>8. Depth(text, i, j) \in Int
  <2>. HIDE DEF A, B
  <2>. QED  BY <1>0, <1>2
<1>9. \A a, b, c \in Int : /\ (a + 1) - b = (a - b) + 1 /\ a - (b + 1) = (a - b) + (-1)
                         /\ (a - b) + 0 = a - b
  OBVIOUS
<1>3. \A k \in i .. (j + 1) : k \in i .. j \/ k = j + 1
  OBVIOUS
<1>4. j + 1 \in i .. (j + 1) /\ j + 1 \notin i .. j /\ i .. j \subseteq i .. (j + 1)
  OBVIOUS
<1>5. CASE text[j + 1].op \in Opener
  <2>1. text[j + 1].op # "end"
    BY <1>5 DEF Opener
  <2>2. A(j + 1) = A(j) \union {j + 1} /\ j + 1 \notin A(j)
    BY <1>3, <1>4, <1>5
  <2>3. B(j + 1) = B(j)
    BY <1>3, <1>4, <2>1
  <2>. HIDE DEF A, B
  <2>4. Cardinality(A(j + 1)) = Cardinality(A(j)) + 1
    BY <1>1, <2>2, FS_AddElement
  <2>5. Lift(text[j + 1].op) = 1
    BY <1>5 DEF Lift
  <2>6. /\ Depth(text, i, j) = Cardinality(A(j)) - Cardinality(B(j))
        /\ Depth(text, i, j + 1) = (Cardinality(A(j)) + 1) - Cardinality(B(j))
    BY <1>0, <2>3, <2>4
  <2>. QED  BY <1>2, <1>8, <1>9, <2>5, <2>6
<1>6. CASE text[j + 1].op = "end"
  <2>1. text[j + 1].op \notin Opener
    BY <1>6 DEF Opener
  <2>2. B(j + 1) = B(j) \union {j + 1} /\ j + 1 \notin B(j)
    BY <1>3, <1>4, <1>6
  <2>3. A(j + 1) = A(j)
    BY <1>3, <1>4, <2>1
  <2>. HIDE DEF A, B
  <2>4. Cardinality(B(j + 1)) = Cardinality(B(j)) + 1
    BY <1>1, <2>2, FS_AddElement
  <2>5. Lift(text[j + 1].op) = -1
    BY <1>6, <2>1 DEF Lift
  <2>6. /\ Depth(text, i, j) = Cardinality(A(j)) - Cardinality(B(j))
        /\ Depth(text, i, j + 1) = Cardinality(A(j)) - (Cardinality(B(j)) + 1)
    BY <1>0, <2>3, <2>4
  <2>. QED  BY <1>2, <1>8, <1>9, <2>5, <2>6
<1>7. CASE text[j + 1].op \notin Opener /\ text[j + 1].op # "end"
  <2>1. A(j + 1) = A(j) /\ B(j + 1) = B(j)
    BY <1>3, <1>4, <1>7
  <2>. HIDE DEF A, B
  <2>5. Lift(text[j + 1].op) = 0
    BY <1>7 DEF Lift
  <2>6. Depth(text, i, j + 1) = Depth(text, i, j)
    BY <1>0, <2>1
  <2>. QED  BY <1>2, <1>8, <1>9, <2>5, <2>6
<1>. QED  BY <1>5, <1>6, <1>7

\* Nothing in between: no depth.
LEMMA DepthZero ==
  ASSUME NEW text, NEW i \in Nat \ {0}
  PROVE  Depth(text, i, i - 1) = 0
<1>1. i .. (i - 1) = {}
  OBVIOUS
<1>2. /\ {k \in i .. (i - 1) : text[k].op \in Opener} = {}
      /\ {k \in i .. (i - 1) : text[k].op = "end"} = {}
  BY <1>1
<1>3. Cardinality({}) = 0
  BY FS_EmptySet
<1>. QED  BY <1>2, <1>3 DEF Depth

\* Heights: nothing is open before the first node, and each node lifts the height.
LEMMA HeightStep ==
  ASSUME NEW text
  PROVE  /\ Height(text, 0) = 0
         /\ \A k \in Nat : Height(text, k) \in Int
         /\ \A k \in Nat : Height(text, k + 1) = Height(text, k) + Lift(text[k + 1].op)
<1>1. Height(text, 0) = 0
  <2>1. Depth(text, 1, 1 - 1) = 0
    BY DepthZero
  <2>2. 1 - 1 = 0
    OBVIOUS
  <2>. QED  BY <2>1, <2>2 DEF Height
<1>2. ASSUME NEW k \in Nat
      PROVE  Height(text, k) \in Int /\ Height(text, k + 1) = Height(text, k) + Lift(text[k + 1].op)
  BY DepthStep DEF Height
<1>. QED  BY <1>1, <1>2

\* A depth is a difference of heights.
LEMMA DepthIsHeight ==
  ASSUME NEW text, NEW i \in Nat \ {0}, NEW n \in Nat
  PROVE  Depth(text, i, i - 1 + n) = Height(text, i - 1 + n) - Height(text, i - 1)
<1>. DEFINE S == {m \in Nat : Depth(text, i, i - 1 + m) = Height(text, i - 1 + m) - Height(text, i - 1)}
<1>1. 0 \in S
  <2>1. i - 1 + 0 = i - 1 /\ i - 1 \in Nat
    OBVIOUS
  <2>2. Height(text, i - 1) \in Int
    BY <2>1, HeightStep
  <2>3. \A h \in Int : h - h = 0
    OBVIOUS
  <2>. QED  BY <2>1, <2>2, <2>3, DepthZero
<1>2. ASSUME NEW m \in S
      PROVE  m + 1 \in S
  <2>1. m \in Nat /\ Depth(text, i, i - 1 + m) = Height(text, i - 1 + m) - Height(text, i - 1)
    OBVIOUS
  <2>2. PICK c \in Nat : c = i - 1 + m /\ i - 1 + (m + 1) = c + 1 /\ c + 1 >= i
    BY <2>1
  <2>3. Depth(text, i, c + 1) = Depth(text, i, c) + Lift(text[c + 1].op)
    BY <2>2, DepthStep
  <2>4. Height(text, c + 1) = Height(text, c) + Lift(text[c + 1].op) /\ Height(text, c) \in Int
    BY HeightStep
  <2>5. Height(text, i - 1) \in Int /\ Lift(text[c + 1].op) \in Int
    <3>1. i - 1 \in Nat
      OBVIOUS
    <3>2. Height(text, i - 1) \in Int
      BY <3>1, HeightStep
    <3>3. Lift(text[c + 1].op) \in Int
      BY DEF Lift
    <3>. QED  BY <3>2, <3>3
  <2>6. Depth(text, i, c) = Height(text, c) - Height(text, i - 1)
    BY <2>1, <2>2
  <2>7. \A a, b, l \in Int : (a - b) + l = (a + l) - b
    OBVIOUS
  <2>8. Depth(text, i, c + 1) = Height(text, c + 1) - Height(text, i - 1)
    BY <2>3, <2>4, <2>5, <2>6, <2>7
  <2>. QED  BY <2>1, <2>2, <2>8
<1>. HIDE DEF S
<1>3. \A m \in Nat : m \in S
  BY <1>1, <1>2, Induction DEF S
<1>. QED  BY <1>3 DEF S
\* A set of naturals has one least member.
LEMMA LeastIs ==
  ASSUME NEW X \in SUBSET Nat, X # {}
  PROVE  Least(X) \in X /\ \A j \in X : Least(X) <= j
<1>. DEFINE S == {n \in Nat : (\E x \in X : x <= n) => \E i \in X : \A j \in X : i <= j}
<1>1. 0 \in S
  <2>1. ASSUME NEW x \in X, x <= 0
        PROVE  \A j \in X : x <= j
    BY <2>1
  <2>. QED  BY <2>1
<1>2. ASSUME NEW n \in S
      PROVE  n + 1 \in S
  <2>1. CASE \E x \in X : x <= n
    BY <2>1
  <2>2. CASE ~\E x \in X : x <= n
    <3>1. ASSUME NEW x \in X, x <= n + 1
          PROVE  \A j \in X : x <= j
      BY <2>2, <3>1
    <3>. QED  BY <3>1
  <2>. QED  BY <2>1, <2>2
<1>3. S \in SUBSET Nat
  OBVIOUS
<1>. HIDE DEF S
<1>4. \A n \in Nat : n \in S
  BY <1>1, <1>2, <1>3, Induction
<1>5. PICK x \in X : TRUE
  OBVIOUS
<1>6. x \in Nat /\ x <= x
  OBVIOUS
<1>7. \E i \in X : \A j \in X : i <= j
  BY <1>4, <1>6 DEF S
<1>. QED  BY <1>7, Zenon DEF Least

\* The height falls by steps of one: what is below a height later on is at it first.
LEMMA FirstBelow ==
  ASSUME NEW text, NEW a \in Nat, NEW c \in Nat, a < c, Height(text, c) < Height(text, a)
  PROVE  \E e \in (a + 1) .. c : /\ Height(text, e) = Height(text, a) - 1
                                 /\ \A k \in a .. (e - 1) : Height(text, k) >= Height(text, a)
<1>. DEFINE X == {k \in Nat : k > a /\ k <= c /\ Height(text, k) < Height(text, a)}
<1>1. X \in SUBSET Nat /\ c \in X
  OBVIOUS
<1>2. PICK e \in X : \A j \in X : e <= j
  <2>. HIDE DEF X
  <2>. QED  BY <1>1, LeastIs
<1>3. e \in Nat /\ e > a /\ e <= c /\ Height(text, e) < Height(text, a)
  OBVIOUS
<1>4. \A k \in Nat : Height(text, k) \in Int
  BY HeightStep
<1>5. ASSUME NEW k \in a .. (e - 1)
      PROVE  Height(text, k) >= Height(text, a)
  <2>1. k \in Nat /\ k >= a /\ k < e /\ k <= c
    BY <1>3
  <2>2. k \notin X
    <3>. HIDE DEF X
    <3>. QED  BY <1>2, <1>3, <2>1
  <2>3. Height(text, k) \in Int /\ Height(text, a) \in Int
    BY <1>4, <2>1
  <2>. QED  BY <2>1, <2>2, <2>3
<1>6. PICK d \in Nat : d = e - 1 /\ e = d + 1 /\ d \in a .. (e - 1)
  BY <1>3
<1>7. Height(text, e) = Height(text, d) + Lift(text[e].op) /\ Height(text, d) \in Int
  BY <1>4, <1>6, HeightStep
<1>8. Lift(text[e].op) \in {-1, 0, 1}
  BY DEF Lift
<1>9. Height(text, d) >= Height(text, a)
  BY <1>5, <1>6
<1>10. Height(text, e) = Height(text, a) - 1
  <2>1. Height(text, a) \in Int /\ Height(text, e) \in Int
    BY <1>3, <1>4
  <2>. QED  BY <1>3, <1>7, <1>8, <1>9, <2>1
<1>11. e \in (a + 1) .. c
  BY <1>3
<1>. QED  BY <1>5, <1>10, <1>11

\* Of two nodes around one place the inner one is higher.
LEMMA EnclosersDiffer ==
  ASSUME NEW text, NEW i \in Nat, NEW j, NEW k, text \in Seq(Node),
         Encloses(text, j, i), Encloses(text, k, i), j < k
  PROVE  Height(text, j) < Height(text, k)
<1>1. /\ j \in DOMAIN text /\ k \in DOMAIN text /\ text[k].op \in Opener
      /\ j < i /\ k < i /\ \A m \in j .. (i - 1) : Height(text, m) >= Height(text, j)
  BY DEF Encloses, Within
<1>2. j \in Nat /\ k \in Nat /\ k # 0
  BY <1>1
<1>3. PICK d \in Nat : d = k - 1 /\ k = d + 1 /\ d \in j .. (i - 1)
  BY <1>1, <1>2
<1>4. Height(text, k) = Height(text, d) + Lift(text[k].op) /\ Height(text, d) \in Int /\ Height(text, j) \in Int
  BY <1>2, <1>3, HeightStep
<1>5. Lift(text[k].op) = 1
  BY <1>1 DEF Lift
<1>6. Height(text, d) >= Height(text, j)
  BY <1>1, <1>3
<1>. QED  BY <1>4, <1>5, <1>6

\* There is one nearest node.
LEMMA NearestIsOne ==
  ASSUME NEW text, NEW i, NEW j, NEW k, text \in Seq(Node), Nearest(text, j, i), Nearest(text, k, i)
  PROVE  j = k
<1>1. j \in Nat /\ k \in Nat /\ j \in DOMAIN text /\ k \in DOMAIN text
  BY DEF Nearest, Encloses
<1>2. ~(j < k) /\ ~(k < j)
  BY <1>1 DEF Nearest
<1>. QED  BY <1>1, <1>2
\* A jump leaves everything that is open open, and opens nothing.
LEMMA JumpWithin ==
  ASSUME NEW text, NEW a, NEW c, text \in Seq(Node), Jump(text, a, c), NEW b \in Nat, Within(text, b, a)
  PROVE  Within(text, b, c)
<1>1. /\ a \in Nat /\ c \in Nat /\ a > 0 /\ a < c /\ b < a
      /\ \A k \in a .. (c - 1) : Height(text, k) >= Height(text, a - 1)
      /\ \A k \in b .. (a - 1) : Height(text, k) >= Height(text, b)
  BY DEF Jump, Within
<1>2. \A k \in Nat : Height(text, k) \in Int
  BY HeightStep
<1>3. a - 1 \in b .. (a - 1) /\ a - 1 \in Nat
  BY <1>1
<1>4. Height(text, a - 1) >= Height(text, b)
  BY <1>1, <1>3
<1>5. ASSUME NEW k \in b .. (c - 1)
      PROVE  Height(text, k) >= Height(text, b)
  <2>1. k \in Nat
    OBVIOUS
  <2>2. CASE k \in b .. (a - 1)
    BY <1>1, <2>2
  <2>3. CASE k \in a .. (c - 1)
    BY <1>1, <1>2, <1>3, <1>4, <2>1, <2>3
  <2>. QED  BY <1>1, <2>1, <2>2, <2>3
<1>. QED  BY <1>1, <1>5 DEF Within

\* After a jump the same nodes are around.
LEMMA JumpEncloses ==
  ASSUME NEW text, NEW a, NEW c, text \in Seq(Node), Jump(text, a, c), NEW j
  PROVE  Encloses(text, j, c) <=> Encloses(text, j, a)
<1>1. /\ a \in Nat /\ c \in Nat /\ a > 0 /\ a < c /\ c - 1 \in a .. (c - 1)
      /\ Height(text, c - 1) = Height(text, a - 1)
      /\ \A k \in a .. (c - 1) : Height(text, k) >= Height(text, a - 1)
  BY DEF Jump
<1>2. \A k \in Nat : Height(text, k) \in Int
  BY HeightStep
<1>3. ASSUME Encloses(text, j, a)
      PROVE  Encloses(text, j, c)
  <2>1. j \in Nat
    BY <1>3 DEF Encloses
  <2>. QED  BY <1>3, <2>1, JumpWithin DEF Encloses
<1>4. ASSUME Encloses(text, j, c)
      PROVE  Encloses(text, j, a)
  <2>1. /\ j \in DOMAIN text /\ j \in Nat /\ j # 0 /\ text[j].op \in Opener /\ j < c
        /\ \A k \in j .. (c - 1) : Height(text, k) >= Height(text, j)
    BY <1>4 DEF Encloses, Within
  <2>2. j < a
    <3>. SUFFICES ASSUME j >= a
                  PROVE  FALSE
      BY <1>1, <2>1
    <3>1. PICK d \in Nat : d = j - 1 /\ j = d + 1
      BY <2>1
    <3>2. Height(text, j) = Height(text, d) + 1
      BY <2>1, <3>1, HeightStep DEF Lift
    <3>3. Height(text, d) >= Height(text, a - 1)
      <4>1. d \in a .. (c - 1) \/ d = a - 1
        BY <1>1, <2>1, <3>1
      <4>2. a - 1 \in Nat
        BY <1>1
      <4>3. Height(text, a - 1) \in Int /\ Height(text, d) \in Int
        BY <1>2, <4>2
      <4>. QED  BY <1>1, <4>1, <4>3
    <3>4. c - 1 \in j .. (c - 1)
      BY <1>1, <2>1
    <3>5. Height(text, c - 1) >= Height(text, j)
      BY <2>1, <3>4
    <3>6. a - 1 \in Nat /\ Height(text, a - 1) \in Int /\ Height(text, d) \in Int
      BY <1>1, <1>2
    <3>. QED  BY <1>1, <3>2, <3>3, <3>5, <3>6
  <2>3. \A k \in j .. (a - 1) : k \in j .. (c - 1)
    BY <1>1, <2>1
  <2>. QED  BY <2>1, <2>2, <2>3 DEF Encloses, Within
<1>. QED  BY <1>3, <1>4

\* Inside of an opener it is around, too.
LEMMA EnterEncloses ==
  ASSUME NEW text, NEW a \in DOMAIN text, text \in Seq(Node), text[a].op \in Opener
  PROVE  /\ \A j : Encloses(text, j, a + 1) <=> (Encloses(text, j, a) \/ j = a)
         /\ \A b \in Nat : Within(text, b, a) => Within(text, b, a + 1)
<1>1. a \in Nat /\ a # 0
  OBVIOUS
<1>2. PICK d \in Nat : d = a - 1 /\ a = d + 1
  BY <1>1
<1>3. Height(text, a) = Height(text, d) + 1 /\ Height(text, d) \in Int
  BY <1>2, HeightStep DEF Lift
<1>4. \A k \in Nat : Height(text, k) \in Int
  BY HeightStep
<1>5. ASSUME NEW b \in Nat, Within(text, b, a)
      PROVE  Within(text, b, a + 1)
  <2>1. b < a /\ \A k \in b .. (a - 1) : Height(text, k) >= Height(text, b)
    BY <1>5 DEF Within
  <2>2. Height(text, a) >= Height(text, b)
    BY <1>1, <1>2, <1>3, <1>4, <2>1
  <2>3. \A k \in b .. (a + 1 - 1) : k \in b .. (a - 1) \/ k = a
    BY <1>1
  <2>. QED  BY <1>1, <2>1, <2>2, <2>3 DEF Within
<1>6. ASSUME NEW j, Encloses(text, j, a)
      PROVE  Encloses(text, j, a + 1)
  <2>1. j \in Nat
    BY <1>6 DEF Encloses
  <2>. QED  BY <1>5, <1>6, <2>1 DEF Encloses
<1>7. Encloses(text, a, a + 1)
  <2>1. \A k \in a .. (a + 1 - 1) : k = a
    BY <1>1
  <2>2. Height(text, a) >= Height(text, a)
    BY <1>1, <1>4
  <2>. QED  BY <1>1, <2>1, <2>2 DEF Encloses, Within
<1>8. ASSUME NEW j, Encloses(text, j, a + 1), j # a
      PROVE  Encloses(text, j, a)
  <2>1. /\ j \in DOMAIN text /\ j \in Nat /\ text[j].op \in Opener /\ j < a + 1
        /\ \A k \in j .. (a + 1 - 1) : Height(text, k) >= Height(text, j)
    BY <1>8 DEF Encloses, Within
  <2>2. j < a /\ \A k \in j .. (a - 1) : k \in j .. (a + 1 - 1)
    BY <1>1, <1>8, <2>1
  <2>. QED  BY <2>1, <2>2 DEF Encloses, Within
<1>. QED  BY <1>5, <1>6, <1>7, <1>8

\* Behind an "end" the nodes are around that are lower than what it ends.
LEMMA LeaveEncloses ==
  ASSUME NEW text, NEW a \in DOMAIN text, text \in Seq(Node), text[a].op = "end"
  PROVE  /\ \A j : Encloses(text, j, a + 1) <=> (Encloses(text, j, a) /\ Height(text, j) < Height(text, a - 1))
         /\ \A b \in Nat : Within(text, b, a) /\ Height(text, b) < Height(text, a - 1) => Within(text, b, a + 1)
         /\ Height(text, a) = Height(text, a - 1) - 1
<1>1. a \in Nat /\ a # 0 /\ text[a].op \notin Opener
  BY DEF Opener
<1>2. PICK d \in Nat : d = a - 1 /\ a = d + 1
  BY <1>1
<1>4. \A k \in Nat : Height(text, k) \in Int
  BY HeightStep
<1>3. Height(text, a) = Height(text, d) - 1
  <2>1. Height(text, a) = Height(text, d) + Lift(text[a].op)
    BY <1>2, HeightStep
  <2>2. Lift(text[a].op) = -1
    BY <1>1 DEF Lift
  <2>. QED  BY <1>4, <2>1, <2>2
<1>5. ASSUME NEW b \in Nat, Within(text, b, a), Height(text, b) < Height(text, a - 1)
      PROVE  Within(text, b, a + 1)
  <2>1. b < a /\ \A k \in b .. (a - 1) : Height(text, k) >= Height(text, b)
    BY <1>5 DEF Within
  <2>2. Height(text, a) >= Height(text, b)
    BY <1>1, <1>2, <1>3, <1>4, <1>5
  <2>3. \A k \in b .. (a + 1 - 1) : k \in b .. (a - 1) \/ k = a
    BY <1>1
  <2>. QED  BY <1>1, <2>1, <2>2, <2>3 DEF Within
<1>6. ASSUME NEW j, Encloses(text, j, a), Height(text, j) < Height(text, a - 1)
      PROVE  Encloses(text, j, a + 1)
  <2>1. j \in Nat
    BY <1>6 DEF Encloses
  <2>. QED  BY <1>5, <1>6, <2>1 DEF Encloses
<1>8. ASSUME NEW j, Encloses(text, j, a + 1)
      PROVE  Encloses(text, j, a) /\ Height(text, j) < Height(text, a - 1)
  <2>1. /\ j \in DOMAIN text /\ j \in Nat /\ text[j].op \in Opener /\ j < a + 1
        /\ \A k \in j .. (a + 1 - 1) : Height(text, k) >= Height(text, j)
    BY <1>8 DEF Encloses, Within
  <2>2. j # a
    BY <1>1, <2>1
  <2>3. j < a /\ (\A k \in j .. (a - 1) : k \in j .. (a + 1 - 1)) /\ a \in j .. (a + 1 - 1)
    BY <1>1, <2>1, <2>2
  <2>4. Height(text, a) >= Height(text, j)
    BY <2>1, <2>3
  <2>5. Height(text, j) < Height(text, a - 1)
    BY <1>2, <1>3, <1>4, <2>1, <2>4
  <2>. QED  BY <2>1, <2>3, <2>5 DEF Encloses, Within
<1>. QED  BY <1>2, <1>3, <1>5, <1>6, <1>8
----
\* What the proofs know of the text.

\* Nodes, and the places of a text.
LEMMA NodeFields ==
  ASSUME NEW n \in Node
  PROVE  /\ n.op \in Opener \union Leaf \union {"end"} /\ n.id \in Nat /\ n.span \in Nat
         /\ n.name \in Seq(STRING) /\ n.params \in Seq(STRING) /\ n.types \in Seq(Seq(STRING))
         /\ n = [op |-> n.op, name |-> n.name, params |-> n.params, types |-> n.types,
                 span |-> n.span, id |-> n.id]
  BY DEF Node, Path

\* The places of a text.
LEMMA TextPlaces ==
  ASSUME NEW text, text \in Seq(Node), text # <<>>
  PROVE  /\ Len(text) \in Nat \ {0} /\ DOMAIN text = 1 .. Len(text)
         /\ \A i \in DOMAIN text : i \in Nat /\ i # 0 /\ i <= Len(text) /\ text[i] \in Node
  BY EmptySeq, LenProperties

\* Below the last node something is open.
LEMMA HeightsPositive ==
  ASSUME NEW text, TextInv(text)
  PROVE  /\ \A k \in 0 .. Len(text) : Height(text, k) >= 0
         /\ \A k \in 0 .. Len(text) : Height(text, k) > 0 => k < Len(text) /\ k > 0
<1>1. Len(text) \in Nat \ {0}
  BY TextPlaces DEF TextInv
<1>2. Height(text, 0) = 0 /\ Height(text, Len(text)) = 0
  BY HeightStep DEF TextInv
<1>3. \A k \in 1 .. (Len(text) - 1) : Height(text, k) > 0
  BY DEF TextInv
<1>4. \A k \in 0 .. Len(text) : k = 0 \/ k = Len(text) \/ k \in 1 .. (Len(text) - 1)
  BY <1>1
<1>5. \A k \in Nat : Height(text, k) \in Int
  BY HeightStep
<1>6. \A k \in 0 .. Len(text) : k \in Nat
  OBVIOUS
<1>. QED  BY <1>1, <1>2, <1>3, <1>4, <1>5, <1>6

\* The end of an opener, and that going behind it is a jump.
LEMMA EndOfIs ==
  ASSUME NEW text, TextInv(text), NEW i \in DOMAIN text, text[i].op \in Opener
  PROVE  /\ EndOf(text, i) \in (i + 1) .. Len(text) /\ text[EndOf(text, i)].op = "end"
         /\ Height(text, EndOf(text, i)) = Height(text, i) - 1
         /\ Height(text, i) = Height(text, i - 1) + 1
         /\ \A k \in i .. (EndOf(text, i) - 1) : Height(text, k) >= Height(text, i)
         /\ Jump(text, i, EndOf(text, i) + 1)
<1>1. text \in Seq(Node) /\ text # <<>> /\ Height(text, Len(text)) = 0
  BY DEF TextInv
<1>2. /\ Len(text) \in Nat \ {0} /\ DOMAIN text = 1 .. Len(text)
      /\ i \in Nat /\ i # 0 /\ i <= Len(text)
  BY <1>1, TextPlaces
<1>3. \A k \in Nat : Height(text, k) \in Int
  BY HeightStep
<1>4. PICK d \in Nat : d = i - 1 /\ i = d + 1 /\ d \in 0 .. Len(text)
  BY <1>2
<1>5. Height(text, i) = Height(text, d) + 1
  BY <1>4, HeightStep DEF Lift
<1>6. Height(text, d) >= 0
  BY <1>4, HeightsPositive
<1>7. Height(text, i) > 0
  BY <1>3, <1>4, <1>5, <1>6
<1>8. i < Len(text) /\ Height(text, Len(text)) < Height(text, i)
  BY <1>1, <1>2, <1>7
<1>9. PICK e \in (i + 1) .. Len(text) :
        Height(text, e) = Height(text, i) - 1 /\ \A k \in i .. (e - 1) : Height(text, k) >= Height(text, i)
  BY <1>2, <1>8, FirstBelow
<1>10. e \in Nat /\ e > i /\ e <= Len(text)
  BY <1>2, <1>9
<1>17. Height(text, e) = Height(text, d)
  <2>1. \A a, b, c \in Int : a = b + 1 /\ c = a - 1 => c = b
    OBVIOUS
  <2>2. Height(text, e) \in Int /\ Height(text, d) \in Int /\ Height(text, i) \in Int
    BY <1>2, <1>3, <1>10
  <2>. QED  BY <1>5, <1>9, <2>1, <2>2
<1>18. \A h \in Int : h - h = 0
  OBVIOUS
<1>. DEFINE X == {j \in i .. Len(text) : Depth(text, i, j) = 0}
<1>11. ASSUME NEW j \in i .. Len(text)
       PROVE  Depth(text, i, j) = Height(text, j) - Height(text, d)
  <2>1. PICK n \in Nat : j = i - 1 + n
    <3>1. j - i + 1 \in Nat /\ j = i - 1 + (j - i + 1)
      BY <1>2
    <3>. QED  BY <3>1
  <2>2. i \in Nat \ {0}
    BY <1>2
  <2>. QED  BY <1>4, <2>1, <2>2, DepthIsHeight
<1>12. e \in X
  <2>1. e \in i .. Len(text)
    BY <1>10, <1>2
  <2>2. Height(text, e) - Height(text, d) = 0
    BY <1>3, <1>17, <1>18
  <2>. QED  BY <1>11, <2>1, <2>2
<1>13. \A j \in X : e <= j
  <2>1. SUFFICES ASSUME NEW j \in X, j < e
                 PROVE  FALSE
    BY <1>10
  <2>2. j \in i .. (e - 1) /\ j \in i .. Len(text) /\ j \in Nat
    BY <1>10, <1>2, <2>1
  <2>3. Height(text, j) >= Height(text, i) /\ Height(text, j) - Height(text, d) = 0
    BY <1>9, <1>11, <2>1, <2>2
  <2>. QED  BY <1>3, <1>4, <1>5, <2>2, <2>3
<1>14. EndOf(text, i) = e
  <2>1. X \in SUBSET Nat /\ X # {}
    BY <1>2, <1>12
  <2>2. EndOf(text, i) = Least(X)
    BY DEF EndOf
  <2>. HIDE DEF X
  <2>3. Least(X) \in X /\ \A j \in X : Least(X) <= j
    BY <2>1, LeastIs
  <2>4. Least(X) \in Nat
    BY <2>1, <2>3
  <2>. QED  BY <1>10, <1>12, <1>13, <2>2, <2>3, <2>4
<1>15. text[e].op = "end"
  <2>1. PICK c \in Nat : c = e - 1 /\ e = c + 1 /\ c \in i .. (e - 1)
    BY <1>10, <1>2
  <2>2. Height(text, e) = Height(text, c) + Lift(text[e].op) /\ Height(text, c) >= Height(text, i)
    BY <1>9, <2>1, HeightStep
  <2>3. Lift(text[e].op) \in Int /\ (text[e].op # "end" => Lift(text[e].op) >= 0)
    BY DEF Lift
  <2>. QED  BY <1>2, <1>3, <1>9, <2>1, <2>2, <2>3
<1>16. Jump(text, i, e + 1)
  <2>1. e + 1 \in (i + 1) .. (Len(text) + 1) /\ e + 1 - 1 = e
    BY <1>10, <1>2
  <2>2. Height(text, e) = Height(text, d)
    BY <1>17
  <2>3. ASSUME NEW k \in i .. e
        PROVE  Height(text, k) >= Height(text, d)
    <3>1. k \in i .. (e - 1) \/ k = e
      BY <1>10
    <3>2. k \in Nat
      BY <1>2
    <3>. QED  BY <1>3, <1>2, <1>4, <1>5, <1>9, <2>2, <3>1, <3>2
  <2>. QED  BY <1>4, <2>1, <2>2, <2>3 DEF Jump
<1>. QED  BY <1>4, <1>5, <1>9, <1>14, <1>15, <1>16

\* A node without children is a jump, too.
LEMMA LeafJump ==
  ASSUME NEW text, text \in Seq(Node), NEW i \in DOMAIN text, text[i].op \in Leaf
  PROVE  Jump(text, i, i + 1)
<1>1. i \in Nat /\ i # 0 /\ i <= Len(text) /\ Len(text) \in Nat
  BY LenProperties
<1>2. PICK d \in Nat : d = i - 1 /\ i = d + 1
  BY <1>1
<1>3. text[i].op \notin Opener /\ text[i].op # "end"
  BY DEF Leaf, Opener
<1>4. Height(text, i) = Height(text, d) + 0 /\ Height(text, d) \in Int
  BY <1>2, <1>3, HeightStep DEF Lift
<1>5. i + 1 \in (i + 1) .. (Len(text) + 1) /\ i + 1 - 1 = i
  BY <1>1
<1>6. \A k \in i .. i : k = i
  BY <1>1
<1>7. Height(text, i) = Height(text, d) /\ Height(text, i) >= Height(text, d)
  BY <1>4
<1>. QED  BY <1>2, <1>5, <1>6, <1>7 DEF Jump
----
\* The copy of a template's body that the expander inserts.

\* Texts with the same nodes from p and from q on rise alike.
LEMMA SameLifts ==
  ASSUME NEW text, NEW new, NEW p, NEW q, NEW m, SameNodes(text, new, p, q, m)
  PROVE  SameRise(text, new, p, q, m)
<1>0. p \in Nat /\ q \in Nat /\ m \in Nat /\ \A k \in 1 .. m : new[p + k].op = text[q + k].op
  BY DEF SameNodes
<1>. DEFINE S == {k \in Nat : k <= m => Height(new, p + k) = Height(new, p) + (Height(text, q + k) - Height(text, q))}
<1>1. \A k \in Nat : Height(new, k) \in Int /\ Height(text, k) \in Int
  BY HeightStep
<1>2. 0 \in S
  <2>1. p + 0 = p /\ q + 0 = q
    BY <1>0
  <2>2. \A g, h \in Int : g = g + (h - h)
    OBVIOUS
  <2>. QED  BY <1>0, <1>1, <2>1, <2>2
<1>3. ASSUME NEW k \in S
      PROVE  k + 1 \in S
  <2>1. k \in Nat
    OBVIOUS
  <2>. SUFFICES ASSUME k + 1 <= m
                PROVE  Height(new, p + (k + 1)) = Height(new, p) + (Height(text, q + (k + 1)) - Height(text, q))
    BY <2>1
  <2>2. PICK c \in Nat, d \in Nat : c = p + k /\ d = q + k /\ p + (k + 1) = c + 1 /\ q + (k + 1) = d + 1
    BY <1>0, <2>1
  <2>3. k + 1 \in 1 .. m /\ k <= m
    BY <1>0, <2>1
  <2>4. new[c + 1].op = text[d + 1].op
    BY <1>0, <2>2, <2>3
  <2>5. /\ Height(new, c + 1) = Height(new, c) + Lift(new[c + 1].op)
        /\ Height(text, d + 1) = Height(text, d) + Lift(new[c + 1].op)
    BY <2>4, HeightStep
  <2>6. Lift(new[c + 1].op) \in Int
    BY DEF Lift
  <2>7. Height(new, c) = Height(new, p) + (Height(text, d) - Height(text, q))
    BY <2>2, <2>3
  <2>8. \A g, h, i, l \in Int : (g + (h - i)) + l = g + ((h + l) - i)
    OBVIOUS
  <2>9. Height(new, c + 1) = Height(new, p) + (Height(text, d + 1) - Height(text, q))
    BY <1>0, <1>1, <2>5, <2>6, <2>7, <2>8
  <2>. QED  BY <2>2, <2>9
<1>4. S \in SUBSET Nat
  OBVIOUS
<1>. HIDE DEF S
<1>5. \A k \in Nat : k \in S
  BY <1>2, <1>3, <1>4, Induction
<1>6. \A k \in 0 .. m : k \in S /\ k <= m
  BY <1>0, <1>5
<1>. QED  BY <1>6 DEF S, SameRise

\* Heights before, in and behind the copy.
LEMMA InsertedHeights ==
  ASSUME NEW text, NEW new, NEW a, NEW s, NEW n, NEW fresh, TextInv(text), Inserts(text, new, a, s, n, fresh)
  PROVE  /\ \A k \in 0 .. a : Height(new, k) = Height(text, k)
         /\ \A k \in 0 .. n : Height(new, a + k) >= Height(text, a)
         /\ Height(new, a + n) = Height(text, a)
         /\ \A k \in a .. Len(text) : Height(new, k + n) = Height(text, k)
         /\ Height(text, a) > 0
<1>1. text \in Seq(Node) /\ text # <<>>
  BY DEF TextInv
<1>2. /\ a \in DOMAIN text /\ text[a].op = "expand" /\ s \in DOMAIN text /\ text[s].op = "template"
      /\ n \in Nat /\ EndOf(text, s) = s + n + 1
      /\ \A i \in 1 .. a : new[i] = text[i]
      /\ \A k \in 1 .. n : new[a + k] = [text[s + k] EXCEPT !.id = fresh + k]
      /\ \A i \in (a + 1) .. Len(text) : new[i + n] = text[i]
  BY DEF Inserts
<1>3. /\ Len(text) \in Nat /\ DOMAIN text = 1 .. Len(text) /\ a \in Nat /\ s \in Nat
      /\ a \in 1 .. Len(text) /\ s \in 1 .. Len(text)
  BY <1>1, <1>2, TextPlaces
<1>4. /\ \A k \in Nat : Height(new, k) \in Int /\ Height(text, k) \in Int
      /\ Height(new, 0) = 0 /\ Height(text, 0) = 0
  BY HeightStep
<1>5. /\ EndOf(text, s) \in (s + 1) .. Len(text) /\ Height(text, EndOf(text, s)) = Height(text, s) - 1
      /\ text[EndOf(text, s)].op = "end"
      /\ \A k \in s .. (EndOf(text, s) - 1) : Height(text, k) >= Height(text, s)
  BY <1>2, EndOfIs DEF Opener
<1>6. /\ \A k \in 0 .. n : s + k \in s .. (EndOf(text, s) - 1) /\ s + k \in Nat /\ a + k \in Nat
      /\ \A k \in 1 .. n : s + k \in 1 .. Len(text)
      /\ s + n \in Nat /\ n \in 0 .. n /\ 0 \in 0 .. a
  BY <1>2, <1>3, <1>5
<1>7. \A k \in 0 .. a : Height(new, k) = Height(text, k)
  <2>1. \A k \in 1 .. a : new[0 + k].op = text[0 + k].op
    BY <1>2
  <2>5. SameNodes(text, new, 0, 0, a)
    BY <1>3, <2>1 DEF SameNodes
  <2>6. SameRise(text, new, 0, 0, a)
    BY <2>5, SameLifts
  <2>2. \A k \in 0 .. a : Height(new, 0 + k) = Height(new, 0) + (Height(text, 0 + k) - Height(text, 0))
    BY <2>6 DEF SameRise
  <2>3. \A k \in 0 .. a : 0 + k = k /\ k \in Nat
    BY <1>3
  <2>4. \A h \in Int : 0 + (h - 0) = h
    OBVIOUS
  <2>. QED  BY <1>4, <2>2, <2>3, <2>4
<1>8. \A k \in 0 .. n : Height(new, a + k) = Height(new, a) + (Height(text, s + k) - Height(text, s))
  <2>1. ASSUME NEW k \in 1 .. n
        PROVE  new[a + k].op = text[s + k].op
    <3>1. text[s + k] \in Node
      BY <1>1, <1>3, <1>6, TextPlaces
    <3>2. PICK x \in Node : x = text[s + k]
      BY <3>1
    <3>3. x = [op |-> x.op, name |-> x.name, params |-> x.params, types |-> x.types, span |-> x.span, id |-> x.id]
      BY NodeFields
    <3>4. [x EXCEPT !.id = fresh + k].op = x.op
      BY <3>3
    <3>. QED  BY <1>2, <3>2, <3>4
  <2>2. SameNodes(text, new, a, s, n)
    BY <1>2, <1>3, <2>1 DEF SameNodes
  <2>3. SameRise(text, new, a, s, n)
    BY <2>2, SameLifts
  <2>. QED  BY <2>3 DEF SameRise
<1>9. Height(new, a) = Height(text, a)
  <2>1. a \in 0 .. a
    BY <1>3
  <2>. QED  BY <1>7, <2>1
<1>10. Height(text, s + n) = Height(text, s)
  <2>1. Height(text, (s + n) + 1) = Height(text, s + n) + Lift(text[(s + n) + 1].op)
    BY <1>6, HeightStep
  <2>2. EndOf(text, s) = (s + n) + 1
    BY <1>2
  <2>3. Lift(text[(s + n) + 1].op) = -1
    BY <1>5, <2>2 DEF Lift, Opener
  <2>4. \A g, h \in Int : h - 1 = g + (-1) => g = h
    OBVIOUS
  <2>. QED  BY <1>3, <1>4, <1>5, <1>6, <2>1, <2>2, <2>3, <2>4
<1>11. ASSUME NEW k \in 0 .. n
       PROVE  Height(new, a + k) >= Height(text, a)
  <2>1. Height(text, s + k) >= Height(text, s)
    BY <1>5, <1>6
  <2>2. \A g, h, i \in Int : h >= i => g + (h - i) >= g
    OBVIOUS
  <2>. QED  BY <1>3, <1>4, <1>6, <1>8, <1>9, <2>1, <2>2
<1>12. Height(new, a + n) = Height(text, a)
  <2>1. \A g, h \in Int : g + (h - h) = g
    OBVIOUS
  <2>. QED  BY <1>3, <1>4, <1>6, <1>8, <1>9, <1>10, <2>1
<1>13. ASSUME NEW k \in a .. Len(text)
       PROVE  Height(new, k + n) = Height(text, k)
  <2>7. \A x \in Nat : \A y \in 1 .. x : x - y \in Nat
    OBVIOUS
  <2>1. PICK m \in Nat : m = Len(text) - a
    BY <1>3, <2>7
  <2>2. ASSUME NEW i \in 1 .. m
        PROVE  new[(a + n) + i].op = text[a + i].op
    <3>1. a + i \in (a + 1) .. Len(text) /\ (a + i) + n = (a + n) + i
      BY <1>2, <1>3, <2>1
    <3>2. new[(a + i) + n] = text[a + i]
      BY <1>2, <3>1
    <3>. QED  BY <3>1, <3>2
  <2>3. a + n \in Nat
    BY <1>2, <1>3
  <2>4. \A i \in 0 .. m : Height(new, (a + n) + i) = Height(new, a + n) + (Height(text, a + i) - Height(text, a))
    <3>1. SameNodes(text, new, a + n, a, m)
      BY <1>3, <2>2, <2>3 DEF SameNodes
    <3>2. SameRise(text, new, a + n, a, m)
      BY <3>1, SameLifts
    <3>. QED  BY <3>2 DEF SameRise
  <2>5. k - a \in 0 .. m /\ (a + n) + (k - a) = k + n /\ a + (k - a) = k /\ k \in Nat
    BY <1>2, <1>3, <2>1
  <2>6. \A g, h \in Int : h + (g - h) = g
    OBVIOUS
  <2>. QED  BY <1>3, <1>4, <1>12, <2>4, <2>5, <2>6
<1>14. Height(text, a) > 0
  <2>1. Height(text, a) = Height(text, a - 1) + 1
    BY <1>2, EndOfIs DEF Opener
  <2>2. a - 1 \in 0 .. Len(text) /\ a - 1 \in Nat
    BY <1>3
  <2>3. Height(text, a - 1) >= 0
    BY <2>2, HeightsPositive
  <2>. QED  BY <1>4, <2>1, <2>2, <2>3
<1>. QED  BY <1>7, <1>11, <1>12, <1>13, <1>14
\* What is known of the insertion, and where the nodes are.
LEMMA InsertedPlaces ==
  ASSUME NEW text, NEW new, NEW a, NEW s, NEW n, NEW fresh, TextInv(text), Inserts(text, new, a, s, n, fresh)
  PROVE  /\ text \in Seq(Node) /\ new \in Seq(Node) /\ Len(text) \in Nat /\ a \in Nat /\ n \in Nat /\ s \in Nat
         /\ a \in 1 .. Len(text) /\ a < Len(text) /\ a # 0 /\ s # 0 /\ s + n < Len(text) /\ fresh \in Nat
         /\ DOMAIN text = 1 .. Len(text) /\ DOMAIN new = 1 .. (Len(text) + n)
         /\ \A i \in DOMAIN text : Moved(a, n, i) \in DOMAIN new /\ new[Moved(a, n, i)] = text[i]
         /\ \A i \in DOMAIN new : \/ \E o \in DOMAIN text : i = Moved(a, n, o)
                                  \/ \E k \in 1 .. n : i = a + k
         /\ \A k \in 1 .. n : a + k \in DOMAIN new /\ s + k \in DOMAIN text
                              /\ new[a + k] = [text[s + k] EXCEPT !.id = fresh + k]
<1>1. text \in Seq(Node) /\ text # <<>>
  BY DEF TextInv
<1>2. /\ a \in DOMAIN text /\ s \in DOMAIN text /\ text[s].op = "template" /\ text[a].op = "expand"
      /\ n \in Nat /\ EndOf(text, s) = s + n + 1 /\ fresh \in Nat
      /\ new \in Seq(Node) /\ Len(new) = Len(text) + n
      /\ \A i \in 1 .. a : new[i] = text[i]
      /\ \A k \in 1 .. n : new[a + k] = [text[s + k] EXCEPT !.id = fresh + k]
      /\ \A i \in (a + 1) .. Len(text) : new[i + n] = text[i]
  BY DEF Inserts
<1>3. /\ Len(text) \in Nat /\ DOMAIN text = 1 .. Len(text) /\ a \in Nat /\ s \in Nat
      /\ a \in 1 .. Len(text) /\ s \in 1 .. Len(text)
  BY <1>1, <1>2, TextPlaces
<1>4. EndOf(text, s) \in (s + 1) .. Len(text) /\ EndOf(text, a) \in (a + 1) .. Len(text)
  BY <1>2, EndOfIs DEF Opener
<1>5. DOMAIN new = 1 .. (Len(text) + n)
  BY <1>2, LenProperties
<1>6. a < Len(text) /\ s + n < Len(text) /\ a # 0 /\ s # 0
  BY <1>2, <1>3, <1>4
<1>7. ASSUME NEW i \in DOMAIN text
      PROVE  Moved(a, n, i) \in DOMAIN new /\ new[Moved(a, n, i)] = text[i]
  <2>1. i \in Nat /\ i \in 1 .. Len(text)
    BY <1>3
  <2>2. CASE i <= a
    <3>1. Moved(a, n, i) = i /\ i \in 1 .. a /\ i \in 1 .. (Len(text) + n)
      BY <1>2, <1>3, <2>1, <2>2 DEF Moved
    <3>. QED  BY <1>2, <1>5, <3>1
  <2>3. CASE ~(i <= a)
    <3>1. Moved(a, n, i) = i + n /\ i \in (a + 1) .. Len(text) /\ i + n \in 1 .. (Len(text) + n)
      BY <1>2, <1>3, <2>1, <2>3 DEF Moved
    <3>. QED  BY <1>2, <1>5, <3>1
  <2>. QED  BY <2>2, <2>3
<1>8. ASSUME NEW i \in DOMAIN new
      PROVE  \/ \E o \in DOMAIN text : i = Moved(a, n, o)
             \/ \E k \in 1 .. n : i = a + k
  <2>1. i \in Nat /\ i \in 1 .. (Len(text) + n)
    BY <1>5
  <2>2. CASE i <= a
    <3>1. Moved(a, n, i) = i /\ i \in 1 .. Len(text)
      BY <1>3, <2>1, <2>2 DEF Moved
    <3>. QED  BY <1>3, <3>1
  <2>3. CASE i > a /\ i <= a + n
    <3>1. i - a \in 1 .. n /\ i = a + (i - a)
      BY <1>2, <1>3, <2>1, <2>3
    <3>. QED  BY <3>1
  <2>4. CASE i > a + n
    <3>1. i - n \in 1 .. Len(text) /\ ~(i - n <= a) /\ i = (i - n) + n
      BY <1>2, <1>3, <2>1, <2>4
    <3>2. Moved(a, n, i - n) = i
      BY <3>1 DEF Moved
    <3>. QED  BY <1>3, <3>1, <3>2
  <2>. QED  BY <1>2, <1>3, <2>1, <2>2, <2>3, <2>4
<1>9. ASSUME NEW k \in 1 .. n
      PROVE  a + k \in 1 .. (Len(text) + n) /\ s + k \in 1 .. Len(text)
  BY <1>2, <1>3, <1>6
<1>. QED  BY <1>1, <1>2, <1>3, <1>5, <1>6, <1>7, <1>8, <1>9

\* Who encloses whom does not change.
LEMMA InsertedEncloses ==
  ASSUME NEW text, NEW new, NEW a, NEW s, NEW n, NEW fresh, TextInv(text), Inserts(text, new, a, s, n, fresh),
         NEW i \in DOMAIN text, NEW j \in DOMAIN text
  PROVE  Encloses(new, Moved(a, n, j), Moved(a, n, i)) <=> Encloses(text, j, i)
<1>1. /\ Len(text) \in Nat /\ a \in Nat /\ n \in Nat /\ a \in 1 .. Len(text) /\ DOMAIN text = 1 .. Len(text)
      /\ i \in Nat /\ j \in Nat /\ i <= Len(text) /\ j <= Len(text) /\ i # 0 /\ j # 0
      /\ Moved(a, n, j) \in DOMAIN new /\ new[Moved(a, n, j)] = text[j]
  BY InsertedPlaces
<1>2. /\ \A k \in 0 .. a : Height(new, k) = Height(text, k)
      /\ \A k \in 0 .. n : Height(new, a + k) >= Height(text, a)
      /\ \A k \in a .. Len(text) : Height(new, k + n) = Height(text, k)
  BY InsertedHeights
<1>3. \A k \in Nat : Height(new, k) \in Int /\ Height(text, k) \in Int
  BY HeightStep
<1>4. CASE i <= a
  <2>1. CASE j <= a
    <3>1. Moved(a, n, i) = i /\ Moved(a, n, j) = j
      BY <1>4, <2>1 DEF Moved
    <3>2. \A k \in j .. (i - 1) : k \in 0 .. a
      BY <1>1, <1>4
    <3>3. j \in 0 .. a
      BY <1>1, <2>1
    <3>4. Within(new, j, i) <=> Within(text, j, i)
      BY <1>2, <3>2, <3>3 DEF Within
    <3>. QED  BY <1>1, <3>1, <3>4 DEF Encloses
  <2>2. CASE ~(j <= a)
    <3>1. Moved(a, n, i) = i /\ Moved(a, n, j) = j + n
      BY <1>4, <2>2 DEF Moved
    <3>2. ~(j + n < i) /\ ~(j < i)
      BY <1>1, <1>4, <2>2
    <3>. QED  BY <3>1, <3>2 DEF Encloses, Within
  <2>. QED  BY <2>1, <2>2
<1>5. CASE ~(i <= a)
  <2>9. PICK p \in Nat : p = i + n
    BY <1>1
  <2>0. Moved(a, n, i) = p /\ i > a /\ p = i + n
    BY <1>1, <1>5, <2>9 DEF Moved
  <2>1. CASE j <= a
    <3>1. Moved(a, n, j) = j /\ j \in 0 .. a /\ Height(new, j) = Height(text, j)
      BY <1>1, <1>2, <2>1 DEF Moved
    <3>2. ASSUME Within(text, j, i)
          PROVE  Within(new, j, p)
      <4>1. \A k \in j .. (i - 1) : Height(text, k) >= Height(text, j)
        BY <3>2 DEF Within
      <4>2. ASSUME NEW k \in j .. (p - 1)
            PROVE  Height(new, k) >= Height(new, j)
        <5>1. k \in Nat /\ k >= j /\ k < p
          BY <1>1
        <5>2. CASE k <= a
          <6>1. k \in 0 .. a /\ k \in j .. (i - 1)
            BY <1>1, <2>0, <5>1, <5>2
          <6>. QED  BY <1>2, <3>1, <4>1, <6>1
        <5>3. CASE k > a /\ k <= a + n
          <6>1. k - a \in 0 .. n /\ a + (k - a) = k /\ a \in j .. (i - 1)
            BY <1>1, <2>0, <2>1, <5>1, <5>3
          <6>2. Height(new, k) >= Height(text, a) /\ Height(text, a) >= Height(text, j)
            BY <1>2, <4>1, <6>1
          <6>3. \A x, y, z \in Int : x >= y /\ y >= z => x >= z
            OBVIOUS
          <6>. QED  BY <1>1, <1>3, <3>1, <5>1, <6>2, <6>3
        <5>4. CASE k > a + n
          <6>1. k - n \in a .. Len(text) /\ (k - n) + n = k /\ k - n \in j .. (i - 1)
            BY <1>1, <2>0, <2>1, <5>1, <5>4
          <6>. QED  BY <1>2, <3>1, <4>1, <6>1
        <5>. QED  BY <1>1, <5>1, <5>2, <5>3, <5>4
      <4>3. j < p
        BY <1>1, <2>0, <2>1
      <4>. QED  BY <4>2, <4>3 DEF Within
    <3>3. ASSUME Within(new, j, p)
          PROVE  Within(text, j, i)
      <4>1. \A k \in j .. (p - 1) : Height(new, k) >= Height(new, j)
        BY <3>3 DEF Within
      <4>2. ASSUME NEW k \in j .. (i - 1)
            PROVE  Height(text, k) >= Height(text, j)
        <5>1. k \in Nat /\ k >= j /\ k < i
          BY <1>1
        <5>2. CASE k <= a
          <6>1. k \in 0 .. a /\ k \in j .. (p - 1)
            BY <1>1, <2>0, <5>1, <5>2
          <6>. QED  BY <1>2, <3>1, <4>1, <6>1
        <5>4. CASE k > a
          <6>1. k \in a .. Len(text) /\ k + n \in j .. (p - 1)
            BY <1>1, <2>0, <2>1, <5>1, <5>4
          <6>. QED  BY <1>2, <3>1, <4>1, <6>1
        <5>. QED  BY <1>1, <5>1, <5>2, <5>4
      <4>3. j < i
        BY <1>1, <2>0, <2>1
      <4>. QED  BY <4>2, <4>3 DEF Within
    <3>. QED  BY <1>1, <2>0, <3>1, <3>2, <3>3 DEF Encloses
  <2>2. CASE ~(j <= a)
    <3>0. PICK q \in Nat : q = j + n
      BY <1>1
    <3>1. Moved(a, n, j) = q /\ j > a /\ Height(new, q) = Height(text, j) /\ q = j + n
      <4>1. j \in a .. Len(text)
        BY <1>1, <2>2
      <4>. QED  BY <1>1, <1>2, <2>2, <3>0, <4>1 DEF Moved
    <3>2. ASSUME Within(text, j, i)
          PROVE  Within(new, q, p)
      <4>1. j < i /\ \A k \in j .. (i - 1) : Height(text, k) >= Height(text, j)
        BY <3>2 DEF Within
      <4>2. ASSUME NEW k \in q .. (p - 1)
            PROVE  Height(new, k) >= Height(new, q)
        <5>1. k - n \in a .. Len(text) /\ (k - n) + n = k /\ k - n \in j .. (i - 1)
          BY <1>1, <2>0, <3>1
        <5>. QED  BY <1>2, <3>1, <4>1, <5>1
      <4>3. q < p
        BY <1>1, <2>0, <3>1, <4>1
      <4>. QED  BY <4>2, <4>3 DEF Within
    <3>3. ASSUME Within(new, q, p)
          PROVE  Within(text, j, i)
      <4>1. q < p /\ \A k \in q .. (p - 1) : Height(new, k) >= Height(new, q)
        BY <3>3 DEF Within
      <4>2. ASSUME NEW k \in j .. (i - 1)
            PROVE  Height(text, k) >= Height(text, j)
        <5>1. k \in a .. Len(text) /\ k + n \in q .. (p - 1)
          BY <1>1, <2>0, <3>1
        <5>. QED  BY <1>2, <3>1, <4>1, <5>1
      <4>3. j < i
        BY <1>1, <2>0, <3>1, <4>1
      <4>. QED  BY <4>2, <4>3 DEF Within
    <3>. QED  BY <1>1, <2>0, <3>1, <3>2, <3>3 DEF Encloses
  <2>. QED  BY <2>1, <2>2
<1>. QED  BY <1>4, <1>5

\* Nothing in the copy encloses an old node.
LEMMA CopyEnclosesCopy ==
  ASSUME NEW text, NEW new, NEW a, NEW s, NEW n, NEW fresh, TextInv(text), Inserts(text, new, a, s, n, fresh),
         NEW i \in DOMAIN text, NEW k \in 1 .. n
  PROVE  ~Encloses(new, a + k, Moved(a, n, i))
<1>. SUFFICES ASSUME Encloses(new, a + k, Moved(a, n, i))
              PROVE  FALSE
  OBVIOUS
<1>1. /\ Len(text) \in Nat /\ a \in Nat /\ n \in Nat /\ a \in 1 .. Len(text)
      /\ i \in Nat /\ i <= Len(text) /\ k \in Nat /\ k >= 1 /\ k <= n
  BY InsertedPlaces
<1>2. /\ \A l \in 0 .. n : Height(new, a + l) >= Height(text, a)
      /\ Height(new, a + n) = Height(text, a)
  BY InsertedHeights
<1>3. /\ new[a + k].op \in Opener /\ a + k < Moved(a, n, i)
      /\ \A l \in (a + k) .. (Moved(a, n, i) - 1) : Height(new, l) >= Height(new, a + k)
  BY DEF Encloses, Within
<1>4. Moved(a, n, i) = i + n /\ i > a
  <2>1. CASE i <= a
    BY <1>1, <1>3, <2>1 DEF Moved
  <2>2. CASE ~(i <= a)
    BY <1>1, <2>2 DEF Moved
  <2>. QED  BY <2>1, <2>2
<1>5. a + n \in (a + k) .. (i + n - 1)
  BY <1>1, <1>4
<1>6. Height(text, a) >= Height(new, a + k)
  <2>1. PICK p \in Nat : p = i + n
    BY <1>1
  <2>2. PICK d \in Nat : d = a + n
    BY <1>1
  <2>3. d \in (a + k) .. (p - 1)
    BY <1>1, <1>4, <2>1, <2>2
  <2>4. \A l \in (a + k) .. (p - 1) : Height(new, l) >= Height(new, a + k)
    BY <1>3, <1>4, <2>1
  <2>. QED  BY <1>2, <2>2, <2>3, <2>4
<1>7. PICK c \in Nat : c = a + k - 1 /\ c + 1 = a + k /\ c = a + (k - 1) /\ k - 1 \in 0 .. n
  BY <1>1
<1>8. Height(new, a + k) = Height(new, c) + 1
  BY <1>3, <1>7, HeightStep DEF Lift
<1>9. Height(new, c) >= Height(text, a)
  BY <1>2, <1>7
<1>10. Height(new, c) \in Int /\ Height(text, a) \in Int
  BY <1>1, HeightStep
<1>. QED  BY <1>6, <1>8, <1>9, <1>10

\* Up to the expansion the tree is as before.
LEMMA InsertedBefore ==
  ASSUME NEW text, NEW new, NEW a, NEW s, NEW n, NEW fresh, TextInv(text), Inserts(text, new, a, s, n, fresh),
         NEW p \in Nat, p <= a
  PROVE  /\ \A b \in Nat : Within(new, b, p) <=> Within(text, b, p)
         /\ \A j : Encloses(new, j, p) <=> Encloses(text, j, p)
         /\ Live(new, p) <=> Live(text, p)
<1>1. /\ Len(text) \in Nat /\ a \in Nat /\ n \in Nat /\ a \in 1 .. Len(text)
      /\ DOMAIN text = 1 .. Len(text) /\ DOMAIN new = 1 .. (Len(text) + n)
  BY InsertedPlaces
<1>2. \A k \in 0 .. a : Height(new, k) = Height(text, k)
  BY InsertedHeights
<1>3. ASSUME NEW b \in Nat
      PROVE  Within(new, b, p) <=> Within(text, b, p)
  <2>1. CASE b < p
    <3>1. b \in 0 .. a /\ \A k \in b .. (p - 1) : k \in 0 .. a
      BY <1>1, <2>1
    <3>. QED  BY <1>2, <3>1 DEF Within
  <2>. QED  BY <2>1 DEF Within
<1>4. ASSUME NEW j
      PROVE  Encloses(new, j, p) <=> Encloses(text, j, p)
  <2>1. CASE j \in Nat /\ j < p /\ j # 0
    <3>1. j \in 1 .. a /\ j \in DOMAIN text /\ j \in DOMAIN new
      BY <1>1, <2>1
    <3>2. new[j] = text[j]
      BY <3>1 DEF Inserts
    <3>. QED  BY <1>3, <2>1, <3>1, <3>2 DEF Encloses
  <2>2. CASE ~(j \in Nat /\ j < p /\ j # 0)
    <3>1. \A l \in 1 .. Len(text) : l \in Nat /\ l # 0
      BY <1>1
    <3>2. \A l \in 1 .. (Len(text) + n) : l \in Nat /\ l # 0
      BY <1>1
    <3>. QED  BY <1>1, <2>2, <3>1, <3>2 DEF Encloses, Within
  <2>. QED  BY <2>1, <2>2
<1>5. \A j \in DOMAIN text : j <= a => new[j] = text[j]
  <2>1. \A j \in 1 .. a : new[j] = text[j]
    BY DEF Inserts
  <2>. QED  BY <1>1, <2>1
<1>6. \A j : Encloses(text, j, p) => j \in DOMAIN text /\ j \in DOMAIN new /\ new[j] = text[j]
  <2>1. ASSUME NEW j, Encloses(text, j, p)
        PROVE  j \in DOMAIN text /\ j \in DOMAIN new /\ new[j] = text[j]
    <3>1. j \in DOMAIN text /\ j < p
      BY <2>1 DEF Encloses, Within
    <3>2. j \in Nat /\ j <= a /\ j \in DOMAIN new
      BY <1>1, <3>1
    <3>. QED  BY <1>5, <3>1, <3>2
  <2>. QED  BY <2>1
<1>7. Live(new, p) <=> Live(text, p)
  BY <1>4, <1>6 DEF Live
<1>. QED  BY <1>3, <1>4, <1>7

\* The copy is within the expansion.
LEMMA CopyWithin ==
  ASSUME NEW text, NEW new, NEW a, NEW s, NEW n, NEW fresh, TextInv(text), Inserts(text, new, a, s, n, fresh),
         NEW k \in 1 .. (n + 1)
  PROVE  Within(new, a, a + k)
<1>1. a \in Nat /\ n \in Nat /\ a \in 1 .. Len(text) /\ Len(text) \in Nat
  BY InsertedPlaces
<1>2. /\ \A l \in 0 .. n : Height(new, a + l) >= Height(text, a)
      /\ \A l \in 0 .. a : Height(new, l) = Height(text, l)
  BY InsertedHeights
<1>3. a < a + k /\ a \in 0 .. a
  BY <1>1
<1>4. Height(new, a) = Height(text, a)
  BY <1>2, <1>3
<1>5. PICK e \in Nat : e = a + k
  BY <1>1
<1>6. ASSUME NEW l \in a .. (e - 1)
      PROVE  Height(new, l) >= Height(new, a)
  <2>1. l - a \in 0 .. n /\ a + (l - a) = l
    BY <1>1, <1>5
  <2>. QED  BY <1>2, <1>4, <2>1
<1>. QED  BY <1>3, <1>5, <1>6 DEF Within

\* Old nodes are in a template if they were.
LEMMA InsertedLive ==
  ASSUME NEW text, NEW new, NEW a, NEW s, NEW n, NEW fresh, TextInv(text), Inserts(text, new, a, s, n, fresh),
         NEW i \in DOMAIN text
  PROVE  Live(new, Moved(a, n, i)) <=> Live(text, i)
<1>1. /\ \A j \in DOMAIN text : Moved(a, n, j) \in DOMAIN new /\ new[Moved(a, n, j)] = text[j]
      /\ \A j \in DOMAIN new : \/ \E o \in DOMAIN text : j = Moved(a, n, o)
                               \/ \E k \in 1 .. n : j = a + k
  <2>1. ASSUME NEW j \in DOMAIN text
        PROVE  Moved(a, n, j) \in DOMAIN new /\ new[Moved(a, n, j)] = text[j]
    BY InsertedPlaces
  <2>2. \A j \in DOMAIN new : \/ \E o \in DOMAIN text : j = Moved(a, n, o)
                             \/ \E k \in 1 .. n : j = a + k
    BY InsertedPlaces, ZenonT(60)
  <2>. QED  BY <2>1, <2>2
<1>2. \A j \in DOMAIN text : Encloses(new, Moved(a, n, j), Moved(a, n, i)) <=> Encloses(text, j, i)
  BY InsertedEncloses
<1>3. \A k \in 1 .. n : ~Encloses(new, a + k, Moved(a, n, i))
  BY CopyEnclosesCopy
<1>4. ASSUME Live(text, i), NEW j \in DOMAIN new, Encloses(new, j, Moved(a, n, i))
      PROVE  new[j].op # "template"
  <2>1. PICK o \in DOMAIN text : j = Moved(a, n, o)
    BY <1>1, <1>3, <1>4
  <2>. QED  BY <1>1, <1>2, <1>4, <2>1 DEF Live
<1>5. ASSUME Live(new, Moved(a, n, i)), NEW j \in DOMAIN text, Encloses(text, j, i)
      PROVE  text[j].op # "template"
  BY <1>1, <1>2, <1>5 DEF Live
<1>. QED  BY <1>4, <1>5 DEF Live

\* The nodes of a copy have what the nodes of the body have, an id apart.
LEMMA CopyFields ==
  ASSUME NEW text, NEW new, NEW a, NEW s, NEW n, NEW fresh, TextInv(text), Inserts(text, new, a, s, n, fresh),
         NEW k \in 1 .. n
  PROVE  /\ s + k \in DOMAIN text /\ a + k \in DOMAIN new
         /\ new[a + k].op = text[s + k].op /\ new[a + k].name = text[s + k].name
         /\ new[a + k].params = text[s + k].params /\ new[a + k].id = fresh + k
<1>0. text \in Seq(Node) /\ text # <<>>
  BY DEF TextInv
<1>1. /\ fresh \in Nat /\ a + k \in DOMAIN new /\ s + k \in DOMAIN text
      /\ new[a + k] = [text[s + k] EXCEPT !.id = fresh + k]
  <2>1. a + k \in DOMAIN new /\ s + k \in DOMAIN text
    BY InsertedPlaces
  <2>. QED  BY <2>1 DEF Inserts
<1>2. PICK x \in Node : x = text[s + k]
  BY <1>0, <1>1, TextPlaces
<1>3. x = [op |-> x.op, name |-> x.name, params |-> x.params, types |-> x.types, span |-> x.span, id |-> x.id]
  BY NodeFields
<1>. QED  BY <1>1, <1>2, <1>3

\* An expansion in a template's body is empty, also where the body ends.
LEMMA BodyExpansions ==
  ASSUME NEW text, NEW new, NEW a, NEW s, NEW n, NEW fresh, TextInv(text), Inserts(text, new, a, s, n, fresh),
         NEW k \in 1 .. n, text[s + k].op = "expand"
  PROVE  k < n /\ text[s + k + 1].op = "end"
<1>1. /\ text \in Seq(Node) /\ a \in Nat /\ n \in Nat /\ s \in Nat /\ s # 0 /\ s + n < Len(text) /\ Len(text) \in Nat
      /\ s + k \in DOMAIN text /\ DOMAIN text = 1 .. Len(text)
  BY InsertedPlaces
<1>2. s \in DOMAIN text /\ text[s].op = "template" /\ EndOf(text, s) = s + n + 1
  BY DEF Inserts
<1>3. \A l \in s .. (EndOf(text, s) - 1) : Height(text, l) >= Height(text, s)
  BY <1>2, EndOfIs DEF Opener
<1>4. \A l \in Nat : Height(text, l) \in Int
  BY HeightStep
<1>5. PICK e \in Nat : e = s + k /\ e > s /\ e <= s + n
  BY <1>1
<1>6. Within(text, s, e)
  <2>1. \A l \in s .. (e - 1) : l \in s .. (EndOf(text, s) - 1)
    BY <1>1, <1>2, <1>5
  <2>. QED  BY <1>3, <1>5, <2>1 DEF Within
<1>7. ~Live(text, e)
  BY <1>2, <1>6 DEF Live, Encloses, Opener
<1>8. text[e + 1].op = "end"
  BY <1>1, <1>5, <1>7 DEF TextInv
<1>9. k # n
  <2>. SUFFICES ASSUME k = n
                PROVE  FALSE
    OBVIOUS
  <2>1. Height(text, e) = Height(text, e - 1) + 1 /\ e - 1 \in Nat
    BY <1>1, <1>5, EndOfIs DEF Opener
  <2>2. e - 1 \in s .. (EndOf(text, s) - 1)
    BY <1>1, <1>2, <1>5
  <2>3. Height(text, EndOf(text, s)) = Height(text, s) - 1 /\ EndOf(text, s) = e + 1
    BY <1>1, <1>2, <1>5, EndOfIs DEF Opener
  <2>4. Height(text, e + 1) = Height(text, e) + (-1)
    BY <1>5, <1>8, HeightStep DEF Lift, Opener
  <2>5. Height(text, e - 1) >= Height(text, s)
    BY <1>3, <2>2
  <2>6. /\ Height(text, e - 1) \in Int /\ Height(text, e) \in Int /\ Height(text, s) \in Int
        /\ Height(text, e + 1) \in Int
    BY <1>1, <1>4, <1>5, <2>1
  <2>. QED  BY <2>1, <2>3, <2>4, <2>5, <2>6
<1>. QED  BY <1>1, <1>5, <1>8, <1>9

\* The tree with the copy in it is a tree as before.
LEMMA InsertedText ==
  ASSUME NEW text, NEW new, NEW a, NEW s, NEW n, NEW fresh, TextInv(text), Inserts(text, new, a, s, n, fresh)
  PROVE  TextInv(new)
<1>. DEFINE ll == Len(text)
<1>1. /\ new \in Seq(Node) /\ ll \in Nat /\ a \in Nat /\ n \in Nat /\ s \in Nat /\ a # 0 /\ a < ll /\ fresh \in Nat
      /\ DOMAIN text = 1 .. ll /\ DOMAIN new = 1 .. (ll + n)
  BY InsertedPlaces
<1>2. ASSUME NEW i \in DOMAIN text
      PROVE  Moved(a, n, i) \in DOMAIN new /\ new[Moved(a, n, i)] = text[i]
  BY InsertedPlaces
<1>3. \A i \in DOMAIN new : \/ \E o \in DOMAIN text : i = Moved(a, n, o)
                           \/ \E k \in 1 .. n : i = a + k
  BY InsertedPlaces, ZenonT(60)
<1>4. ASSUME NEW k \in 1 .. n
      PROVE  /\ s + k \in DOMAIN text /\ a + k \in DOMAIN new
             /\ new[a + k].op = text[s + k].op /\ new[a + k].name = text[s + k].name
             /\ new[a + k].params = text[s + k].params /\ new[a + k].id = fresh + k
  BY CopyFields
<1>5. /\ text[1].op = "module" /\ Height(text, ll) = 0
      /\ \A k \in 1 .. (ll - 1) : Height(text, k) > 0
      /\ \A i \in DOMAIN text : text[i].id > 0 /\ text[i].id <= fresh
      /\ \A i, j \in DOMAIN text : text[i].id = text[j].id => i = j
      /\ \A i \in DOMAIN text : text[i].op # "end" => text[i].name # <<>>
      /\ \A i \in DOMAIN text : text[i].op = "template" =>
           \A k, l \in DOMAIN text[i].params : text[i].params[k] = text[i].params[l] => k = l
      /\ \A i \in DOMAIN text : text[i].op = "expand" /\ ~Live(text, i) => text[i + 1].op = "end"
  BY DEF TextInv, Inserts
<1>6. /\ \A k \in 0 .. a : Height(new, k) = Height(text, k)
      /\ \A k \in 0 .. n : Height(new, a + k) >= Height(text, a)
      /\ \A k \in a .. ll : Height(new, k + n) = Height(text, k)
      /\ Height(text, a) > 0
  BY InsertedHeights
<1>7. \A k \in Nat : Height(new, k) \in Int /\ Height(text, k) \in Int
  BY HeightStep
<1>8. \A i \in DOMAIN text : text[i].id \in Nat
  <2>1. text \in Seq(Node) /\ text # <<>>
    BY DEF TextInv
  <2>2. \A i \in DOMAIN text : text[i] \in Node
    BY <2>1, TextPlaces
  <2>. QED  BY <2>2 DEF Node
<1>. HIDE DEF ll
<1>10. Len(new) = ll + n /\ new # <<>>
  <2>1. Len(new) = ll + n
    BY DEF Inserts, ll
  <2>2. Len(<<>>) = 0
    OBVIOUS
  <2>. QED  BY <1>1, <2>1, <2>2
<1>11. new[1].op = "module"
  <2>1. 1 \in DOMAIN text /\ Moved(a, n, 1) = 1
    BY <1>1 DEF Moved
  <2>2. Moved(a, n, 1) \in DOMAIN new /\ new[Moved(a, n, 1)] = text[1]
    BY <1>2, <2>1
  <2>. QED  BY <1>5, <2>1, <2>2
<1>12. Height(new, Len(new)) = 0
  <2>1. ll \in a .. ll
    BY <1>1
  <2>. QED  BY <1>5, <1>6, <1>10, <2>1
<1>13. ASSUME NEW k \in 1 .. (Len(new) - 1)
       PROVE  Height(new, k) > 0
  <2>1. k \in Nat /\ k >= 1 /\ k < ll + n
    BY <1>1, <1>10
  <2>2. CASE k <= a
    <3>1. k \in 0 .. a /\ k \in 1 .. (ll - 1)
      BY <1>1, <2>1, <2>2
    <3>. QED  BY <1>5, <1>6, <3>1
  <2>3. CASE k > a /\ k <= a + n
    <3>1. k - a \in 0 .. n /\ a + (k - a) = k
      BY <1>1, <2>1, <2>3
    <3>2. Height(new, k) >= Height(text, a)
      BY <1>6, <3>1
    <3>3. Height(new, k) \in Int /\ Height(text, a) \in Int
      BY <1>1, <1>7, <2>1
    <3>4. \A x, y \in Int : x >= y /\ y > 0 => x > 0
      OBVIOUS
    <3>. QED  BY <1>6, <3>2, <3>3, <3>4
  <2>4. CASE k > a + n
    <3>1. k - n \in a .. ll /\ k - n \in 1 .. (ll - 1) /\ (k - n) + n = k
      BY <1>1, <2>1, <2>4
    <3>. QED  BY <1>5, <1>6, <3>1
  <2>5. k <= a \/ (k > a /\ k <= a + n) \/ k > a + n
    BY <1>1, <2>1
  <2>. QED  BY <2>2, <2>3, <2>4, <2>5
<1>14. ASSUME NEW i \in DOMAIN new
       PROVE  new[i].id > 0
  <2>1. CASE \E o \in DOMAIN text : i = Moved(a, n, o)
    BY <1>2, <1>5, <2>1
  <2>2. CASE \E k \in 1 .. n : i = a + k
    BY <1>1, <1>4, <2>2
  <2>. QED  BY <1>3, <2>1, <2>2
<1>15. ASSUME NEW i \in DOMAIN new, NEW j \in DOMAIN new, new[i].id = new[j].id
       PROVE  i = j
  <2>1. ASSUME NEW o \in DOMAIN text, NEW k \in 1 .. n
        PROVE  new[Moved(a, n, o)].id # new[a + k].id
    <3>1. new[Moved(a, n, o)] = text[o] /\ text[o].id <= fresh /\ text[o].id \in Nat
      BY <1>2, <1>5, <1>8
    <3>2. new[a + k].id = fresh + k /\ k \in Nat /\ k > 0
      BY <1>1, <1>4
    <3>. QED  BY <1>1, <3>1, <3>2
  <2>2. CASE \E o \in DOMAIN text : i = Moved(a, n, o)
    <3>1. PICK o \in DOMAIN text : i = Moved(a, n, o)
      BY <2>2
    <3>2. PICK p \in DOMAIN text : j = Moved(a, n, p)
      BY <1>3, <1>15, <2>1, <3>1
    <3>3. new[i] = text[o] /\ new[j] = text[p]
      BY <1>2, <3>1, <3>2
    <3>. QED  BY <1>5, <1>15, <3>1, <3>2, <3>3
  <2>3. CASE \E k \in 1 .. n : i = a + k
    <3>1. PICK k \in 1 .. n : i = a + k
      BY <2>3
    <3>2. PICK l \in 1 .. n : j = a + l
      BY <1>3, <1>15, <2>1, <3>1
    <3>3. fresh + k = fresh + l /\ k \in Nat /\ l \in Nat
      BY <1>1, <1>4, <1>15, <3>1, <3>2
    <3>. QED  BY <1>1, <3>1, <3>2, <3>3
  <2>. QED  BY <1>3, <2>2, <2>3
<1>16. ASSUME NEW i \in DOMAIN new, new[i].op # "end"
       PROVE  new[i].name # <<>>
  <2>1. CASE \E o \in DOMAIN text : i = Moved(a, n, o)
    BY <1>2, <1>5, <1>16, <2>1
  <2>2. CASE \E k \in 1 .. n : i = a + k
    BY <1>4, <1>5, <1>16, <2>2
  <2>. QED  BY <1>3, <2>1, <2>2
<1>17. ASSUME NEW i \in DOMAIN new, new[i].op = "template"
       PROVE  \A k, l \in DOMAIN new[i].params : new[i].params[k] = new[i].params[l] => k = l
  <2>1. CASE \E o \in DOMAIN text : i = Moved(a, n, o)
    <3>1. PICK o \in DOMAIN text : new[i] = text[o]
      BY <1>2, <2>1
    <3>. QED  BY <1>5, <1>17, <3>1
  <2>2. CASE \E k \in 1 .. n : i = a + k
    <3>1. PICK o \in DOMAIN text : new[i].op = text[o].op /\ new[i].params = text[o].params
      BY <1>4, <2>2
    <3>. QED  BY <1>5, <1>17, <3>1
  <2>. QED  BY <1>3, <2>1, <2>2
<1>18. ASSUME NEW i \in DOMAIN new, new[i].op = "expand", ~Live(new, i)
       PROVE  new[i + 1].op = "end"
  <2>1. CASE \E o \in DOMAIN text : i = Moved(a, n, o)
    <3>1. PICK o \in DOMAIN text : i = Moved(a, n, o)
      BY <2>1
    <3>2. new[i] = text[o] /\ ~Live(text, o)
      BY <1>2, <1>18, <3>1, InsertedLive
    <3>3. text[o + 1].op = "end" /\ o # a
      BY <1>5, <1>18, <3>2 DEF Inserts
    <3>4. o + 1 \in DOMAIN text
      <4>1. EndOf(text, o) \in (o + 1) .. ll
        BY <1>18, <3>2, EndOfIs DEF Opener, ll
      <4>. QED  BY <1>1, <4>1
    <3>5. Moved(a, n, o + 1) = i + 1
      BY <1>1, <3>1, <3>3 DEF Moved
    <3>. QED  BY <1>2, <3>3, <3>4, <3>5
  <2>2. CASE \E k \in 1 .. n : i = a + k
    <3>1. PICK k \in 1 .. n : i = a + k
      BY <2>2
    <3>2. k < n /\ text[s + k + 1].op = "end"
      BY <1>4, <1>18, <3>1, BodyExpansions
    <3>3. PICK l \in 1 .. n : l = k + 1
      BY <1>1, <3>2
    <3>4. a + l = i + 1 /\ s + l = s + k + 1
      BY <1>1, <3>1, <3>3
    <3>. QED  BY <1>4, <3>2, <3>4
  <2>. QED  BY <1>3, <2>1, <2>2
<1>. QED  BY <1>1, <1>10, <1>11, <1>12, <1>13, <1>14, <1>15, <1>16, <1>17, <1>18 DEF TextInv
----
\* Symbol tables as a forest.

\* What every table has when it has it as soon as its parent has it.
LEMMA FromTheTop ==
  ASSUME NEW ts, Shape(ts), Ranked(ts), NEW G,
         \A t \in DOMAIN ts : (ts[t].parent # NoTable => ts[t].parent \in G) => t \in G
  PROVE  \A t \in DOMAIN ts : t \in G
<1>1. PICK n \in Nat : \E rank \in [DOMAIN ts -> 0 .. n] :
        \A t \in DOMAIN ts : ts[t].parent # NoTable => rank[ts[t].parent] < rank[t]
  BY DEF Ranked
<1>2. PICK rank \in [DOMAIN ts -> 0 .. n] :
        \A t \in DOMAIN ts : ts[t].parent # NoTable => rank[ts[t].parent] < rank[t]
  BY <1>1
<1>3. \A t \in DOMAIN ts : ts[t].parent # NoTable => ts[t].parent \in DOMAIN ts
  BY DEF Shape
<1>. DEFINE S == {m \in Nat : \A t \in DOMAIN ts : rank[t] < m => t \in G}
<1>4. \A t \in DOMAIN ts : rank[t] \in Nat /\ rank[t] < n + 1
  BY <1>1
<1>5. 0 \in S
  BY <1>4
<1>6. ASSUME NEW m \in S
      PROVE  m + 1 \in S
  <2>1. ASSUME NEW t \in DOMAIN ts, rank[t] < m + 1
        PROVE  t \in G
    <3>1. ts[t].parent # NoTable => ts[t].parent \in DOMAIN ts /\ rank[ts[t].parent] < m
      BY <1>2, <1>3, <1>4, <2>1
    <3>2. ts[t].parent # NoTable => ts[t].parent \in G
      BY <3>1
    <3>. QED  BY <3>2
  <2>. QED  BY <2>1
<1>7. S \in SUBSET Nat
  OBVIOUS
<1>. HIDE DEF S
<1>8. \A m \in Nat : m \in S
  BY <1>5, <1>6, <1>7, Induction
<1>9. n + 1 \in S
  BY <1>8
<1>. QED  BY <1>4, <1>9 DEF S

\* There is such a function.
LEMMA UpwardExists ==
  ASSUME NEW ts, Shape(ts), Ranked(ts), NEW C, NEW V
  PROVE  \E f : Upward(ts, C, V, f)
<1>1. PICK n \in Nat : \E rank \in [DOMAIN ts -> 0 .. n] :
        \A t \in DOMAIN ts : ts[t].parent # NoTable => rank[ts[t].parent] < rank[t]
  BY DEF Ranked
<1>2. PICK rank \in [DOMAIN ts -> 0 .. n] :
        \A t \in DOMAIN ts : ts[t].parent # NoTable => rank[ts[t].parent] < rank[t]
  BY <1>1
<1>3. \A t \in DOMAIN ts : ts[t].parent # NoTable => ts[t].parent \in DOMAIN ts
  BY DEF Shape
<1>4. \A t \in DOMAIN ts : rank[t] \in Nat /\ rank[t] < n + 1
  BY <1>1
<1>. DEFINE D(m) == {t \in DOMAIN ts : rank[t] < m}
            Part(f, m) == f = [s \in D(m) |-> IF s \in C \/ ts[s].parent = NoTable THEN V[s] ELSE f[ts[s].parent]]
            S == {m \in Nat : \E f : Part(f, m)}
<1>5. 0 \in S
  <2>. DEFINE f == [s \in D(0) |-> V[s]]
  <2>1. D(0) = {}
    BY <1>4
  <2>2. Part(f, 0)
    BY <2>1
  <2>. HIDE DEF Part
  <2>. QED  BY <2>2
<1>6. ASSUME NEW m \in S
      PROVE  m + 1 \in S
  <2>1. m \in Nat
    OBVIOUS
  <2>2. PICK f : Part(f, m)
    OBVIOUS
  <2>. DEFINE g == [s \in D(m + 1) |-> IF s \in C \/ ts[s].parent = NoTable THEN V[s] ELSE f[ts[s].parent]]
  <2>3. \A s \in D(m) : s \in D(m + 1)
    BY <1>4, <2>1
  <2>4. \A s \in D(m) : f[s] = IF s \in C \/ ts[s].parent = NoTable THEN V[s] ELSE f[ts[s].parent]
    <3>. HIDE DEF D
    <3>. QED  BY <2>2
  <2>5. \A s \in D(m) : g[s] = f[s]
    <3>. HIDE DEF D
    <3>. QED  BY <2>3, <2>4
  <2>6. \A s \in D(m + 1) : ts[s].parent # NoTable => ts[s].parent \in D(m)
    BY <1>2, <1>3, <1>4, <2>1
  <2>7. Part(g, m + 1)
    <3>1. \A s \in D(m + 1) : (IF s \in C \/ ts[s].parent = NoTable THEN V[s] ELSE f[ts[s].parent])
                              = (IF s \in C \/ ts[s].parent = NoTable THEN V[s] ELSE g[ts[s].parent])
      <4>. HIDE DEF D, g
      <4>. QED  BY <2>5, <2>6
    <3>. HIDE DEF D
    <3>2. g = [s \in D(m + 1) |-> IF s \in C \/ ts[s].parent = NoTable THEN V[s] ELSE g[ts[s].parent]]
      <4>1. g = [s \in D(m + 1) |-> IF s \in C \/ ts[s].parent = NoTable THEN V[s] ELSE f[ts[s].parent]]
        OBVIOUS
      <4>. HIDE DEF g
      <4>. QED  BY <3>1, <4>1
    <3>. QED  BY <3>2
  <2>. HIDE DEF Part, g
  <2>. QED  BY <2>1, <2>7
<1>7. S \in SUBSET Nat
  OBVIOUS
<1>. HIDE DEF S
<1>8. \A m \in Nat : m \in S
  BY <1>5, <1>6, <1>7, Induction
<1>9. n + 1 \in S
  BY <1>8
<1>. HIDE DEF Part
<1>10. PICK f : Part(f, n + 1)
  BY <1>9 DEF S
<1>11. D(n + 1) = DOMAIN ts
  BY <1>4
<1>. HIDE DEF D
<1>. USE DEF Part
<1>. QED  BY <1>10, <1>11 DEF Upward

\* And is one of the values where the search may stop.
LEMMA UpwardIn ==
  ASSUME NEW ts, Shape(ts), Ranked(ts), NEW C, NEW V, NEW f, Upward(ts, C, V, f), NEW G,
         \A s \in DOMAIN ts : s \in C \/ ts[s].parent = NoTable => V[s] \in G
  PROVE  \A s \in DOMAIN ts : f[s] \in G
<1>. DEFINE H == {t \in DOMAIN ts : f[t] \in G}
<1>1. \A s \in DOMAIN ts : f[s] = IF s \in C \/ ts[s].parent = NoTable THEN V[s] ELSE f[ts[s].parent]
  BY DEF Upward
<1>2. ASSUME NEW t \in DOMAIN ts, ts[t].parent # NoTable => ts[t].parent \in H
      PROVE  t \in H
  BY <1>1, <1>2
<1>. HIDE DEF H
<1>3. \A t \in DOMAIN ts : t \in H
  BY <1>2, FromTheTop
<1>. QED  BY <1>3 DEF H

\* The scope around expansions, one step up.
LEMMA OutsideStep ==
  ASSUME NEW ts, Shape(ts), Ranked(ts), NEW t \in DOMAIN ts
  PROVE  OutsideExpansions(ts, t) =
           IF ts[t].kind # "TemplateParameter" \/ ts[t].parent = NoTable THEN t
           ELSE OutsideExpansions(ts, ts[t].parent)
<1>. DEFINE C == {u \in DOMAIN ts : ts[u].kind # "TemplateParameter"}
            V == [u \in DOMAIN ts |-> u]
            Up(f) == f = [u \in DOMAIN ts |-> IF ts[u].kind # "TemplateParameter" \/ ts[u].parent = NoTable
                                              THEN u ELSE f[ts[u].parent]]
            up == CHOOSE f : Up(f)
<1>1. \E f : Up(f)
  <2>1. PICK f : Upward(ts, C, V, f)
    <3>. HIDE DEF C, V
    <3>. QED  BY UpwardExists
  <2>2. f = [s \in DOMAIN ts |-> IF s \in C \/ ts[s].parent = NoTable THEN V[s] ELSE f[ts[s].parent]]
    BY <2>1 DEF Upward
  <2>3. \A u \in DOMAIN ts :
          (IF u \in C \/ ts[u].parent = NoTable THEN V[u] ELSE f[ts[u].parent])
          = (IF ts[u].kind # "TemplateParameter" \/ ts[u].parent = NoTable THEN u ELSE f[ts[u].parent])
    OBVIOUS
  <2>. HIDE DEF C, V
  <2>4. Up(f)
    BY <2>2, <2>3
  <2>. HIDE DEF Up
  <2>. QED  BY <2>4
<1>2. Up(up)
  <2>. HIDE DEF Up
  <2>. QED  BY <1>1, Zenon
<1>3. \A v : OutsideExpansions(ts, v) = up[v]
  BY DEF OutsideExpansions
<1>. HIDE DEF up
<1>4. \A u \in DOMAIN ts : up[u] = IF ts[u].kind # "TemplateParameter" \/ ts[u].parent = NoTable
                                   THEN u ELSE up[ts[u].parent]
  BY <1>2
<1>. QED  BY <1>3, <1>4

\* The scope around expansions is no expansion's, unless there is nothing around one.
LEMMA OutsideIs ==
  ASSUME NEW ts, Shape(ts), Ranked(ts), NEW t \in DOMAIN ts,
         ~(ts[t].kind = "TemplateParameter" /\ ts[t].parent = NoTable)
  PROVE  /\ OutsideExpansions(ts, t) \in DOMAIN ts
         /\ ts[OutsideExpansions(ts, t)].kind # "TemplateParameter"
         /\ t # World => OutsideExpansions(ts, t) # World
         /\ Rooted(ts, t) => Rooted(ts, OutsideExpansions(ts, t))
<1>. DEFINE up == [u \in DOMAIN ts |-> OutsideExpansions(ts, u)]
<1>1. \A u \in DOMAIN ts : ts[u].parent # NoTable => ts[u].parent \in DOMAIN ts
  BY DEF Shape
<1>2. \A u \in DOMAIN ts : up[u] = OutsideExpansions(ts, u)
  OBVIOUS
<1>. HIDE DEF up
<1>3. OutsideExpansions(ts, t) = up[t]
  BY <1>2
<1>4. \A u \in DOMAIN ts : up[u] = IF ts[u].kind # "TemplateParameter" \/ ts[u].parent = NoTable
                                   THEN u ELSE up[ts[u].parent]
  BY <1>1, <1>2, OutsideStep
<1>. DEFINE Good(u) == /\ up[u] \in DOMAIN ts /\ ts[up[u]].kind # "TemplateParameter"
                       /\ u # World => up[u] # World
                       /\ Rooted(ts, u) => Rooted(ts, up[u])
            G == {u \in DOMAIN ts : (ts[u].kind = "TemplateParameter" /\ ts[u].parent = NoTable) \/ Good(u)}
<1>5. ASSUME NEW u \in DOMAIN ts, ts[u].parent # NoTable => ts[u].parent \in G
      PROVE  u \in G
  <2>1. CASE ts[u].kind # "TemplateParameter" \/ ts[u].parent = NoTable
    BY <1>4, <2>1
  <2>2. CASE ts[u].kind = "TemplateParameter" /\ ts[u].parent # NoTable
    <3>. DEFINE p == ts[u].parent
    <3>1. p \in DOMAIN ts /\ p # World /\ u # World /\ ~(ts[p].kind = "TemplateParameter" /\ ts[p].parent = NoTable)
      BY <2>2 DEF Shape
    <3>2. Good(p)
      BY <1>5, <2>2, <3>1
    <3>3. up[u] = up[p]
      BY <1>4, <2>2
    <3>4. Rooted(ts, u) => Rooted(ts, p)
      BY <3>1 DEF Rooted
    <3>. HIDE DEF p
    <3>5. Good(u)
      BY <3>1, <3>2, <3>3, <3>4
    <3>. HIDE DEF Good
    <3>. QED  BY <3>5
  <2>. QED  BY <2>1, <2>2
<1>. HIDE DEF G
<1>6. \A u \in DOMAIN ts : u \in G
  BY <1>5, FromTheTop
<1>7. Good(t)
  BY <1>6 DEF G
<1>. QED  BY <1>3, <1>7

\* A search finds nothing only where nothing has the name, and else a symbol of the name.
LEMMA FindInIs ==
  ASSUME NEW ts, Known(ts), NEW t \in DOMAIN ts, NEW n
  PROVE  /\ FindIn(ts, t, n) = None => \A s \in ts[t].symbols : s.name # n
         /\ FindIn(ts, t, n) # None => FindIn(ts, t, n) \in ts[t].symbols /\ FindIn(ts, t, n).name = n
<1>1. \A s \in ts[t].symbols : s # None
  <2>1. None.is = "none"
    BY DEF None, Symbol
  <2>2. \A s \in ts[t].symbols : s.is # "none"
    BY DEF Known, SymbolKinds
  <2>. QED  BY <2>1, <2>2
<1>2. CASE \E s \in ts[t].symbols : s.name = n
  <2>1. FindIn(ts, t, n) = CHOOSE s \in ts[t].symbols : s.name = n
    BY <1>2 DEF FindIn
  <2>2. FindIn(ts, t, n) \in ts[t].symbols /\ FindIn(ts, t, n).name = n
    BY <1>2, <2>1, Zenon
  <2>. QED  BY <1>1, <2>2
<1>3. CASE ~\E s \in ts[t].symbols : s.name = n
  BY <1>3 DEF FindIn
<1>. QED  BY <1>2, <1>3

\* A search in a table and above it.
LEMMA FindUpIs ==
  ASSUME Shape(tables), Ranked(tables), Known(tables), NEW t \in DOMAIN tables, NEW n
  PROVE  FindUp(t, n) \in Symbols(tables) \union {None}
<1>. DEFINE C == {u \in DOMAIN tables : Find(u, n) # None}
            V == [u \in DOMAIN tables |-> Find(u, n)]
            Up(f) == f = [s \in DOMAIN tables |-> IF Find(s, n) # None \/ tables[s].parent = NoTable
                                                  THEN Find(s, n) ELSE f[tables[s].parent]]
            up == CHOOSE f : Up(f)
<1>1. \E f : Up(f)
  <2>1. PICK f : Upward(tables, C, V, f)
    <3>. HIDE DEF C, V
    <3>. QED  BY UpwardExists
  <2>2. f = [s \in DOMAIN tables |-> IF s \in C \/ tables[s].parent = NoTable THEN V[s] ELSE f[tables[s].parent]]
    BY <2>1 DEF Upward
  <2>3. \A u \in DOMAIN tables :
          (IF u \in C \/ tables[u].parent = NoTable THEN V[u] ELSE f[tables[u].parent])
          = (IF Find(u, n) # None \/ tables[u].parent = NoTable THEN Find(u, n) ELSE f[tables[u].parent])
    OBVIOUS
  <2>. HIDE DEF C, V
  <2>4. Up(f)
    BY <2>2, <2>3
  <2>. HIDE DEF Up
  <2>. QED  BY <2>4
<1>2. Up(up)
  <2>. HIDE DEF Up
  <2>. QED  BY <1>1, Zenon
<1>3. FindUp(t, n) = up[t]
  BY DEF FindUp
<1>. HIDE DEF up
<1>4. Upward(tables, C, V, up)
  <2>1. up = [s \in DOMAIN tables |-> IF Find(s, n) # None \/ tables[s].parent = NoTable
                                      THEN Find(s, n) ELSE up[tables[s].parent]]
    BY <1>2
  <2>2. \A u \in DOMAIN tables :
          (IF u \in C \/ tables[u].parent = NoTable THEN V[u] ELSE up[tables[u].parent])
          = (IF Find(u, n) # None \/ tables[u].parent = NoTable THEN Find(u, n) ELSE up[tables[u].parent])
    OBVIOUS
  <2>. HIDE DEF C, V
  <2>. QED  BY <2>1, <2>2 DEF Upward
<1>5. ASSUME NEW u \in DOMAIN tables
      PROVE  V[u] \in Symbols(tables) \union {None}
  <2>1. V[u] = FindIn(tables, u, n)
    BY DEF Find
  <2>2. FindIn(tables, u, n) # None => FindIn(tables, u, n) \in tables[u].symbols
    BY FindInIs
  <2>. QED  BY <2>1, <2>2 DEF Symbols
<1>. HIDE DEF C, V
<1>6. \A s \in DOMAIN tables : up[s] \in Symbols(tables) \union {None}
  BY <1>4, <1>5, UpwardIn
<1>. QED  BY <1>3, <1>6

\* A search for a qualified name, from any table.
LEMMA FindQualifiedIs ==
  ASSUME Shape(tables), Ranked(tables), Known(tables), Leads(tables), NEW t \in DOMAIN tables,
         NEW path, path \in Seq(STRING), path # <<>>
  PROVE  FindQualified(t, path) \in Symbols(tables) \union {None}
<1>1. Len(path) \in Nat \ {0} /\ DOMAIN path = 1 .. Len(path)
  BY EmptySeq, LenProperties
<1>. DEFINE n == Len(path)
            Next1(x, i) == IF x.is = "namespace" THEN Find(x.of, path[i]) ELSE None
            T(f, m) == f = [i \in 1 .. m |-> IF i = 1 THEN FindUp(t, path[1]) ELSE Next1(f[i - 1], i)]
            S == {m \in Nat : \E f : T(f, m)}
            G == Symbols(tables) \union {None}
<1>2. 0 \in S
  <2>. DEFINE f == [i \in 1 .. 0 |-> None]
  <2>1. T(f, 0)
    OBVIOUS
  <2>. HIDE DEF T
  <2>. QED  BY <2>1
<1>3. ASSUME NEW m \in S
      PROVE  m + 1 \in S
  <2>1. m \in Nat
    OBVIOUS
  <2>2. PICK f : T(f, m)
    OBVIOUS
  <2>. HIDE DEF Next1
  <2>. DEFINE g == [i \in 1 .. m + 1 |-> IF i = 1 THEN FindUp(t, path[1]) ELSE Next1(f[i - 1], i)]
  <2>3. \A i \in 1 .. m : i \in 1 .. m + 1 /\ g[i] = f[i]
    <3>1. \A i \in 1 .. m : i \in 1 .. m + 1
      BY <2>1
    <3>2. \A i \in 1 .. m : f[i] = IF i = 1 THEN FindUp(t, path[1]) ELSE Next1(f[i - 1], i)
      BY <2>2
    <3>. QED  BY <3>1, <3>2
  <2>4. \A i \in 1 .. m + 1 : i # 1 => i - 1 \in 1 .. m
    BY <2>1
  <2>5. g = [i \in 1 .. m + 1 |-> IF i = 1 THEN FindUp(t, path[1]) ELSE Next1(g[i - 1], i)]
    <3>1. \A i \in 1 .. m + 1 : (IF i = 1 THEN FindUp(t, path[1]) ELSE Next1(f[i - 1], i))
                                = (IF i = 1 THEN FindUp(t, path[1]) ELSE Next1(g[i - 1], i))
      <4>. HIDE DEF g
      <4>. QED  BY <2>3, <2>4
    <3>2. g = [i \in 1 .. m + 1 |-> IF i = 1 THEN FindUp(t, path[1]) ELSE Next1(f[i - 1], i)]
      OBVIOUS
    <3>. HIDE DEF g
    <3>. QED  BY <3>1, <3>2
  <2>6. T(g, m + 1)
    BY <2>5
  <2>. HIDE DEF T, g
  <2>. QED  BY <2>1, <2>6
<1>4. S \in SUBSET Nat
  OBVIOUS
<1>. HIDE DEF S
<1>5. \A m \in Nat : m \in S
  BY <1>2, <1>3, <1>4, Induction
<1>6. n \in S
  BY <1>1, <1>5
<1>. HIDE DEF T
<1>7. \E f : T(f, n)
  BY <1>6 DEF S
<1>. DEFINE part == CHOOSE f : T(f, n)
<1>8. T(part, n)
  BY <1>7, Zenon
<1>9. Parts(t, path) = part
  BY <1>1 DEF Parts, T
<1>. HIDE DEF part
<1>10. \A i \in 1 .. n : part[i] = IF i = 1 THEN FindUp(t, path[1]) ELSE Next1(part[i - 1], i)
  BY <1>8 DEF T
<1>11. FindUp(t, path[1]) \in G
  BY FindUpIs
<1>12. ASSUME NEW x \in G, NEW i
       PROVE  Next1(x, i) \in G
  <2>1. CASE x.is = "namespace"
    <3>1. x # None
      <4>1. None.is = "none"
        BY DEF None, Symbol
      <4>. QED  BY <2>1, <4>1
    <3>2. x.of \in DOMAIN tables
      BY <2>1, <3>1 DEF Symbols, Leads
    <3>3. PICK u \in DOMAIN tables : u = x.of
      BY <3>2
    <3>4. Next1(x, i) = FindIn(tables, u, path[i])
      BY <2>1, <3>3 DEF Find
    <3>5. FindIn(tables, u, path[i]) # None => FindIn(tables, u, path[i]) \in tables[u].symbols
      BY FindInIs
    <3>. QED  BY <3>4, <3>5 DEF Symbols
  <2>2. CASE x.is # "namespace"
    BY <2>2
  <2>. QED  BY <2>1, <2>2
<1>. HIDE DEF Next1, G
<1>. DEFINE R == {m \in Nat : m + 1 <= n => part[m + 1] \in G}
<1>13. 0 \in R
  BY <1>1, <1>10, <1>11
<1>14. ASSUME NEW m \in R
       PROVE  m + 1 \in R
  <2>1. CASE m + 2 <= n
    <3>1. m \in Nat /\ m + 1 <= n /\ (m + 1) + 1 \in 1 .. n /\ (m + 1) + 1 # 1 /\ ((m + 1) + 1) - 1 = m + 1
      BY <1>1, <2>1
    <3>2. part[m + 1] \in G
      BY <3>1
    <3>3. part[(m + 1) + 1] = Next1(part[m + 1], (m + 1) + 1)
      BY <1>10, <3>1
    <3>. QED  BY <1>12, <3>1, <3>2, <3>3
  <2>2. CASE ~(m + 2 <= n)
    <3>1. ~((m + 1) + 1 <= n)
      BY <1>1, <2>2
    <3>. QED  BY <3>1
  <2>. QED  BY <2>1, <2>2
<1>15. R \in SUBSET Nat
  OBVIOUS
<1>. HIDE DEF R
<1>16. \A m \in Nat : m \in R
  BY <1>13, <1>14, <1>15, Induction
<1>17. PICK k \in Nat : k + 1 = n
  <2>1. n - 1 \in Nat /\ (n - 1) + 1 = n
    BY <1>1
  <2>. QED  BY <2>1
<1>18. part[n] \in G
  <2>1. k \in R /\ k + 1 <= n
    BY <1>1, <1>16, <1>17
  <2>. QED  BY <1>17, <2>1 DEF R
<1>. QED  BY <1>9, <1>18 DEF FindQualified, G
----
\* What the proofs know of the tables.

\* So searches find what they are said to find.
LEMMA EntriesKnown ==
  ASSUME NEW text, NEW ts, Entries(text, ts)
  PROVE  Known(ts) /\ Leads(ts)
BY DEF Entries, SymbolFits, Known, Leads

\* What hangs below the global table goes on hanging there.
LEMMA RootedGrows ==
  ASSUME NEW ts, NEW ts2, Shape(ts), Grows(ts, ts2), NEW t, Rooted(ts, t)
  PROVE  Rooted(ts2, t)
<1>1. PICK R \in SUBSET DOMAIN ts : t \in R /\ \A v \in R : v = World \/ ts[v].parent \in R
  BY DEF Rooted
<1>2. NoTable \notin R
  BY <1>1 DEF Shape, NoTable
<1>3. \A v \in R : v = World \/ ts2[v].parent \in R
  BY <1>1, <1>2 DEF Grows
<1>4. R \in SUBSET DOMAIN ts2
  BY DEF Grows
<1>. QED  BY <1>1, <1>3, <1>4 DEF Rooted

\* That is what addSymbol does.
LEMMA AddSymbolEnters ==
  ASSUME NEW ts, Shape(ts), NEW t \in DOMAIN ts, NEW n, NEW is, NEW of, NEW arg
  PROVE  Entered(ts, AddSymbol(ts, t, Symbol(n, is, of, arg)), t, n, is, of)
<1>. DEFINE s == Symbol(n, is, of, arg)
            q == [s EXCEPT !.storage = ts[t].kind, !.full = Append(FullName(ts, t), s.name)]
            r == [ts[t] EXCEPT !.symbols = @ \union {q}]
            ts2 == [ts EXCEPT ![t].symbols = @ \union {q}]
<1>1. AddSymbol(ts, t, s) = ts2
  BY DEF AddSymbol
<1>2. q.name = n /\ q.is = is /\ q.of = of /\ q.storage = ts[t].kind
  BY DEF Symbol
<1>. HIDE DEF q, s
<1>3. IsTable(ts[t]) /\ ts = [u \in DOMAIN ts |-> ts[u]] /\ \A u \in DOMAIN ts : IsTable(ts[u])
  BY DEF Shape
<1>4. /\ r.kind = ts[t].kind /\ r.parent = ts[t].parent /\ r.symbols = ts[t].symbols \union {q}
      /\ IsTable(r)
  BY <1>3 DEF IsTable
<1>5. ts2 = [ts EXCEPT ![t] = r]
  OBVIOUS
<1>. HIDE DEF r
<1>6. DOMAIN ts2 = DOMAIN ts /\ \A u \in DOMAIN ts : ts2[u] = IF u = t THEN r ELSE ts[u]
  BY <1>3, <1>5
<1>7. ts2 = [u \in DOMAIN ts |-> ts2[u]]
  BY <1>3, <1>5
<1>. HIDE DEF ts2
<1>8. \A u \in DOMAIN ts : /\ IsTable(ts2[u]) /\ ts2[u].kind = ts[u].kind /\ ts2[u].parent = ts[u].parent
                           /\ u # t => ts2[u].symbols = ts[u].symbols
  BY <1>3, <1>4, <1>6
<1>9. ts2[t].symbols = ts[t].symbols \union {q}
  BY <1>4, <1>6
<1>10. Entered(ts, ts2, t, n, is, of)
  BY <1>2, <1>7, <1>8, <1>9 DEF Entered
<1>. QED  BY <1>1, <1>10 DEF s

\* The forest is the one before.
LEMMA SameForest ==
  ASSUME NEW text, NEW ts, NEW ts2, Shape(ts), Ranked(ts), Numbered(text, ts), Owned(text, ts),
         ts2 = [u \in DOMAIN ts |-> ts2[u]],
         \A u \in DOMAIN ts : IsTable(ts2[u]) /\ ts2[u].kind = ts[u].kind /\ ts2[u].parent = ts[u].parent
  PROVE  Shape(ts2) /\ Ranked(ts2) /\ Numbered(text, ts2) /\ Owned(text, ts2)
<1>1. DOMAIN ts2 = DOMAIN ts
  OBVIOUS
<1>2. Shape(ts2)
  <2>1. ASSUME NEW t \in DOMAIN ts
        PROVE  /\ ts2[t].kind \in Kinds /\ ts2[t].parent \in DOMAIN ts \union {NoTable}
               /\ ts2[t].kind = "TemplateParameter" => ts2[t].parent # World
               /\ ts2[t].parent # NoTable /\ ts2[ts2[t].parent].kind = "TemplateParameter"
                  => ts2[ts2[t].parent].parent # NoTable
    <3>1. /\ ts[t].kind \in Kinds /\ ts[t].parent \in DOMAIN ts \union {NoTable}
          /\ ts[t].kind = "TemplateParameter" => ts[t].parent # World
          /\ ts[t].parent # NoTable /\ ts[ts[t].parent].kind = "TemplateParameter" => ts[ts[t].parent].parent # NoTable
      BY DEF Shape
    <3>. QED  BY <3>1
  <2>2. DOMAIN ts \in SUBSET Nat /\ World \in DOMAIN ts /\ ts[World].kind = "Global" /\ ts[World].parent = NoTable
    BY DEF Shape
  <2>. QED  BY <1>1, <2>1, <2>2 DEF Shape
<1>3. Ranked(ts2)
  BY <1>1 DEF Ranked
<1>4. Numbered(text, ts2)
  BY <1>1 DEF Numbered
<1>5. \A t : Rooted(ts, t) => Rooted(ts2, t)
  BY <1>1 DEF Rooted
<1>6. Owned(text, ts2)
  <2>. SUFFICES ASSUME NEW i \in DOMAIN text, text[i].op \in OwnsTable
                PROVE  /\ text[i].id \in DOMAIN ts2 \ {World}
                       /\ ts2[text[i].id].kind = "TemplateParameter" <=> text[i].op = "expand"
                       /\ ts2[text[i].id].parent # NoTable => Rooted(ts2, text[i].id)
                       /\ text[i].op = "expand" /\ text[i + 1].op # "end" => ts2[text[i].id].parent # NoTable
    BY DEF Owned
  <2>1. /\ text[i].id \in DOMAIN ts \ {World}
        /\ ts[text[i].id].kind = "TemplateParameter" <=> text[i].op = "expand"
        /\ ts[text[i].id].parent # NoTable => Rooted(ts, text[i].id)
        /\ text[i].op = "expand" /\ text[i + 1].op # "end" => ts[text[i].id].parent # NoTable
    BY DEF Owned
  <2>. QED  BY <1>1, <1>5, <2>1
<1>. QED  BY <1>2, <1>3, <1>4, <1>6

\* A name that is not in a table yet is entered: the tables are in order.
LEMMA EnteredKeeps ==
  ASSUME NEW text, NEW ts, NEW ts2, TableInv(text, ts), NEW t, NEW n, NEW is, NEW of,
         Entered(ts, ts2, t, n, is, of), \A s \in ts[t].symbols : s.name # n,
         is \in SymbolKinds \ {"namespace"}, ts[t].kind = "TemplateParameter" <=> is = "type",
         is = "template" => \E i \in DOMAIN text : text[i].op = "template" /\ text[i].id = of
  PROVE  TableInv(text, ts2) /\ Grows(ts, ts2) /\ DOMAIN ts2 = DOMAIN ts
<1>1. /\ ts2 = [u \in DOMAIN ts |-> ts2[u]] /\ DOMAIN ts2 = DOMAIN ts /\ t \in DOMAIN ts
      /\ \A u \in DOMAIN ts : /\ IsTable(ts2[u]) /\ ts2[u].kind = ts[u].kind /\ ts2[u].parent = ts[u].parent
                              /\ u # t => ts2[u].symbols = ts[u].symbols
  BY DEF Entered
<1>2. PICK q : /\ q.name = n /\ q.is = is /\ q.of = of /\ q.storage = ts[t].kind
               /\ ts2[t].symbols = ts[t].symbols \union {q}
  BY DEF Entered
<1>3. Shape(ts) /\ Ranked(ts) /\ Numbered(text, ts) /\ Owned(text, ts) /\ Entries(text, ts)
  BY DEF TableInv
<1>4. Shape(ts2) /\ Ranked(ts2) /\ Numbered(text, ts2) /\ Owned(text, ts2)
  BY <1>1, <1>3, SameForest
<1>5. ASSUME NEW u \in DOMAIN ts, NEW s, SymbolFits(text, ts, u, s)
      PROVE  SymbolFits(text, ts2, u, s)
  <2>1. s.is = "namespace" => s.of \in DOMAIN ts
    BY <1>5 DEF SymbolFits
  <2>. QED  BY <1>1, <1>5, <2>1 DEF SymbolFits
<1>6. SymbolFits(text, ts, t, q)
  BY <1>2 DEF SymbolFits
<1>7. ASSUME NEW u \in DOMAIN ts2
      PROVE  /\ \A s, r \in ts2[u].symbols : s.name = r.name => s = r
             /\ \A s \in ts2[u].symbols : SymbolFits(text, ts2, u, s)
  <2>1. /\ \A s, r \in ts[u].symbols : s.name = r.name => s = r
        /\ \A s \in ts[u].symbols : SymbolFits(text, ts, u, s)
    BY <1>1, <1>3 DEF Entries
  <2>2. CASE u = t
    <3>1. ts2[u].symbols = ts[u].symbols \union {q}
      BY <1>2, <2>2
    <3>2. \A s, r \in ts2[u].symbols : s.name = r.name => s = r
      BY <1>2, <2>1, <2>2, <3>1
    <3>3. \A s \in ts2[u].symbols : SymbolFits(text, ts2, u, s)
      BY <1>1, <1>5, <1>6, <2>1, <2>2, <3>1
    <3>. QED  BY <3>2, <3>3
  <2>3. CASE u # t
    BY <1>1, <1>5, <2>1, <2>3
  <2>. QED  BY <2>2, <2>3
<1>8. Entries(text, ts2)
  BY <1>7 DEF Entries
<1>9. Grows(ts, ts2)
  BY <1>1, <1>2 DEF Grows
<1>. QED  BY <1>1, <1>4, <1>8, <1>9 DEF TableInv

\* One that hangs below the global table.
LEMMA HangKeeps ==
  ASSUME NEW text, NEW ts, NEW ts2, TableInv(text, ts), NEW u \in DOMAIN ts \ {World}, ts[u].parent = NoTable,
         NEW p \in DOMAIN ts, Rooted(ts, p), ts[u].kind = "TemplateParameter" => p # World,
         HangsAt(ts, u, p, ts2)
  PROVE  TableInv(text, ts2) /\ Grows(ts, ts2) /\ DOMAIN ts2 = DOMAIN ts /\ Rooted(ts2, u)
         /\ \A v \in DOMAIN ts : /\ ts2[v].symbols = ts[v].symbols
                                 /\ ts2[v].parent = IF v = u THEN p ELSE ts[v].parent
<1>. ts2 = [ts EXCEPT ![u].parent = p]
  BY DEF HangsAt
<1>1. Shape(ts) /\ Ranked(ts) /\ Numbered(text, ts) /\ Owned(text, ts) /\ Entries(text, ts)
  BY DEF TableInv
<1>2. /\ ts = [t \in DOMAIN ts |-> ts[t]] /\ \A t \in DOMAIN ts : IsTable(ts[t])
      /\ DOMAIN ts \in SUBSET Nat /\ World \in DOMAIN ts /\ ts[World].kind = "Global" /\ ts[World].parent = NoTable
      /\ NoTable \notin DOMAIN ts
  BY <1>1 DEF Shape, NoTable
<1>. DEFINE r == [ts[u] EXCEPT !.parent = p]
<1>3. r.kind = ts[u].kind /\ r.symbols = ts[u].symbols /\ r.parent = p /\ IsTable(r)
  BY <1>2 DEF IsTable
<1>4. ts2 = [ts EXCEPT ![u] = r]
  OBVIOUS
<1>. HIDE DEF r
<1>5. /\ DOMAIN ts2 = DOMAIN ts /\ ts2 = [t \in DOMAIN ts |-> ts2[t]]
      /\ \A v \in DOMAIN ts : ts2[v] = IF v = u THEN r ELSE ts[v]
  BY <1>2, <1>4
<1>6. \A v \in DOMAIN ts : /\ IsTable(ts2[v]) /\ ts2[v].kind = ts[v].kind /\ ts2[v].symbols = ts[v].symbols
                           /\ ts2[v].parent = IF v = u THEN p ELSE ts[v].parent
  BY <1>2, <1>3, <1>5
<1>7. PICK R \in SUBSET DOMAIN ts : p \in R /\ \A v \in R : v = World \/ ts[v].parent \in R
  BY DEF Rooted
<1>8. u \notin R
  BY <1>2, <1>7
<1>9. ts[p].kind = "TemplateParameter" => ts[p].parent # NoTable
  BY <1>2, <1>7
<1>10. Grows(ts, ts2)
  BY <1>5, <1>6 DEF Grows
<1>11. Rooted(ts2, u)
  <2>1. R \union {u} \in SUBSET DOMAIN ts2
    BY <1>5
  <2>2. \A v \in R \union {u} : v = World \/ ts2[v].parent \in R \union {u}
    BY <1>6, <1>7, <1>8
  <2>. QED  BY <2>1, <2>2 DEF Rooted
<1>12. Shape(ts2)
  <2>1. ASSUME NEW t \in DOMAIN ts
        PROVE  /\ ts2[t].kind \in Kinds /\ ts2[t].parent \in DOMAIN ts \union {NoTable}
               /\ ts2[t].kind = "TemplateParameter" => ts2[t].parent # World
               /\ ts2[t].parent # NoTable /\ ts2[ts2[t].parent].kind = "TemplateParameter"
                  => ts2[ts2[t].parent].parent # NoTable
    <3>1. /\ ts[t].kind \in Kinds /\ ts[t].parent \in DOMAIN ts \union {NoTable}
          /\ ts[t].kind = "TemplateParameter" => ts[t].parent # World
          /\ ts[t].parent # NoTable /\ ts[ts[t].parent].kind = "TemplateParameter" => ts[ts[t].parent].parent # NoTable
      BY <1>1 DEF Shape
    <3>2. p # u /\ p # NoTable
      BY <1>2, <1>7, <1>8
    <3>3. CASE t = u
      <4>1. ts2[t].kind = ts[u].kind /\ ts2[t].parent = p
        BY <1>6, <3>3
      <4>2. ts2[p].kind = "TemplateParameter" => ts2[p].parent # NoTable
        BY <1>6, <1>9, <3>2
      <4>. QED  BY <3>1, <3>2, <3>3, <4>1, <4>2
    <3>4. CASE t # u
      <4>1. ts2[t].kind = ts[t].kind /\ ts2[t].parent = ts[t].parent
        BY <1>6, <3>4
      <4>2. ASSUME NEW q \in DOMAIN ts, q = ts[t].parent, ts2[q].kind = "TemplateParameter"
            PROVE  ts2[q].parent # NoTable
        <5>1. ts[q].kind = "TemplateParameter" /\ q # NoTable
          BY <1>2, <1>6, <4>2
        <5>2. ts[q].parent # NoTable
          BY <3>1, <4>2, <5>1
        <5>. QED  BY <1>6, <3>2, <5>2
      <4>. QED  BY <3>1, <4>1, <4>2
    <3>. QED  BY <3>3, <3>4
  <2>. QED  BY <1>2, <1>5, <1>6, <2>1 DEF Shape
<1>13. Ranked(ts2)
  <2>1. PICK n \in Nat : \E rank \in [DOMAIN ts -> 0 .. n] :
          \A t \in DOMAIN ts : ts[t].parent # NoTable => rank[ts[t].parent] < rank[t]
    BY <1>1 DEF Ranked
  <2>2. PICK rank \in [DOMAIN ts -> 0 .. n] :
          \A t \in DOMAIN ts : ts[t].parent # NoTable => rank[ts[t].parent] < rank[t]
    BY <2>1
  <2>. DEFINE up == [v \in DOMAIN ts |-> IF v \in R THEN rank[v] ELSE rank[v] + n + 1]
  <2>3. \A v \in DOMAIN ts : rank[v] \in 0 .. n /\ rank[v] \in Nat /\ rank[v] <= n
    BY <2>1
  <2>4. up \in [DOMAIN ts -> 0 .. (n + n + 1)]
    <3>1. \A v \in DOMAIN ts : (IF v \in R THEN rank[v] ELSE rank[v] + n + 1) \in 0 .. (n + n + 1)
      BY <2>1, <2>3
    <3>. QED  BY <3>1
  <2>5. ASSUME NEW t \in DOMAIN ts, ts2[t].parent # NoTable
        PROVE  up[ts2[t].parent] < up[t]
    <3>1. CASE t = u
      <4>1. ts2[t].parent = p /\ up[p] = rank[p] /\ up[t] = rank[t] + n + 1
        BY <1>6, <1>7, <1>8, <3>1
      <4>. QED  BY <2>1, <2>3, <4>1
    <3>2. CASE t # u
      <4>1. ts2[t].parent = ts[t].parent /\ ts[t].parent # NoTable
        BY <1>6, <2>5, <3>2
      <4>2. ts[t].parent \in DOMAIN ts /\ rank[ts[t].parent] < rank[t]
        BY <1>1, <2>2, <4>1 DEF Shape
      <4>3. PICK q \in DOMAIN ts : q = ts[t].parent
        BY <4>2
      <4>4. CASE t \in R
        <5>1. q \in R
          BY <1>2, <1>7, <4>1, <4>3, <4>4
        <5>. QED  BY <4>1, <4>2, <4>3, <4>4, <5>1
      <4>5. CASE t \notin R
        <5>1. up[t] = rank[t] + n + 1 /\ (up[q] = rank[q] \/ up[q] = rank[q] + n + 1)
          BY <4>5
        <5>2. rank[q] \in Nat /\ rank[t] \in Nat /\ rank[q] < rank[t]
          BY <2>3, <4>2, <4>3
        <5>. HIDE DEF up
        <5>. QED  BY <2>1, <4>1, <4>3, <5>1, <5>2
      <4>. QED  BY <4>4, <4>5
    <3>. QED  BY <3>1, <3>2
  <2>. HIDE DEF up
  <2>6. n + n + 1 \in Nat
    BY <2>1
  <2>. QED  BY <1>5, <2>4, <2>5, <2>6 DEF Ranked
<1>14. Numbered(text, ts2)
  BY <1>1, <1>5 DEF Numbered
<1>15. Owned(text, ts2)
  <2>. SUFFICES ASSUME NEW i \in DOMAIN text, text[i].op \in OwnsTable
                PROVE  /\ text[i].id \in DOMAIN ts2 \ {World}
                       /\ ts2[text[i].id].kind = "TemplateParameter" <=> text[i].op = "expand"
                       /\ ts2[text[i].id].parent # NoTable => Rooted(ts2, text[i].id)
                       /\ text[i].op = "expand" /\ text[i + 1].op # "end" => ts2[text[i].id].parent # NoTable
    BY DEF Owned
  <2>1. /\ text[i].id \in DOMAIN ts \ {World}
        /\ ts[text[i].id].kind = "TemplateParameter" <=> text[i].op = "expand"
        /\ ts[text[i].id].parent # NoTable => Rooted(ts, text[i].id)
        /\ text[i].op = "expand" /\ text[i + 1].op # "end" => ts[text[i].id].parent # NoTable
    BY <1>1 DEF Owned
  <2>2. CASE text[i].id = u
    BY <1>2, <1>5, <1>6, <1>11, <2>1, <2>2
  <2>3. CASE text[i].id # u
    <3>1. ts[text[i].id].parent # NoTable => Rooted(ts2, text[i].id)
      BY <1>1, <1>10, <2>1, RootedGrows
    <3>. QED  BY <1>5, <1>6, <2>1, <2>3, <3>1
  <2>. QED  BY <2>2, <2>3
<1>16. Entries(text, ts2)
  <2>1. ASSUME NEW t \in DOMAIN ts, NEW s \in ts[t].symbols
        PROVE  SymbolFits(text, ts2, t, s)
    <3>1. SymbolFits(text, ts, t, s)
      BY <1>1 DEF Entries
    <3>2. s.is = "namespace" => s.of \in DOMAIN ts /\ s.of # u
      BY <1>2, <3>1 DEF SymbolFits
    <3>. QED  BY <1>5, <1>6, <3>1, <3>2 DEF SymbolFits
  <2>2. \A t \in DOMAIN ts : \A s, r1 \in ts[t].symbols : s.name = r1.name => s = r1
    BY <1>1 DEF Entries
  <2>3. ASSUME NEW t \in DOMAIN ts
        PROVE  /\ \A s, r1 \in ts2[t].symbols : s.name = r1.name => s = r1
               /\ \A s \in ts2[t].symbols : SymbolFits(text, ts2, t, s)
    <3>1. ts2[t].symbols = ts[t].symbols
      BY <1>6
    <3>. QED  BY <2>1, <2>2, <3>1
  <2>. QED  BY <1>5, <2>3 DEF Entries
<1>. QED  BY <1>5, <1>6, <1>10, <1>11, <1>12, <1>13, <1>14, <1>15, <1>16 DEF TableInv

\* Twice in a row, it is so, too.
LEMMA KeepsTwice ==
  ASSUME NEW ts, NEW ts2, NEW ts3, Keeps(ts, ts2), Keeps(ts2, ts3)
  PROVE  Keeps(ts, ts3)
<1>1. \A t \in DOMAIN ts : t \in DOMAIN ts2
  BY DEF Keeps, Grows
<1>2. DOMAIN ts \subseteq DOMAIN ts3
  BY DEF Keeps, Grows
<1>3. ASSUME NEW t \in DOMAIN ts
      PROVE  /\ ts3[t].kind = ts[t].kind /\ ts3[t].parent = ts[t].parent /\ ts[t].symbols \subseteq ts3[t].symbols
             /\ ts[t].kind = "TemplateParameter" => ts3[t].symbols = ts[t].symbols
  <2>1. /\ ts2[t].kind = ts[t].kind /\ ts2[t].parent = ts[t].parent /\ ts[t].symbols \subseteq ts2[t].symbols
        /\ ts[t].kind = "TemplateParameter" => ts2[t].symbols = ts[t].symbols
    BY DEF Keeps, Grows
  <2>2. t \in DOMAIN ts2
    BY <1>1
  <2>3. /\ ts3[t].kind = ts2[t].kind /\ ts3[t].parent = ts2[t].parent /\ ts2[t].symbols \subseteq ts3[t].symbols
        /\ ts2[t].kind = "TemplateParameter" => ts3[t].symbols = ts2[t].symbols
    BY <2>2 DEF Keeps, Grows
  <2>. QED  BY <2>1, <2>3
<1>. QED  BY <1>2, <1>3 DEF Keeps, Grows

\* It is so when nothing happens.
LEMMA KeepsSame ==
  ASSUME NEW ts
  PROVE  Keeps(ts, ts) /\ Grows(ts, ts)
BY DEF Keeps, Grows

\* A declaration in a scope.
LEMMA DeclareKeeps ==
  ASSUME NEW text, NEW ts, TableInv(text, ts), NEW t \in DOMAIN ts, ts[t].kind # "TemplateParameter",
         NEW n, NEW is \in SymbolKinds \ {"namespace", "type"}, NEW of, NEW arg,
         is = "template" => \E i \in DOMAIN text : text[i].op = "template" /\ text[i].id = of
  PROVE  /\ TableInv(text, Declare(ts, t, Symbol(n, is, of, arg)))
         /\ Keeps(ts, Declare(ts, t, Symbol(n, is, of, arg)))
         /\ DOMAIN Declare(ts, t, Symbol(n, is, of, arg)) = DOMAIN ts
<1>. DEFINE ts2 == AddSymbol(ts, t, Symbol(n, is, of, arg))
<1>1. Known(ts) /\ Shape(ts)
  BY EntriesKnown DEF TableInv
<1>2. Symbol(n, is, of, arg).name = n
  BY DEF Symbol
<1>3. CASE FindIn(ts, t, n) = None
  <2>1. \A s \in ts[t].symbols : s.name # n
    BY <1>1, <1>3, FindInIs
  <2>2. Entered(ts, ts2, t, n, is, of)
    BY <1>1, AddSymbolEnters
  <2>. HIDE DEF ts2
  <2>3. TableInv(text, ts2) /\ Grows(ts, ts2) /\ DOMAIN ts2 = DOMAIN ts
    <3>1. is \in SymbolKinds \ {"namespace"} /\ (ts[t].kind = "TemplateParameter" <=> is = "type")
      OBVIOUS
    <3>. QED  BY <2>1, <2>2, <3>1, EnteredKeeps
  <2>4. Keeps(ts, ts2)
    BY <2>2, <2>3 DEF Entered, Keeps
  <2>5. Declare(ts, t, Symbol(n, is, of, arg)) = ts2
    BY <1>2, <1>3 DEF Declare, ts2
  <2>. QED  BY <2>3, <2>4, <2>5
<1>4. CASE FindIn(ts, t, n) # None
  <2>1. Declare(ts, t, Symbol(n, is, of, arg)) = ts
    BY <1>2, <1>4 DEF Declare
  <2>. QED  BY <2>1, KeepsSame
<1>. QED  BY <1>3, <1>4

\* The tables are in order once a namespace is made.
LEMMA MakesKeeps ==
  ASSUME NEW text, NEW ts, NEW t, NEW n, NEW new, Wanting(text, ts, t, n, new),
         NEW ts2, Makes(ts, ts2, t, n, new)
  PROVE  Wanted(text, ts, ts2, t, n, new)
<1>0. /\ TableInv(text, ts) /\ t \in DOMAIN ts /\ ts[t].kind # "TemplateParameter"
      /\ \A s \in ts[t].symbols : s.name # n
      /\ new \in Nat /\ new \notin DOMAIN ts /\ \A i \in DOMAIN text : text[i].id # new
  BY DEF Wanting
<1>. USE <1>0
<1>1. Shape(ts) /\ Ranked(ts) /\ Numbered(text, ts) /\ Owned(text, ts) /\ Entries(text, ts)
  BY DEF TableInv
<1>2. /\ DOMAIN ts \in SUBSET Nat /\ World \in DOMAIN ts /\ ts[World].kind = "Global" /\ ts[World].parent = NoTable
      /\ NoTable \notin DOMAIN ts /\ NoTable \notin Nat /\ new # World /\ new # t
  BY <1>1 DEF Shape, NoTable
<1>. DEFINE ts1 == AddSymbol(ts, t, Symbol(n, "namespace", new, 0))
            tb == Table("Global", <<n>>, t)
<1>3. Entered(ts, ts1, t, n, "namespace", new)
  BY <1>1, AddSymbolEnters
<1>4. tb.kind = "Global" /\ tb.parent = t /\ tb.symbols = {} /\ IsTable(tb)
  BY DEF Table, IsTable
<1>. HIDE DEF ts1, tb
<1>5. /\ ts2 = [u \in DOMAIN ts \union {new} |-> IF u = new THEN tb ELSE ts1[u]]
      /\ DOMAIN ts2 = DOMAIN ts \union {new}
      /\ \A u \in DOMAIN ts2 : ts2[u] = IF u = new THEN tb ELSE ts1[u]
  <2>1. ts2 = [u \in DOMAIN ts \union {new} |-> IF u = new THEN tb ELSE ts1[u]]
    BY DEF Makes, ts1, tb
  <2>. QED  BY <2>1
<1>6. ts2 = [u \in DOMAIN ts2 |-> ts2[u]]
  BY <1>5
<1>7. PICK q : /\ q.name = n /\ q.is = "namespace" /\ q.of = new /\ q.storage = ts[t].kind
               /\ ts1[t].symbols = ts[t].symbols \union {q}
  BY <1>3 DEF Entered
<1>8. ASSUME NEW u \in DOMAIN ts
      PROVE  /\ u \in DOMAIN ts2 /\ u # new
             /\ IsTable(ts2[u]) /\ ts2[u].kind = ts[u].kind /\ ts2[u].parent = ts[u].parent
             /\ u # t => ts2[u].symbols = ts[u].symbols
             /\ u = t => ts2[u].symbols = ts[u].symbols \union {q}
  BY <1>3, <1>5, <1>7 DEF Entered
<1>9. ts2[new].kind = "Global" /\ ts2[new].parent = t /\ ts2[new].symbols = {} /\ IsTable(ts2[new]) /\ new \in DOMAIN ts2
  BY <1>4, <1>5
<1>10. Grows(ts, ts2)
  BY <1>5, <1>8 DEF Grows
<1>11. Keeps(ts, ts2)
  BY <1>8, <1>10 DEF Keeps
<1>12. Shape(ts2)
  <2>1. ASSUME NEW v \in DOMAIN ts2
        PROVE  /\ IsTable(ts2[v]) /\ ts2[v].kind \in Kinds /\ ts2[v].parent \in DOMAIN ts2 \union {NoTable}
               /\ ts2[v].kind = "TemplateParameter" => ts2[v].parent # World
               /\ ts2[v].parent # NoTable /\ ts2[ts2[v].parent].kind = "TemplateParameter"
                  => ts2[ts2[v].parent].parent # NoTable
    <3>1. CASE v = new
      <4>1. ts2[t].kind # "TemplateParameter" /\ t \in DOMAIN ts2
        BY <1>8
      <4>. QED  BY <1>9, <3>1, <4>1 DEF Kinds
    <3>2. CASE v \in DOMAIN ts
      <4>1. /\ ts[v].kind \in Kinds /\ ts[v].parent \in DOMAIN ts \union {NoTable}
            /\ ts[v].kind = "TemplateParameter" => ts[v].parent # World
            /\ ts[v].parent # NoTable /\ ts[ts[v].parent].kind = "TemplateParameter" => ts[ts[v].parent].parent # NoTable
        BY <1>1, <3>2 DEF Shape
      <4>2. /\ IsTable(ts2[v]) /\ ts2[v].kind = ts[v].kind /\ ts2[v].parent = ts[v].parent
        BY <1>8, <3>2
      <4>3. ASSUME NEW p \in DOMAIN ts, p = ts[v].parent, ts2[p].kind = "TemplateParameter"
            PROVE  ts2[p].parent # NoTable
        <5>1. ts[p].kind = "TemplateParameter" /\ ts2[p].parent = ts[p].parent /\ p # NoTable
          BY <1>2, <1>8, <4>3
        <5>. QED  BY <4>1, <4>3, <5>1
      <4>. QED  BY <1>5, <4>1, <4>2, <4>3
    <3>. QED  BY <1>5, <3>1, <3>2
  <2>2. DOMAIN ts2 \in SUBSET Nat
    BY <1>2, <1>5
  <2>3. World \in DOMAIN ts2 /\ ts2[World].kind = "Global" /\ ts2[World].parent = NoTable
    BY <1>2, <1>8
  <2>. QED  BY <1>6, <2>1, <2>2, <2>3 DEF Shape
<1>13. Ranked(ts2)
  <2>1. PICK m \in Nat : \E rank \in [DOMAIN ts -> 0 .. m] :
          \A v \in DOMAIN ts : ts[v].parent # NoTable => rank[ts[v].parent] < rank[v]
    BY <1>1 DEF Ranked
  <2>2. PICK rank \in [DOMAIN ts -> 0 .. m] :
          \A v \in DOMAIN ts : ts[v].parent # NoTable => rank[ts[v].parent] < rank[v]
    BY <2>1
  <2>. DEFINE up == [v \in DOMAIN ts2 |-> IF v = new THEN m + 1 ELSE rank[v]]
  <2>3. \A v \in DOMAIN ts : rank[v] \in 0 .. m /\ rank[v] \in Nat /\ rank[v] < m + 1 /\ rank[v] \in 0 .. (m + 1)
    BY <2>1
  <2>4. up \in [DOMAIN ts2 -> 0 .. (m + 1)]
    <3>1. \A v \in DOMAIN ts2 : (IF v = new THEN m + 1 ELSE rank[v]) \in 0 .. (m + 1)
      BY <1>5, <2>1, <2>3
    <3>. QED  BY <3>1
  <2>5. ASSUME NEW v \in DOMAIN ts2, ts2[v].parent # NoTable
        PROVE  up[ts2[v].parent] < up[v]
    <3>0. \A w \in DOMAIN ts : up[w] = rank[w]
      BY <1>8
    <3>1. CASE v = new
      <4>1. up[v] = m + 1 /\ ts2[v].parent = t
        BY <1>9, <3>1
      <4>. HIDE DEF up
      <4>. QED  BY <2>3, <3>0, <4>1
    <3>2. CASE v \in DOMAIN ts
      <4>1. ts2[v].parent = ts[v].parent /\ ts[v].parent # NoTable
        BY <1>8, <2>5, <3>2
      <4>2. ts[v].parent \in DOMAIN ts /\ rank[ts[v].parent] < rank[v]
        BY <1>1, <2>2, <3>2, <4>1 DEF Shape
      <4>. HIDE DEF up
      <4>. QED  BY <3>0, <3>2, <4>1, <4>2
    <3>. QED  BY <1>5, <3>1, <3>2
  <2>. HIDE DEF up
  <2>6. m + 1 \in Nat
    BY <2>1
  <2>. QED  BY <2>4, <2>5, <2>6 DEF Ranked
<1>14. Numbered(text, ts2)
  <2>1. PICK m \in Nat : (\A v \in DOMAIN ts : v \in 0 .. m) /\ (\A i \in DOMAIN text : text[i].id \in 0 .. m)
    BY <1>1 DEF Numbered
  <2>2. PICK k \in Nat : k = m + new
    BY <2>1
  <2>3. \A x \in 0 .. m : x \in 0 .. k
    BY <2>1, <2>2
  <2>4. \A v \in DOMAIN ts2 : v \in 0 .. k
    BY <1>2, <1>5, <2>1, <2>2, <2>3
  <2>. QED  BY <2>1, <2>3, <2>4 DEF Numbered
<1>15. Owned(text, ts2)
  <2>. SUFFICES ASSUME NEW i \in DOMAIN text, text[i].op \in OwnsTable
                PROVE  /\ text[i].id \in DOMAIN ts2 \ {World}
                       /\ ts2[text[i].id].kind = "TemplateParameter" <=> text[i].op = "expand"
                       /\ ts2[text[i].id].parent # NoTable => Rooted(ts2, text[i].id)
                       /\ text[i].op = "expand" /\ text[i + 1].op # "end" => ts2[text[i].id].parent # NoTable
    BY DEF Owned
  <2>1. /\ text[i].id \in DOMAIN ts \ {World}
        /\ ts[text[i].id].kind = "TemplateParameter" <=> text[i].op = "expand"
        /\ ts[text[i].id].parent # NoTable => Rooted(ts, text[i].id)
        /\ text[i].op = "expand" /\ text[i + 1].op # "end" => ts[text[i].id].parent # NoTable
    BY <1>1 DEF Owned
  <2>2. ts[text[i].id].parent # NoTable => Rooted(ts2, text[i].id)
    BY <1>1, <1>10, <2>1, RootedGrows
  <2>. QED  BY <1>8, <2>1, <2>2
<1>16. Entries(text, ts2)
  <2>1. ASSUME NEW v \in DOMAIN ts, NEW s \in ts[v].symbols
        PROVE  SymbolFits(text, ts2, v, s)
    <3>1. SymbolFits(text, ts, v, s)
      BY <1>1 DEF Entries
    <3>2. s.is = "namespace" => s.of \in DOMAIN ts
      BY <3>1 DEF SymbolFits
    <3>. QED  BY <1>8, <3>1, <3>2 DEF SymbolFits
  <2>2. SymbolFits(text, ts2, t, q)
    <3>1. ts2[t].kind = ts[t].kind
      BY <1>8
    <3>. QED  BY <1>2, <1>7, <1>9, <3>1 DEF SymbolFits, SymbolKinds
  <2>3. ASSUME NEW v \in DOMAIN ts
        PROVE  /\ \A s, r1 \in ts2[v].symbols : s.name = r1.name => s = r1
               /\ \A s \in ts2[v].symbols : SymbolFits(text, ts2, v, s)
    <3>1. \A s, r1 \in ts[v].symbols : s.name = r1.name => s = r1
      BY <1>1 DEF Entries
    <3>2. CASE v = t
      <4>1. ts2[v].symbols = ts[v].symbols \union {q}
        BY <1>8, <3>2
      <4>2. \A s, r1 \in ts2[v].symbols : s.name = r1.name => s = r1
        BY <1>7, <3>1, <3>2, <4>1
      <4>3. \A s \in ts2[v].symbols : SymbolFits(text, ts2, v, s)
        BY <2>1, <2>2, <3>2, <4>1
      <4>. QED  BY <4>2, <4>3
    <3>3. CASE v # t
      BY <1>8, <2>1, <3>1, <3>3
    <3>. QED  BY <3>2, <3>3
  <2>4. \A s \in ts2[new].symbols : FALSE
    BY <1>9
  <2>. QED  BY <1>5, <2>3, <2>4 DEF Entries
<1>17. ASSUME Rooted(ts, t)
       PROVE  Rooted(ts2, new)
  <2>1. PICK R \in SUBSET DOMAIN ts2 : t \in R /\ \A v \in R : v = World \/ ts2[v].parent \in R
    BY <1>1, <1>10, <1>17, RootedGrows DEF Rooted
  <2>2. R \union {new} \in SUBSET DOMAIN ts2
    BY <1>9
  <2>3. \A v \in R \union {new} : v = World \/ ts2[v].parent \in R \union {new}
    BY <1>9, <2>1
  <2>. QED  BY <2>2, <2>3 DEF Rooted
<1>18. q \in ts2[t].symbols
  BY <1>8
<1>19. OnlyNamespaces(ts, ts2)
  <2>1. \A v \in DOMAIN ts : \A s \in ts2[v].symbols : s \in ts[v].symbols \/ s = q
    BY <1>8
  <2>. QED  BY <1>5, <1>7, <1>9, <2>1 DEF OnlyNamespaces
<1>20. \E q1 \in ts2[t].symbols : q1.name = n /\ q1.is = "namespace" /\ q1.of = new
  BY <1>7, <1>18
<1>21. TableInv(text, ts2) /\ Keeps(ts, ts2) /\ DOMAIN ts2 = DOMAIN ts \union {new}
  BY <1>5, <1>9, <1>11, <1>12, <1>13, <1>14, <1>15, <1>16, <1>17, <1>19, <1>20 DEF TableInv
<1>22. ts2[new].kind = "Global" /\ ts2[new].parent = t
  BY <1>5, <1>9
<1>. QED  BY <1>17, <1>19, <1>20, <1>21, <1>22 DEF Wanted
----
\* The way into a namespace.

\* One table more on the way.
LEMMA WayLonger ==
  ASSUME NEW text, NEW ts, NEW scope, NEW names, NEW fresh \in Nat, NEW d, NEW i \in Nat, d.found,
         Descent(text, ts, scope, names, fresh, d, i), NEW ts2, TableInv(text, ts2), Keeps(d.tables, ts2),
         OnlyNamespaces(d.tables, ts2), \A u \in DOMAIN ts2 : u <= fresh + (i + 1),
         NEW v \in DOMAIN ts2 \ {World}, ts2[v].kind # "TemplateParameter", \A j \in DOMAIN text : text[j].id # v,
         Rooted(d.tables, d.path[Len(d.path)]) => Rooted(ts2, v),
         \E q \in ts2[d.path[Len(d.path)]].symbols : q.name = names[i + 1] /\ q.is = "namespace" /\ q.of = v
  PROVE  Descent(text, ts, scope, names, fresh,
                 [tables |-> ts2, path |-> Append(d.path, v), found |-> TRUE], i + 1)
<1>1. /\ Keeps(ts, d.tables) /\ OnlyNamespaces(ts, d.tables)
      /\ d.path \in Seq(Nat) /\ d.path # <<>> /\ d.path[1] = scope /\ Len(d.path) = i + 1
      /\ \A k \in DOMAIN d.path :
           /\ d.path[k] \in DOMAIN d.tables /\ d.tables[d.path[k]].kind # "TemplateParameter"
           /\ k > 1 => d.path[k] # World /\ \A j \in DOMAIN text : text[j].id # d.path[k]
           /\ Rooted(ts, scope) => Rooted(d.tables, d.path[k])
      /\ WayDown(d.tables, d.path, names) /\ TableInv(text, d.tables)
  BY DEF Descent
<1>. DEFINE p == Append(d.path, v)
<1>2. v \in Nat
  BY DEF TableInv, Shape
<1>3. /\ p \in Seq(Nat) /\ p # <<>> /\ Len(p) = Len(d.path) + 1 /\ p[Len(d.path) + 1] = v
      /\ \A k \in 1 .. Len(d.path) : p[k] = d.path[k]
  <2>1. PICK c \in Seq(Nat) : c = d.path
    BY <1>1
  <2>2. p = Append(c, v)
    BY <2>1
  <2>. HIDE DEF p
  <2>3. p \in Seq(Nat) /\ p # <<>> /\ Len(p) = Len(c) + 1 /\ p[Len(p)] = v /\ \A k \in 1 .. Len(c) : p[k] = c[k]
    BY <1>2, <2>2, SeqPush
  <2>. QED  BY <2>1, <2>3
<1>. HIDE DEF p
<1>4. /\ DOMAIN p = 1 .. (i + 2) /\ DOMAIN d.path = 1 .. (i + 1) /\ Len(p) = i + 2
      /\ p[i + 2] = v /\ \A k \in 1 .. (i + 1) : p[k] = d.path[k]
  <2>1. Len(p) = i + 2 /\ (i + 1) + 1 = i + 2
    BY <1>1, <1>3
  <2>2. DOMAIN p = 1 .. Len(p) /\ DOMAIN d.path = 1 .. Len(d.path)
    BY <1>1, <1>3, LenProperties
  <2>. QED  BY <1>1, <1>3, <2>1, <2>2
<1>5. Keeps(ts, ts2)
  BY <1>1, KeepsTwice
<1>6. OnlyNamespaces(ts, ts2)
  BY <1>1 DEF OnlyNamespaces
<1>7. Grows(d.tables, ts2) /\ Shape(d.tables)
  BY <1>1 DEF Keeps, TableInv
<1>8. ASSUME NEW k \in DOMAIN p
      PROVE  /\ p[k] \in DOMAIN ts2 /\ ts2[p[k]].kind # "TemplateParameter"
             /\ k > 1 => p[k] # World /\ \A j \in DOMAIN text : text[j].id # p[k]
             /\ Rooted(ts, scope) => Rooted(ts2, p[k])
  <2>1. CASE k = i + 2
    <3>1. i + 1 \in DOMAIN d.path
      BY <1>4
    <3>2. Rooted(ts, scope) => Rooted(d.tables, d.path[Len(d.path)])
      BY <1>1, <3>1
    <3>. QED  BY <1>4, <2>1, <3>2
  <2>2. CASE k # i + 2
    <3>1. k \in DOMAIN d.path /\ p[k] = d.path[k]
      BY <1>4, <2>2
    <3>2. d.path[k] \in DOMAIN d.tables /\ d.tables[d.path[k]].kind # "TemplateParameter"
      BY <1>1, <3>1
    <3>3. p[k] \in DOMAIN ts2 /\ ts2[p[k]].kind # "TemplateParameter"
      BY <1>7, <3>1, <3>2 DEF Grows
    <3>4. Rooted(d.tables, d.path[k]) => Rooted(ts2, d.path[k])
      BY <1>7, RootedGrows
    <3>. QED  BY <1>1, <3>1, <3>3, <3>4
  <2>. QED  BY <2>1, <2>2
<1>9. ASSUME NEW k \in 1 .. (Len(p) - 1)
      PROVE  \E s \in ts2[p[k]].symbols : s.name = names[k] /\ s.is = "namespace" /\ s.of = p[k + 1]
  <2>1. CASE k = i + 1
    <3>1. p[k] = d.path[Len(d.path)] /\ p[k + 1] = v
      <4>1. k \in 1 .. (i + 1) /\ k + 1 = i + 2
        BY <2>1
      <4>. QED  BY <1>1, <1>4, <2>1, <4>1
    <3>. QED  BY <2>1, <3>1
  <2>2. CASE k # i + 1
    <3>1. k \in 1 .. (Len(d.path) - 1) /\ k \in 1 .. (i + 1) /\ k + 1 \in 1 .. (i + 1)
      BY <1>1, <1>4, <2>2
    <3>2. p[k] = d.path[k] /\ p[k + 1] = d.path[k + 1] /\ k \in DOMAIN d.path
      BY <1>4, <3>1
    <3>3. \E s \in d.tables[d.path[k]].symbols : s.name = names[k] /\ s.is = "namespace" /\ s.of = d.path[k + 1]
      BY <1>1, <3>1 DEF WayDown
    <3>4. d.tables[d.path[k]].symbols \subseteq ts2[d.path[k]].symbols
      BY <1>1, <1>7, <3>2 DEF Grows
    <3>. QED  BY <3>2, <3>3, <3>4
  <2>. QED  BY <2>1, <2>2
<1>10. p[1] = scope
  BY <1>1, <1>4
<1>. DEFINE e == [tables |-> ts2, path |-> p, found |-> TRUE]
<1>11. e.tables = ts2 /\ e.path = p /\ e.found = TRUE
  OBVIOUS
<1>12. e = [tables |-> e.tables, path |-> e.path, found |-> e.found]
  OBVIOUS
<1>. HIDE DEF e
<1>13. Len(p) <= (i + 1) + 1 /\ Len(p) = (i + 1) + 1
  BY <1>4
<1>14. WayDown(ts2, p, names)
  BY <1>9 DEF WayDown
<1>15. Descent(text, ts, scope, names, fresh, e, i + 1)
  BY <1>3, <1>5, <1>6, <1>8, <1>10, <1>11, <1>12, <1>13, <1>14 DEF Descent
<1>. QED  BY <1>15 DEF e, p

\* One part of the path more.
LEMMA DescentGoesOn ==
  ASSUME NEW text, NEW ts, NEW scope, NEW names, NEW fresh, Above(text, ts, fresh), NEW d, NEW i \in Nat,
         Descent(text, ts, scope, names, fresh, d, i)
  PROVE  Descent(text, ts, scope, names, fresh, DescendStep(names, fresh, d, i + 1), i + 1)
<1>. DEFINE t == d.path[Len(d.path)]
            s == FindIn(d.tables, t, names[i + 1])
            new == fresh + (i + 1)
            ts2 == [u \in DOMAIN d.tables \union {new} |->
                      IF u = new THEN Table("Global", <<names[i + 1]>>, t)
                      ELSE AddSymbol(d.tables, t, Symbol(names[i + 1], "namespace", new, 0))[u]]
            e == DescendStep(names, fresh, d, i + 1)
<1>1. /\ d = [tables |-> d.tables, path |-> d.path, found |-> d.found] /\ d.found \in BOOLEAN
      /\ TableInv(text, d.tables) /\ \A u \in DOMAIN d.tables : u <= fresh + i
      /\ d.path \in Seq(Nat) /\ d.path # <<>> /\ d.path[1] = scope /\ Len(d.path) <= i + 1
      /\ d.found => Len(d.path) = i + 1
      /\ ~d.found => Len(d.path) <= i
      /\ \A k \in DOMAIN d.path :
           /\ d.path[k] \in DOMAIN d.tables /\ d.tables[d.path[k]].kind # "TemplateParameter"
  BY DEF Descent
<1>2. /\ fresh \in Nat /\ \A j \in DOMAIN text : text[j].id \in 0 .. fresh
  BY DEF Above
<1>3. Len(d.path) \in DOMAIN d.path /\ Len(d.path) \in Nat
  BY <1>1, LenProperties, EmptySeq
<1>4. t \in DOMAIN d.tables /\ d.tables[t].kind # "TemplateParameter"
  BY <1>1, <1>3
<1>5. Known(d.tables) /\ Shape(d.tables) /\ Entries(text, d.tables) /\ DOMAIN d.tables \in SUBSET Nat
  BY <1>1, EntriesKnown DEF TableInv, Shape
<1>6. \A u \in DOMAIN d.tables : u <= fresh + (i + 1) /\ u # new
  BY <1>1, <1>2, <1>5
<1>7. CASE ~d.found
  <2>1. e = d
    BY <1>7 DEF DescendStep
  <2>2. Len(d.path) <= i + 1 /\ Len(d.path) <= (i + 1) + 1
    BY <1>1, <1>3
  <2>3. Descent(text, ts, scope, names, fresh, d, i + 1)
    BY <1>6, <1>7, <2>2 DEF Descent
  <2>. QED  BY <2>1, <2>3
<1>8. CASE d.found /\ s = None
  <2>1. e = [d EXCEPT !.path = Append(d.path, new), !.tables = ts2]
    <3>. DEFINE made  == [d EXCEPT !.path = Append(d.path, new), !.tables = ts2]
                there == [d EXCEPT !.path = Append(d.path, s.of)]
                over  == [d EXCEPT !.found = FALSE]
    <3>1. e = CASE ~d.found -> d
                [] d.found /\ s = None -> made
                [] d.found /\ s.is = "namespace" -> there
                [] OTHER -> over
      BY DEF DescendStep
    <3>2. None.is # "namespace"
      BY DEF None, Symbol
    <3>3. s.is # "namespace"
      BY <1>8, <3>2
    <3>. HIDE DEF made, there, over, e, s, ts2, new
    <3>4. e = made
      BY <1>8, <3>1, <3>3
    <3>. QED  BY <3>4 DEF made
  <2>2. new \in Nat /\ new \notin DOMAIN d.tables /\ \A j \in DOMAIN text : text[j].id # new
    BY <1>2, <1>6
  <2>3. Makes(d.tables, ts2, t, names[i + 1], new)
    BY DEF Makes
  <2>4. \A q \in d.tables[t].symbols : q.name # names[i + 1]
    BY <1>4, <1>5, <1>8, FindInIs
  <2>. HIDE DEF ts2, t, new
  <2>5. /\ TableInv(text, ts2) /\ Keeps(d.tables, ts2) /\ DOMAIN ts2 = DOMAIN d.tables \union {new}
        /\ ts2[new].kind = "Global" /\ OnlyNamespaces(d.tables, ts2)
        /\ Rooted(d.tables, t) => Rooted(ts2, new)
        /\ \E q \in ts2[t].symbols : q.name = names[i + 1] /\ q.is = "namespace" /\ q.of = new
    <3>1. Wanting(text, d.tables, t, names[i + 1], new)
      BY <1>1, <1>4, <2>2, <2>4 DEF Wanting
    <3>2. Wanted(text, d.tables, ts2, t, names[i + 1], new)
      BY <2>3, <3>1, MakesKeeps
    <3>. QED  BY <3>2 DEF Wanted
  <2>6. new \in DOMAIN ts2 \ {World} /\ ts2[new].kind # "TemplateParameter"
    BY <1>5, <2>2, <2>5 DEF Shape
  <2>7. \A u \in DOMAIN ts2 : u <= fresh + (i + 1)
    <3>1. new <= fresh + (i + 1)
      BY <1>2 DEF new
    <3>. QED  BY <1>6, <2>5, <3>1
  <2>8. e = [tables |-> ts2, path |-> Append(d.path, new), found |-> TRUE]
    BY <1>1, <1>8, <2>1
  <2>. HIDE DEF e
  <2>9. Descent(text, ts, scope, names, fresh, [tables |-> ts2, path |-> Append(d.path, new), found |-> TRUE], i + 1)
    BY <1>2, <1>8, <2>2, <2>5, <2>6, <2>7, WayLonger DEF t
  <2>. QED  BY <2>8, <2>9 DEF e
<1>9. CASE d.found /\ s # None /\ s.is = "namespace"
  <2>1. e = [d EXCEPT !.path = Append(d.path, s.of)]
    BY <1>9 DEF DescendStep
  <2>2. s \in d.tables[t].symbols /\ s.name = names[i + 1]
    BY <1>4, <1>5, <1>9, FindInIs
  <2>. HIDE DEF s, t
  <2>3. /\ s.of \in DOMAIN d.tables \ {World} /\ d.tables[s.of].parent = t /\ d.tables[s.of].kind = "Global"
        /\ \A j \in DOMAIN text : text[j].id # s.of
    BY <1>4, <1>5, <1>9, <2>2 DEF Entries, SymbolFits
  <2>4. PICK v \in DOMAIN d.tables \ {World} : v = s.of
    BY <2>3
  <2>5. ASSUME Rooted(d.tables, t)
        PROVE  Rooted(d.tables, v)
    <3>1. PICK R \in SUBSET DOMAIN d.tables : t \in R /\ \A w \in R : w = World \/ d.tables[w].parent \in R
      BY <2>5 DEF Rooted
    <3>2. R \union {v} \in SUBSET DOMAIN d.tables
      OBVIOUS
    <3>3. \A w \in R \union {v} : w = World \/ d.tables[w].parent \in R \union {v}
      BY <2>3, <2>4, <3>1
    <3>. QED  BY <3>2, <3>3 DEF Rooted
  <2>6. e = [tables |-> d.tables, path |-> Append(d.path, v), found |-> TRUE]
    BY <1>1, <1>9, <2>1, <2>4
  <2>7. Keeps(d.tables, d.tables) /\ OnlyNamespaces(d.tables, d.tables)
    BY KeepsSame DEF OnlyNamespaces
  <2>8. \E q \in d.tables[t].symbols : q.name = names[i + 1] /\ q.is = "namespace" /\ q.of = v
    BY <1>9, <2>2, <2>4
  <2>. HIDE DEF e
  <2>9. Descent(text, ts, scope, names, fresh, [tables |-> d.tables, path |-> Append(d.path, v), found |-> TRUE], i + 1)
    <3>1. PICK ts3 : ts3 = d.tables
      OBVIOUS
    <3>2. /\ TableInv(text, ts3) /\ Keeps(d.tables, ts3) /\ OnlyNamespaces(d.tables, ts3)
          /\ \A u \in DOMAIN ts3 : u <= fresh + (i + 1)
          /\ v \in DOMAIN ts3 \ {World} /\ ts3[v].kind # "TemplateParameter" /\ \A j \in DOMAIN text : text[j].id # v
          /\ Rooted(d.tables, t) => Rooted(ts3, v)
          /\ \E q \in ts3[t].symbols : q.name = names[i + 1] /\ q.is = "namespace" /\ q.of = v
      BY <1>1, <1>6, <2>3, <2>4, <2>5, <2>7, <2>8, <3>1
    <3>3. Descent(text, ts, scope, names, fresh, [tables |-> ts3, path |-> Append(d.path, v), found |-> TRUE], i + 1)
      BY <1>2, <1>9, <3>2, WayLonger DEF t
    <3>. QED  BY <3>1, <3>3
  <2>. QED  BY <2>6, <2>9 DEF e
<1>10. CASE d.found /\ s # None /\ s.is # "namespace"
  <2>1. e = [d EXCEPT !.found = FALSE]
    BY <1>10 DEF DescendStep
  <2>2. s \in d.tables[t].symbols /\ s.name = names[i + 1]
    BY <1>4, <1>5, <1>10, FindInIs
  <2>. HIDE DEF s
  <2>3. e = [tables |-> d.tables, path |-> d.path, found |-> FALSE]
    BY <1>1, <2>1
  <2>. HIDE DEF e
  <2>4. e.tables = d.tables /\ e.path = d.path /\ e.found = FALSE
        /\ e = [tables |-> e.tables, path |-> e.path, found |-> e.found]
    BY <2>3
  <2>5. Len(d.path) = i + 1
    BY <1>1, <1>10
  <2>6. \E q \in d.tables[d.path[Len(d.path)]].symbols : q.name = names[Len(d.path)] /\ q.is # "namespace"
    BY <1>10, <2>2, <2>5
  <2>7. Len(d.path) <= i + 1 /\ Len(d.path) <= (i + 1) + 1
    BY <2>5
  <2>8. Descent(text, ts, scope, names, fresh, e, i + 1)
    BY <1>6, <2>4, <2>6, <2>7 DEF Descent
  <2>. QED  BY <2>8 DEF e
<1>. QED  BY <1>1, <1>7, <1>8, <1>9, <1>10

\* What the search of the first part starts from.
LEMMA DescentBegins ==
  ASSUME NEW text, NEW ts, TableInv(text, ts), NEW scope \in DOMAIN ts, ts[scope].kind # "TemplateParameter",
         NEW names, NEW fresh, Above(text, ts, fresh)
  PROVE  Descent(text, ts, scope, names, fresh, [tables |-> ts, path |-> <<scope>>, found |-> TRUE], 0)
<1>. DEFINE e == [tables |-> ts, path |-> <<scope>>, found |-> TRUE]
            p == <<scope>>
<1>1. e.tables = ts /\ e.path = p /\ e.found = TRUE /\ e = [tables |-> e.tables, path |-> e.path, found |-> e.found]
  OBVIOUS
<1>2. scope \in Nat
  BY DEF TableInv, Shape
<1>3. p \in Seq(Nat) /\ Len(p) = 1 /\ p # <<>> /\ p[1] = scope /\ DOMAIN p = 1 .. 1
  BY <1>2
<1>4. Keeps(ts, ts) /\ OnlyNamespaces(ts, ts)
  BY KeepsSame DEF OnlyNamespaces
<1>5. \A u \in DOMAIN ts : u <= fresh + 0
  <2>1. fresh + 0 = fresh
    BY DEF Above
  <2>. QED  BY <2>1 DEF Above
<1>. HIDE DEF p, e
<1>6. WayDown(ts, p, names)
  <2>1. \A k \in 1 .. (Len(p) - 1) : FALSE
    BY <1>3
  <2>. QED  BY <2>1 DEF WayDown
<1>7. \A k \in DOMAIN p : k = 1
  BY <1>3
<1>8. \A k \in DOMAIN p :
       /\ p[k] \in DOMAIN ts /\ ts[p[k]].kind # "TemplateParameter"
       /\ k > 1 => p[k] # World /\ \A j \in DOMAIN text : text[j].id # p[k]
       /\ Rooted(ts, scope) => Rooted(ts, p[k])
  BY <1>3, <1>7
<1>9. Len(p) <= 0 + 1 /\ Len(p) = 0 + 1
  BY <1>3
<1>10. Descent(text, ts, scope, names, fresh, e, 0)
  BY <1>1, <1>3, <1>4, <1>5, <1>6, <1>8, <1>9 DEF Descent
<1>. QED  BY <1>10 DEF e, p

\* And where it ends.
LEMMA DescentEnds ==
  ASSUME NEW text, NEW ts, TableInv(text, ts), NEW scope \in DOMAIN ts, ts[scope].kind # "TemplateParameter",
         NEW names, NEW n \in Nat, NEW fresh, Above(text, ts, fresh)
  PROVE  /\ \E f : Descends(names, fresh, ts, scope, f, n)
         /\ \A f : Descends(names, fresh, ts, scope, f, n) => Descent(text, ts, scope, names, fresh, f[n], n)
<1>. DEFINE a == [tables |-> ts, path |-> <<scope>>, found |-> TRUE]
            S == {m \in Nat : \E f : Descends(names, fresh, ts, scope, f, m)}
<1>1. 0 \in S
  <2>. DEFINE f == [i \in 0 .. 0 |-> a]
  <2>. HIDE DEF a
  <2>1. f = [i \in 0 .. 0 |-> IF i = 0 THEN a ELSE DescendStep(names, fresh, f[i - 1], i)]
    OBVIOUS
  <2>2. Descends(names, fresh, ts, scope, f, 0)
    BY <2>1 DEF Descends, a
  <2>. QED  BY <2>2
<1>2. ASSUME NEW m \in S
      PROVE  m + 1 \in S
  <2>1. m \in Nat
    OBVIOUS
  <2>2. PICK f : Descends(names, fresh, ts, scope, f, m)
    OBVIOUS
  <2>. DEFINE g == [i \in 0 .. m + 1 |-> IF i = 0 THEN a ELSE DescendStep(names, fresh, f[i - 1], i)]
  <2>. HIDE DEF a
  <2>3. f = [i \in 0 .. m |-> IF i = 0 THEN a ELSE DescendStep(names, fresh, f[i - 1], i)]
    BY <2>2 DEF Descends, a
  <2>4. \A i \in 0 .. m : i \in 0 .. m + 1 /\ g[i] = f[i]
    <3>1. \A i \in 0 .. m : i \in 0 .. m + 1
      BY <2>1
    <3>2. \A i \in 0 .. m : f[i] = IF i = 0 THEN a ELSE DescendStep(names, fresh, f[i - 1], i)
      BY <2>3
    <3>. QED  BY <3>1, <3>2
  <2>5. \A i \in 0 .. m + 1 : i # 0 => i - 1 \in 0 .. m
    BY <2>1
  <2>6. g = [i \in 0 .. m + 1 |-> IF i = 0 THEN a ELSE DescendStep(names, fresh, g[i - 1], i)]
    <3>1. \A i \in 0 .. m + 1 : (IF i = 0 THEN a ELSE DescendStep(names, fresh, f[i - 1], i))
                                = (IF i = 0 THEN a ELSE DescendStep(names, fresh, g[i - 1], i))
      <4>. HIDE DEF g
      <4>. QED  BY <2>4, <2>5
    <3>2. g = [i \in 0 .. m + 1 |-> IF i = 0 THEN a ELSE DescendStep(names, fresh, f[i - 1], i)]
      OBVIOUS
    <3>. HIDE DEF g
    <3>. QED  BY <3>1, <3>2
  <2>. HIDE DEF g
  <2>7. Descends(names, fresh, ts, scope, g, m + 1)
    BY <2>6 DEF Descends, a
  <2>. QED  BY <2>1, <2>7
<1>3. S \in SUBSET Nat
  OBVIOUS
<1>. HIDE DEF S
<1>4. \A m \in Nat : m \in S
  BY <1>1, <1>2, <1>3, Induction
<1>5. \E f : Descends(names, fresh, ts, scope, f, n)
  <2>1. n \in S
    BY <1>4
  <2>. QED  BY <2>1 DEF S
<1>6. ASSUME NEW f, Descends(names, fresh, ts, scope, f, n)
      PROVE  Descent(text, ts, scope, names, fresh, f[n], n)
  <2>1. \A i \in 0 .. n : f[i] = IF i = 0 THEN a ELSE DescendStep(names, fresh, f[i - 1], i)
    <3>. HIDE DEF a
    <3>1. f = [i \in 0 .. n |-> IF i = 0 THEN a ELSE DescendStep(names, fresh, f[i - 1], i)]
      BY <1>6 DEF Descends, a
    <3>. QED  BY <3>1
  <2>. DEFINE R == {m \in Nat : m <= n => Descent(text, ts, scope, names, fresh, f[m], m)}
  <2>2. 0 \in R
    <3>1. f[0] = a
      <4>1. 0 \in 0 .. n
        OBVIOUS
      <4>. HIDE DEF a
      <4>. QED  BY <2>1, <4>1
    <3>2. Descent(text, ts, scope, names, fresh, a, 0)
      BY DescentBegins
    <3>. HIDE DEF a
    <3>. QED  BY <3>1, <3>2
  <2>. HIDE DEF a
  <2>3. ASSUME NEW m \in R
        PROVE  m + 1 \in R
    <3>1. m \in Nat
      OBVIOUS
    <3>2. ASSUME m + 1 <= n
          PROVE  Descent(text, ts, scope, names, fresh, f[m + 1], m + 1)
      <4>1. m <= n /\ m + 1 \in 0 .. n /\ m + 1 # 0 /\ (m + 1) - 1 = m
        BY <3>1, <3>2
      <4>2. Descent(text, ts, scope, names, fresh, f[m], m)
        BY <4>1
      <4>3. f[m + 1] = DescendStep(names, fresh, f[m], m + 1)
        BY <2>1, <4>1
      <4>4. Descent(text, ts, scope, names, fresh, DescendStep(names, fresh, f[m], m + 1), m + 1)
        BY <3>1, <4>2, DescentGoesOn
      <4>. QED  BY <4>3, <4>4
    <3>. QED  BY <3>1, <3>2
  <2>4. R \in SUBSET Nat
    OBVIOUS
  <2>. HIDE DEF R
  <2>5. \A m \in Nat : m \in R
    BY <2>2, <2>3, <2>4, Induction
  <2>6. n \in R /\ n <= n
    BY <2>5
  <2>. QED  BY <2>6 DEF R
<1>. QED  BY <1>5, <1>6
----
\* Names entered one after another.

\* What a function declares can be computed.
LEMMA DeclaresExists ==
  ASSUME NEW ts, NEW scope, NEW s, NEW u, NEW params, NEW n \in Nat
  PROVE  \E f : Declares(ts, scope, s, u, params, f, n)
<1>. DEFINE a == Declare(ts, scope, s)
            S == {m \in Nat : \E f : Declares(ts, scope, s, u, params, f, m)}
<1>1. 0 \in S
  <2>. DEFINE f == [k \in 0 .. 0 |-> a]
  <2>. HIDE DEF a
  <2>1. f = [k \in 0 .. 0 |-> IF k = 0 THEN a ELSE Declare(f[k - 1], u, Symbol(params[k], "variable", u, k))]
    OBVIOUS
  <2>2. Declares(ts, scope, s, u, params, f, 0)
    BY <2>1 DEF Declares, a
  <2>. QED  BY <2>2
<1>2. ASSUME NEW m \in S
      PROVE  m + 1 \in S
  <2>1. m \in Nat
    OBVIOUS
  <2>2. PICK f : Declares(ts, scope, s, u, params, f, m)
    OBVIOUS
  <2>. DEFINE g == [k \in 0 .. m + 1 |->
                      IF k = 0 THEN a ELSE Declare(f[k - 1], u, Symbol(params[k], "variable", u, k))]
  <2>. HIDE DEF a
  <2>3. f = [k \in 0 .. m |-> IF k = 0 THEN a ELSE Declare(f[k - 1], u, Symbol(params[k], "variable", u, k))]
    BY <2>2 DEF Declares, a
  <2>4. \A k \in 0 .. m : k \in 0 .. m + 1 /\ g[k] = f[k]
    <3>1. \A k \in 0 .. m : k \in 0 .. m + 1
      BY <2>1
    <3>2. \A k \in 0 .. m : f[k] = IF k = 0 THEN a ELSE Declare(f[k - 1], u, Symbol(params[k], "variable", u, k))
      BY <2>3
    <3>. QED  BY <3>1, <3>2
  <2>5. \A k \in 0 .. m + 1 : k # 0 => k - 1 \in 0 .. m
    BY <2>1
  <2>6. g = [k \in 0 .. m + 1 |->
               IF k = 0 THEN a ELSE Declare(g[k - 1], u, Symbol(params[k], "variable", u, k))]
    <3>1. \A k \in 0 .. m + 1 :
            (IF k = 0 THEN a ELSE Declare(f[k - 1], u, Symbol(params[k], "variable", u, k)))
            = (IF k = 0 THEN a ELSE Declare(g[k - 1], u, Symbol(params[k], "variable", u, k)))
      <4>. HIDE DEF g
      <4>. QED  BY <2>4, <2>5
    <3>2. g = [k \in 0 .. m + 1 |->
                 IF k = 0 THEN a ELSE Declare(f[k - 1], u, Symbol(params[k], "variable", u, k))]
      OBVIOUS
    <3>. HIDE DEF g
    <3>. QED  BY <3>1, <3>2
  <2>. HIDE DEF g
  <2>7. Declares(ts, scope, s, u, params, g, m + 1)
    BY <2>6 DEF Declares, a
  <2>. QED  BY <2>1, <2>7
<1>3. S \in SUBSET Nat
  OBVIOUS
<1>. HIDE DEF S
<1>4. n \in S
  BY <1>1, <1>2, <1>3, Induction
<1>. QED  BY <1>4 DEF S

\* A function and its parameters are entered: the tables are in order.
LEMMA DeclaresKeep ==
  ASSUME NEW text, NEW ts, TableInv(text, ts), NEW scope \in DOMAIN ts, ts[scope].kind # "TemplateParameter",
         NEW n, NEW of, NEW u \in DOMAIN ts, ts[u].kind # "TemplateParameter", NEW params, NEW m \in Nat,
         NEW f, Declares(ts, scope, Symbol(n, "function", of, 0), u, params, f, m)
  PROVE  TableInv(text, f[m]) /\ Keeps(ts, f[m]) /\ DOMAIN f[m] = DOMAIN ts
<1>. DEFINE s == Symbol(n, "function", of, 0)
            Good(d) == TableInv(text, d) /\ Keeps(ts, d) /\ DOMAIN d = DOMAIN ts
            S == {k \in Nat : k <= m => Good(f[k])}
<1>1. \A k \in 0 .. m : f[k] = IF k = 0 THEN Declare(ts, scope, s)
                               ELSE Declare(f[k - 1], u, Symbol(params[k], "variable", u, k))
  <2>. HIDE DEF s
  <2>1. f = [k \in 0 .. m |-> IF k = 0 THEN Declare(ts, scope, s)
                              ELSE Declare(f[k - 1], u, Symbol(params[k], "variable", u, k))]
    BY DEF Declares, s
  <2>. QED  BY <2>1
<1>2. {"function", "variable"} \subseteq SymbolKinds \ {"namespace", "type"}
  BY DEF SymbolKinds
<1>3. Good(Declare(ts, scope, s))
  BY <1>2, DeclareKeeps
<1>. HIDE DEF s, Good
<1>4. 0 \in S
  <2>1. 0 \in 0 .. m
    OBVIOUS
  <2>2. f[0] = Declare(ts, scope, s)
    BY <1>1, <2>1
  <2>. QED  BY <1>3, <2>2
<1>5. ASSUME NEW k \in S
      PROVE  k + 1 \in S
  <2>1. k \in Nat
    OBVIOUS
  <2>2. ASSUME k + 1 <= m
        PROVE  Good(f[k + 1])
    <3>1. k <= m /\ k + 1 \in 0 .. m /\ k + 1 # 0 /\ (k + 1) - 1 = k
      BY <2>1, <2>2
    <3>2. PICK d : d = f[k]
      OBVIOUS
    <3>3. TableInv(text, d) /\ Keeps(ts, d) /\ DOMAIN d = DOMAIN ts
      BY <3>1, <3>2 DEF Good
    <3>4. PICK p : p = params[k + 1]
      OBVIOUS
    <3>5. f[k + 1] = Declare(d, u, Symbol(p, "variable", u, k + 1))
      BY <1>1, <3>1, <3>2, <3>4
    <3>6. u \in DOMAIN d /\ d[u].kind # "TemplateParameter"
      BY <3>3 DEF Keeps, Grows
    <3>7. PICK e : e = Declare(d, u, Symbol(p, "variable", u, k + 1))
      OBVIOUS
    <3>8. TableInv(text, e) /\ Keeps(d, e) /\ DOMAIN e = DOMAIN d
      BY <1>2, <3>3, <3>6, <3>7, DeclareKeeps
    <3>9. Keeps(ts, e)
      BY <3>3, <3>8, KeepsTwice
    <3>. QED  BY <3>3, <3>5, <3>7, <3>8, <3>9 DEF Good
  <2>. QED  BY <2>1, <2>2
<1>6. S \in SUBSET Nat
  OBVIOUS
<1>. HIDE DEF S
<1>7. m \in S /\ m <= m
  BY <1>4, <1>5, <1>6, Induction
<1>. QED  BY <1>7 DEF S, Good

\* The table of an expansion, filled, can be computed.
LEMMA FillsExists ==
  ASSUME NEW ts, NEW u, NEW params, NEW n \in Nat
  PROVE  \E f : Fills(ts, u, params, f, n)
<1>. DEFINE a == ts
            S == {m \in Nat : \E f : Fills(ts, u, params, f, m)}
<1>1. 0 \in S
  <2>. DEFINE f == [k \in 0 .. 0 |-> a]
  <2>. HIDE DEF a
  <2>1. f = [k \in 0 .. 0 |-> IF k = 0 THEN a ELSE AddSymbol(f[k - 1], u, Symbol(params[k], "type", u, k))]
    OBVIOUS
  <2>2. Fills(ts, u, params, f, 0)
    BY <2>1 DEF Fills, a
  <2>. QED  BY <2>2
<1>2. ASSUME NEW m \in S
      PROVE  m + 1 \in S
  <2>1. m \in Nat
    OBVIOUS
  <2>2. PICK f : Fills(ts, u, params, f, m)
    OBVIOUS
  <2>. DEFINE g == [k \in 0 .. m + 1 |->
                      IF k = 0 THEN a ELSE AddSymbol(f[k - 1], u, Symbol(params[k], "type", u, k))]
  <2>. HIDE DEF a
  <2>3. f = [k \in 0 .. m |-> IF k = 0 THEN a ELSE AddSymbol(f[k - 1], u, Symbol(params[k], "type", u, k))]
    BY <2>2 DEF Fills, a
  <2>4. \A k \in 0 .. m : k \in 0 .. m + 1 /\ g[k] = f[k]
    <3>1. \A k \in 0 .. m : k \in 0 .. m + 1
      BY <2>1
    <3>2. \A k \in 0 .. m : f[k] = IF k = 0 THEN a ELSE AddSymbol(f[k - 1], u, Symbol(params[k], "type", u, k))
      BY <2>3
    <3>. QED  BY <3>1, <3>2
  <2>5. \A k \in 0 .. m + 1 : k # 0 => k - 1 \in 0 .. m
    BY <2>1
  <2>6. g = [k \in 0 .. m + 1 |->
               IF k = 0 THEN a ELSE AddSymbol(g[k - 1], u, Symbol(params[k], "type", u, k))]
    <3>1. \A k \in 0 .. m + 1 :
            (IF k = 0 THEN a ELSE AddSymbol(f[k - 1], u, Symbol(params[k], "type", u, k)))
            = (IF k = 0 THEN a ELSE AddSymbol(g[k - 1], u, Symbol(params[k], "type", u, k)))
      <4>. HIDE DEF g
      <4>. QED  BY <2>4, <2>5
    <3>2. g = [k \in 0 .. m + 1 |->
                 IF k = 0 THEN a ELSE AddSymbol(f[k - 1], u, Symbol(params[k], "type", u, k))]
      OBVIOUS
    <3>. HIDE DEF g
    <3>. QED  BY <3>1, <3>2
  <2>. HIDE DEF g
  <2>7. Fills(ts, u, params, g, m + 1)
    BY <2>6 DEF Fills, a
  <2>. QED  BY <2>1, <2>7
<1>3. S \in SUBSET Nat
  OBVIOUS
<1>. HIDE DEF S
<1>4. n \in S
  BY <1>1, <1>2, <1>3, Induction
<1>. QED  BY <1>4 DEF S

\* Different parameters are entered in an empty table: the tables are in order.
LEMMA FillsKeep ==
  ASSUME NEW text, NEW ts, TableInv(text, ts), NEW u \in DOMAIN ts, ts[u].kind = "TemplateParameter",
         ts[u].symbols = {}, NEW params, NEW m \in Nat,
         \A k, l \in 1 .. m : params[k] = params[l] => k = l,
         NEW f, Fills(ts, u, params, f, m)
  PROVE  Filled(text, ts, u, params, m, f[m])
<1>. DEFINE S == {k \in Nat : k <= m => Filled(text, ts, u, params, k, f[k])}
<1>1. \A k \in 0 .. m : f[k] = IF k = 0 THEN ts ELSE AddSymbol(f[k - 1], u, Symbol(params[k], "type", u, k))
  <2>1. f = [k \in 0 .. m |-> IF k = 0 THEN ts ELSE AddSymbol(f[k - 1], u, Symbol(params[k], "type", u, k))]
    BY DEF Fills
  <2>. QED  BY <2>1
<1>2. 0 \in S
  <2>1. 0 \in 0 .. m
    OBVIOUS
  <2>2. f[0] = ts
    BY <1>1, <2>1
  <2>3. Filled(text, ts, u, params, 0, ts)
    BY KeepsSame DEF Filled
  <2>. QED  BY <2>2, <2>3
<1>3. ASSUME NEW k \in S
      PROVE  k + 1 \in S
  <2>1. k \in Nat
    OBVIOUS
  <2>2. ASSUME k + 1 <= m
        PROVE  Filled(text, ts, u, params, k + 1, f[k + 1])
    <3>1. k <= m /\ k + 1 \in 0 .. m /\ k + 1 \in 1 .. m /\ k + 1 # 0 /\ (k + 1) - 1 = k
      BY <2>1, <2>2
    <3>2. PICK d : d = f[k]
      OBVIOUS
    <3>3. /\ TableInv(text, d) /\ Grows(ts, d) /\ DOMAIN d = DOMAIN ts
          /\ \A v \in DOMAIN ts : /\ d[v].parent = ts[v].parent
                                  /\ v # u => d[v].symbols = ts[v].symbols
          /\ \A s \in d[u].symbols : \E l \in 1 .. k : s.name = params[l]
      BY <3>1, <3>2 DEF Filled
    <3>4. PICK p : p = params[k + 1]
      OBVIOUS
    <3>5. PICK e : e = AddSymbol(d, u, Symbol(p, "type", u, k + 1))
      OBVIOUS
    <3>6. f[k + 1] = e
      BY <1>1, <3>1, <3>2, <3>4, <3>5
    <3>7. u \in DOMAIN d /\ d[u].kind = "TemplateParameter" /\ Shape(d)
      BY <3>3 DEF Grows, TableInv
    <3>8. Entered(d, e, u, p, "type", u)
      BY <3>5, <3>7, AddSymbolEnters
    <3>9. \A s \in d[u].symbols : s.name # p
      <4>1. ASSUME NEW s \in d[u].symbols, s.name = p
            PROVE  FALSE
        <5>1. PICK l \in 1 .. k : s.name = params[l]
          BY <3>3
        <5>2. l \in 1 .. m /\ l # k + 1
          BY <2>1, <3>1
        <5>. QED  BY <3>1, <3>4, <4>1, <5>1, <5>2
      <4>. QED  BY <4>1
    <3>10. TableInv(text, e) /\ Grows(d, e) /\ DOMAIN e = DOMAIN d
      <4>1. PICK is : is = "type"
        OBVIOUS
      <4>2. is \in SymbolKinds \ {"namespace"} /\ is # "template" /\ (d[u].kind = "TemplateParameter" <=> is = "type")
        BY <3>7, <4>1 DEF SymbolKinds
      <4>3. Entered(d, e, u, p, is, u)
        BY <3>8, <4>1
      <4>4. TableInv(text, d)
        BY <3>3
      <4>. QED  BY <3>9, <4>2, <4>3, <4>4, EnteredKeeps
    <3>11. Grows(ts, e)
      <4>1. ASSUME NEW v \in DOMAIN ts
            PROVE  /\ e[v].kind = ts[v].kind
                   /\ ts[v].parent # NoTable => e[v].parent = ts[v].parent
                   /\ ts[v].symbols \subseteq e[v].symbols
        <5>1. v \in DOMAIN d
          BY <3>3
        <5>2. /\ d[v].kind = ts[v].kind
              /\ ts[v].parent # NoTable => d[v].parent = ts[v].parent
              /\ ts[v].symbols \subseteq d[v].symbols
          BY <3>3 DEF Grows
        <5>3. /\ e[v].kind = d[v].kind
              /\ d[v].parent # NoTable => e[v].parent = d[v].parent
              /\ d[v].symbols \subseteq e[v].symbols
          BY <3>10, <5>1 DEF Grows
        <5>. QED  BY <5>2, <5>3
      <4>. QED  BY <3>3, <3>10, <4>1 DEF Grows
    <3>12. \A v \in DOMAIN ts : /\ e[v].parent = ts[v].parent
                                /\ v # u => e[v].symbols = ts[v].symbols
      BY <3>3, <3>8 DEF Entered
    <3>13. \A s \in e[u].symbols : \E l \in 1 .. (k + 1) : s.name = params[l]
      <4>1. PICK q : q.name = p /\ e[u].symbols = d[u].symbols \union {q}
        BY <3>8 DEF Entered
      <4>2. k + 1 \in 1 .. (k + 1) /\ \A l \in 1 .. k : l \in 1 .. (k + 1)
        BY <2>1
      <4>. QED  BY <3>3, <3>4, <4>1, <4>2
    <3>14. DOMAIN e = DOMAIN ts
      BY <3>3, <3>10
    <3>15. Filled(text, ts, u, params, k + 1, e)
      BY <3>10, <3>11, <3>12, <3>13, <3>14 DEF Filled
    <3>. QED  BY <3>6, <3>15
  <2>. QED  BY <2>1, <2>2
<1>4. S \in SUBSET Nat
  OBVIOUS
<1>. HIDE DEF S
<1>5. m \in S /\ m <= m
  BY <1>2, <1>3, <1>4, Induction
<1>. QED  BY <1>5 DEF S

----
\* The tables of a copy.

\* They are in order, and what there was stays.
LEMMA CopiesKeep ==
  ASSUME NEW text, NEW new, NEW a, NEW s, NEW n, NEW fresh, TextInv(text), Inserts(text, new, a, s, n, fresh),
         NEW ts, \A t \in DOMAIN ts : t <= fresh, NEW d, TableInv(text, d), DOMAIN d = DOMAIN ts,
         \A t \in DOMAIN ts : d[t].kind = ts[t].kind,
         d[text[a].id].parent # NoTable, NEW ts2, Copies(text, s, n, fresh, ts, d, ts2)
  PROVE  TableInv(new, ts2) /\ Grows(d, ts2)
<1>1. /\ Shape(d) /\ Ranked(d) /\ Numbered(text, d) /\ Owned(text, d) /\ Entries(text, d)
  BY DEF TableInv
<1>2. /\ a \in Nat /\ n \in Nat /\ s \in Nat /\ a # 0 /\ a < Len(text) /\ fresh \in Nat /\ Len(text) \in Nat
      /\ DOMAIN text = 1 .. Len(text) /\ DOMAIN new = 1 .. (Len(text) + n)
  BY InsertedPlaces
<1>3. ASSUME NEW i \in DOMAIN text
      PROVE  Moved(a, n, i) \in DOMAIN new /\ new[Moved(a, n, i)] = text[i] /\ text[i].id \in Nat /\ text[i].id <= fresh
  <2>1. text \in Seq(Node) /\ text # <<>>
    BY DEF TextInv
  <2>2. text[i] \in Node
    BY <2>1, TextPlaces
  <2>3. text[i].id \in Nat
    BY <2>2 DEF Node
  <2>4. text[i].id <= fresh
    BY DEF Inserts
  <2>5. Moved(a, n, i) \in DOMAIN new /\ new[Moved(a, n, i)] = text[i]
    BY InsertedPlaces
  <2>. QED  BY <2>3, <2>4, <2>5
<1>4. ASSUME NEW i \in DOMAIN new
      PROVE  (\E o \in DOMAIN text : i = Moved(a, n, o)) \/ (\E k \in 1 .. n : i = a + k)
  <2>1. CASE i <= a
    BY <1>2, <2>1 DEF Moved
  <2>2. CASE i > a /\ i <= a + n
    <3>1. i - a \in 1 .. n /\ i = a + (i - a)
      BY <1>2, <2>2
    <3>. QED  BY <3>1
  <2>3. CASE i > a + n
    <3>1. i - n \in DOMAIN text /\ i - n > a /\ (i - n) + n = i
      BY <1>2, <2>3
    <3>2. Moved(a, n, i - n) = i
      BY <1>2, <3>1 DEF Moved
    <3>. QED  BY <3>1, <3>2
  <2>. QED  BY <1>2, <2>1, <2>2, <2>3
<1>5. ASSUME NEW k \in 1 .. n
      PROVE  /\ s + k \in DOMAIN text /\ a + k \in DOMAIN new
             /\ new[a + k].op = text[s + k].op /\ new[a + k].id = fresh + k
  BY CopyFields
<1>6. /\ ts2 = [t \in DOMAIN ts2 |-> ts2[t]]
      /\ \A t \in DOMAIN d : t \in DOMAIN ts2 /\ ts2[t] = d[t] /\ t <= fresh
      /\ \A t \in DOMAIN ts2 : t \in DOMAIN d \/ \E k \in 1 .. n : text[s + k].op \in OwnsTable /\ t = fresh + k
  BY DEF Copies
<1>7. /\ DOMAIN d \in SUBSET Nat /\ World \in DOMAIN d /\ NoTable \notin DOMAIN d /\ NoTable \notin Nat
  BY <1>1 DEF Shape, NoTable
<1>8. ASSUME NEW k \in 1 .. n, text[s + k].op \in OwnsTable
      PROVE  /\ fresh + k \in DOMAIN ts2 /\ fresh + k \in Nat /\ fresh + k \notin DOMAIN d /\ fresh + k # World
             /\ IsTable(ts2[fresh + k]) /\ ts2[fresh + k].kind = d[text[s + k].id].kind
             /\ ts2[fresh + k].parent = NoTable /\ ts2[fresh + k].symbols = {}
             /\ ts2[fresh + k].kind \in Kinds
             /\ ts2[fresh + k].kind = "TemplateParameter" <=> text[s + k].op = "expand"
  <2>1. PICK name : ts2[fresh + k] = Table(ts[text[s + k].id].kind, name, NoTable)
    BY <1>8 DEF Copies
  <2>2. fresh + k \in DOMAIN ts2
    BY <1>8 DEF Copies
  <2>3. fresh + k \in Nat /\ fresh + k > fresh /\ fresh + k # World
    BY <1>2 DEF World
  <2>4. fresh + k \notin DOMAIN d
    BY <1>2, <1>6, <2>3
  <2>5. s + k \in DOMAIN text
    BY <1>5
  <2>6. PICK i \in DOMAIN text : i = s + k
    BY <2>5
  <2>7. text[i].id \in DOMAIN d /\ (d[text[i].id].kind = "TemplateParameter" <=> text[i].op = "expand")
    BY <1>1, <1>8, <2>6 DEF Owned
  <2>8. d[text[i].id].kind = ts[text[i].id].kind /\ d[text[i].id].kind \in Kinds
    BY <1>1, <2>7 DEF Shape
  <2>9. IsTable(ts2[fresh + k]) /\ ts2[fresh + k].kind = ts[text[s + k].id].kind
        /\ ts2[fresh + k].parent = NoTable /\ ts2[fresh + k].symbols = {}
    BY <2>1 DEF Table, IsTable
  <2>. QED  BY <2>2, <2>3, <2>4, <2>6, <2>7, <2>8, <2>9
<1>9. ASSUME NEW t \in DOMAIN ts2, t \notin DOMAIN d
      PROVE  /\ t \in Nat /\ IsTable(ts2[t]) /\ ts2[t].kind \in Kinds /\ ts2[t].parent = NoTable /\ ts2[t].symbols = {}
             /\ t <= fresh + n /\ t # World
  <2>1. PICK k \in 1 .. n : text[s + k].op \in OwnsTable /\ t = fresh + k
    BY <1>6, <1>9
  <2>2. fresh + k <= fresh + n
    BY <1>2
  <2>. QED  BY <1>8, <2>1, <2>2
<1>10. Grows(d, ts2)
  BY <1>6 DEF Grows
<1>11. Shape(ts2)
  <2>1. DOMAIN ts2 \in SUBSET Nat
    <3>1. \A t \in DOMAIN ts2 : t \in Nat
      BY <1>7, <1>9
    <3>. QED  BY <3>1
  <2>2. World \in DOMAIN ts2 /\ ts2[World].kind = "Global" /\ ts2[World].parent = NoTable
    BY <1>1, <1>6 DEF Shape
  <2>3. ASSUME NEW t \in DOMAIN ts2
        PROVE  /\ IsTable(ts2[t]) /\ ts2[t].kind \in Kinds
               /\ ts2[t].parent \in DOMAIN ts2 \union {NoTable}
               /\ ts2[t].kind = "TemplateParameter" => ts2[t].parent # World
               /\ ts2[t].parent # NoTable /\ ts2[ts2[t].parent].kind = "TemplateParameter"
                  => ts2[ts2[t].parent].parent # NoTable
    <3>1. CASE t \in DOMAIN d
      <4>1. /\ IsTable(d[t]) /\ d[t].kind \in Kinds
            /\ d[t].parent \in DOMAIN d \union {NoTable}
            /\ d[t].kind = "TemplateParameter" => d[t].parent # World
            /\ d[t].parent # NoTable /\ d[d[t].parent].kind = "TemplateParameter" => d[d[t].parent].parent # NoTable
        BY <1>1, <3>1 DEF Shape
      <4>2. ts2[t] = d[t]
        BY <1>6, <3>1
      <4>3. d[t].parent # NoTable => d[t].parent \in DOMAIN ts2 /\ ts2[d[t].parent] = d[d[t].parent]
        BY <1>6, <4>1
      <4>. QED  BY <4>1, <4>2, <4>3
    <3>2. CASE t \notin DOMAIN d
      <4>1. World # NoTable
        BY DEF World, NoTable
      <4>. QED  BY <1>9, <3>2, <4>1
    <3>. QED  BY <3>1, <3>2
  <2>. QED  BY <1>6, <2>1, <2>2, <2>3 DEF Shape
<1>12. Ranked(ts2)
  <2>0. PICK m \in Nat : \E rank \in [DOMAIN d -> 0 .. m] :
          \A t \in DOMAIN d : d[t].parent # NoTable => rank[d[t].parent] < rank[t]
    BY <1>1 DEF Ranked
  <2>1. PICK rank \in [DOMAIN d -> 0 .. m] :
          \A t \in DOMAIN d : d[t].parent # NoTable => rank[d[t].parent] < rank[t]
    BY <2>0
  <2>. DEFINE r2 == [t \in DOMAIN ts2 |-> IF t \in DOMAIN d THEN rank[t] ELSE 0]
  <2>2. r2 \in [DOMAIN ts2 -> 0 .. m]
    <3>1. 0 \in 0 .. m
      OBVIOUS
    <3>. QED  BY <3>1
  <2>3. ASSUME NEW t \in DOMAIN ts2, ts2[t].parent # NoTable
        PROVE  r2[ts2[t].parent] < r2[t]
    <3>1. t \in DOMAIN d /\ ts2[t] = d[t]
      BY <1>6, <1>9, <2>3
    <3>2. d[t].parent \in DOMAIN d
      BY <1>1, <2>3, <3>1 DEF Shape
    <3>3. d[t].parent \in DOMAIN ts2 /\ rank[d[t].parent] < rank[t]
      BY <1>6, <2>1, <2>3, <3>1, <3>2
    <3>. QED  BY <3>1, <3>2, <3>3
  <2>. HIDE DEF r2
  <2>. QED  BY <2>2, <2>3 DEF Ranked
<1>13. ASSUME NEW i \in DOMAIN new
       PROVE  /\ new[i].id \in 0 .. (fresh + n)
              /\ \A t \in DOMAIN d : (\A j \in DOMAIN text : text[j].id # t) => new[i].id # t
  <2>1. CASE \E o \in DOMAIN text : i = Moved(a, n, o)
    <3>1. PICK o \in DOMAIN text : new[i] = text[o] /\ text[o].id \in Nat /\ text[o].id <= fresh
      BY <1>3, <2>1
    <3>2. \A x \in Nat : x <= fresh => x \in 0 .. (fresh + n)
      BY <1>2
    <3>. QED  BY <3>1, <3>2
  <2>2. CASE \E k \in 1 .. n : i = a + k
    <3>1. PICK k \in 1 .. n : new[i].id = fresh + k
      BY <1>5, <2>2
    <3>2. fresh + k \in 0 .. (fresh + n) /\ fresh + k > fresh
      BY <1>2
    <3>3. \A t \in DOMAIN d : t # fresh + k
      BY <1>2, <1>6, <1>7, <3>2
    <3>. QED  BY <3>1, <3>2, <3>3
  <2>. QED  BY <1>4, <2>1, <2>2
<1>14. Numbered(new, ts2)
  <2>1. \A t \in DOMAIN ts2 : t \in 0 .. (fresh + n)
    <3>1. ASSUME NEW t \in DOMAIN ts2
          PROVE  t \in 0 .. (fresh + n)
      <4>1. CASE t \in DOMAIN d
        <5>1. t \in Nat /\ t <= fresh
          BY <1>6, <1>7, <4>1
        <5>. QED  BY <1>2, <5>1
      <4>2. CASE t \notin DOMAIN d
        <5>1. t \in Nat /\ t <= fresh + n
          BY <1>9, <4>2
        <5>. QED  BY <1>2, <5>1
      <4>. QED  BY <4>1, <4>2
    <3>. QED  BY <3>1
  <2>2. fresh + n \in Nat
    BY <1>2
  <2>. QED  BY <1>13, <2>1, <2>2 DEF Numbered
<1>15. Owned(new, ts2)
  <2>. SUFFICES ASSUME NEW i \in DOMAIN new, new[i].op \in OwnsTable
                PROVE  /\ new[i].id \in DOMAIN ts2 \ {World}
                       /\ ts2[new[i].id].kind = "TemplateParameter" <=> new[i].op = "expand"
                       /\ ts2[new[i].id].parent # NoTable => Rooted(ts2, new[i].id)
                       /\ new[i].op = "expand" /\ new[i + 1].op # "end" => ts2[new[i].id].parent # NoTable
    BY DEF Owned
  <2>1. CASE \E o \in DOMAIN text : i = Moved(a, n, o)
    <3>1. PICK o \in DOMAIN text : i = Moved(a, n, o)
      BY <2>1
    <3>2. new[i] = text[o]
      BY <1>3, <3>1
    <3>3. /\ text[o].id \in DOMAIN d \ {World}
          /\ d[text[o].id].kind = "TemplateParameter" <=> text[o].op = "expand"
          /\ d[text[o].id].parent # NoTable => Rooted(d, text[o].id)
          /\ text[o].op = "expand" /\ text[o + 1].op # "end" => d[text[o].id].parent # NoTable
      BY <1>1, <3>2 DEF Owned
    <3>4. ts2[text[o].id] = d[text[o].id] /\ text[o].id \in DOMAIN ts2
      BY <1>6, <3>3
    <3>5. Rooted(d, text[o].id) => Rooted(ts2, text[o].id)
      BY <1>1, <1>10, RootedGrows
    <3>6. ASSUME new[i].op = "expand", new[i + 1].op # "end"
          PROVE  d[text[o].id].parent # NoTable
      <4>1. CASE o = a
        BY <4>1
      <4>2. CASE o # a
        <5>1. EndOf(text, o) \in (o + 1) .. Len(text)
          BY <3>2, <3>6, EndOfIs DEF Opener
        <5>2. o + 1 \in DOMAIN text /\ Moved(a, n, o + 1) = i + 1
          BY <1>2, <3>1, <4>2, <5>1 DEF Moved
        <5>3. new[i + 1] = text[o + 1]
          BY <1>3, <5>2
        <5>. QED  BY <3>2, <3>3, <3>6, <5>3
      <4>. QED  BY <4>1, <4>2
    <3>. QED  BY <3>2, <3>3, <3>4, <3>5, <3>6
  <2>2. CASE \E k \in 1 .. n : i = a + k
    <3>1. PICK k \in 1 .. n : i = a + k
      BY <2>2
    <3>2. new[i].op = text[s + k].op /\ new[i].id = fresh + k
      BY <1>5, <3>1
    <3>3. /\ fresh + k \in DOMAIN ts2 /\ fresh + k # World /\ ts2[fresh + k].parent = NoTable
          /\ ts2[fresh + k].kind = "TemplateParameter" <=> text[s + k].op = "expand"
      BY <1>8, <3>2
    <3>4. new[i].op = "expand" => new[i + 1].op = "end"
      <4>. SUFFICES ASSUME text[s + k].op = "expand"
                    PROVE  new[i + 1].op = "end"
        BY <3>2
      <4>1. k < n /\ text[s + k + 1].op = "end"
        BY BodyExpansions
      <4>2. PICK l \in 1 .. n : l = k + 1
        BY <1>2, <4>1
      <4>3. a + l = i + 1 /\ s + l = s + k + 1
        BY <1>2, <3>1, <4>2
      <4>. QED  BY <1>5, <4>1, <4>3
    <3>. QED  BY <3>2, <3>3, <3>4
  <2>. QED  BY <1>4, <2>1, <2>2
<1>16. Entries(new, ts2)
  <2>. SUFFICES ASSUME NEW t \in DOMAIN ts2
                PROVE  /\ \A q, r \in ts2[t].symbols : q.name = r.name => q = r
                       /\ \A q \in ts2[t].symbols : SymbolFits(new, ts2, t, q)
    BY DEF Entries
  <2>1. CASE t \notin DOMAIN d
    BY <1>9, <2>1
  <2>2. CASE t \in DOMAIN d
    <3>1. /\ \A q, r \in d[t].symbols : q.name = r.name => q = r
          /\ \A q \in d[t].symbols : SymbolFits(text, d, t, q)
      BY <1>1, <2>2 DEF Entries
    <3>2. ts2[t] = d[t]
      BY <1>6, <2>2
    <3>3. ASSUME NEW q \in d[t].symbols
          PROVE  SymbolFits(new, ts2, t, q)
      <4>1. /\ q.storage = d[t].kind /\ q.is \in SymbolKinds
            /\ d[t].kind = "TemplateParameter" <=> q.is = "type"
            /\ q.is = "namespace" => /\ q.of \in DOMAIN d \ {World}
                                     /\ d[q.of].parent = t /\ d[q.of].kind = "Global"
                                     /\ \A i \in DOMAIN text : text[i].id # q.of
            /\ q.is = "template" => \E i \in DOMAIN text : text[i].op = "template" /\ text[i].id = q.of
        BY <3>1 DEF SymbolFits
      <4>2. q.is = "namespace" => /\ q.of \in DOMAIN ts2 \ {World}
                                  /\ ts2[q.of].parent = t /\ ts2[q.of].kind = "Global"
                                  /\ \A i \in DOMAIN new : new[i].id # q.of
        BY <1>6, <1>13, <4>1
      <4>3. q.is = "template" => \E i \in DOMAIN new : new[i].op = "template" /\ new[i].id = q.of
        BY <1>3, <4>1
      <4>. QED  BY <3>2, <4>1, <4>2, <4>3 DEF SymbolFits
    <3>. QED  BY <3>1, <3>2, <3>3
  <2>. QED  BY <2>1, <2>2
<1>. QED  BY <1>10, <1>11, <1>12, <1>14, <1>15, <1>16 DEF TableInv

----
\* A frame.

\* A visitor that jumps over something stands as before.
LEMMA JumpStanding ==
  ASSUME NEW text, text \in Seq(Node), NEW pass, NEW first, NEW at, NEW n, Standing(text, pass, first, at, n),
         NEW c, Jump(text, at, c)
  PROVE  Standing(text, pass, first, c, n)
<1>1. /\ first \in Nat \ {0} /\ Within(text, first - 1, at) /\ first - 1 \in Nat
      /\ n = Height(text, at - 1) - Height(text, first - 1)
      /\ pass # "record" => Live(text, at)
  BY DEF Standing
<1>2. Within(text, first - 1, c)
  BY <1>1, JumpWithin
<1>3. c \in (at + 1) .. (Len(text) + 1) /\ Height(text, c - 1) = Height(text, at - 1) /\ at \in DOMAIN text
  BY DEF Jump
<1>4. c \in 1 .. (Len(text) + 1)
  BY <1>3
<1>5. Live(text, at) => Live(text, c)
  <2>1. \A j : Encloses(text, j, c) <=> Encloses(text, j, at)
    BY JumpEncloses
  <2>. QED  BY <2>1 DEF Live
<1>. QED  BY <1>1, <1>2, <1>3, <1>4, <1>5 DEF Standing

\* A visitor that enters a node.
LEMMA EnterStanding ==
  ASSUME NEW text, text \in Seq(Node), NEW pass, NEW first, NEW at, NEW n \in Int, Standing(text, pass, first, at, n),
         at \in DOMAIN text, text[at].op \in Opener, text[at].op = "template" => pass = "record"
  PROVE  Standing(text, pass, first, at + 1, n + 1)
<1>1. /\ first \in Nat \ {0} /\ Within(text, first - 1, at) /\ first - 1 \in Nat
      /\ n = Height(text, at - 1) - Height(text, first - 1)
      /\ pass # "record" => Live(text, at)
  BY DEF Standing
<1>2. at \in Nat \ {0} /\ at + 1 \in 1 .. (Len(text) + 1) /\ (at + 1) - 1 = at
  BY LenProperties
<1>3. Within(text, first - 1, at + 1)
  BY <1>1, EnterEncloses
<1>4. n + 1 = Height(text, at) - Height(text, first - 1)
  <2>1. PICK d \in Nat : d = at - 1 /\ at = d + 1
    BY <1>2
  <2>2. Height(text, at) = Height(text, d) + 1 /\ Height(text, d) \in Int /\ Height(text, first - 1) \in Int
    BY <1>1, <2>1, HeightStep DEF Lift
  <2>3. n = Height(text, d) - Height(text, first - 1)
    BY <1>1, <2>1
  <2>4. \A g, h \in Int : (g - h) + 1 = (g + 1) - h
    OBVIOUS
  <2>. QED  BY <2>2, <2>3, <2>4
<1>5. ASSUME pass # "record"
      PROVE  Live(text, at + 1)
  <2>1. \A j : Encloses(text, j, at + 1) <=> (Encloses(text, j, at) \/ j = at)
    BY EnterEncloses
  <2>. QED  BY <1>1, <1>5, <2>1 DEF Live
<1>. QED  BY <1>1, <1>2, <1>3, <1>4, <1>5 DEF Standing

\* A visitor that leaves a node.
LEMMA LeaveStanding ==
  ASSUME NEW text, text \in Seq(Node), NEW pass, NEW first, NEW at, NEW n \in Nat \ {0},
         Standing(text, pass, first, at, n), at \in DOMAIN text, text[at].op = "end"
  PROVE  Standing(text, pass, first, at + 1, n - 1)
<1>1. /\ first \in Nat \ {0} /\ Within(text, first - 1, at) /\ first - 1 \in Nat
      /\ n = Height(text, at - 1) - Height(text, first - 1)
      /\ pass # "record" => Live(text, at)
  BY DEF Standing
<1>2. at \in Nat \ {0} /\ at + 1 \in 1 .. (Len(text) + 1) /\ (at + 1) - 1 = at
  BY LenProperties
<1>3. PICK d \in Nat : d = at - 1
  BY <1>2
<1>4. Height(text, d) \in Int /\ Height(text, first - 1) \in Int
  BY <1>1, HeightStep
<1>5. /\ \A j : Encloses(text, j, at + 1) <=> (Encloses(text, j, at) /\ Height(text, j) < Height(text, d))
      /\ \A b \in Nat : Within(text, b, at) /\ Height(text, b) < Height(text, d) => Within(text, b, at + 1)
      /\ Height(text, at) = Height(text, d) - 1
  BY <1>3, LeaveEncloses
<1>6. n = Height(text, d) - Height(text, first - 1)
  BY <1>1, <1>3
<1>7. Height(text, first - 1) < Height(text, d)
  BY <1>4, <1>6
<1>8. Within(text, first - 1, at + 1)
  BY <1>1, <1>5, <1>7
<1>9. n - 1 = Height(text, at) - Height(text, first - 1)
  <2>1. \A g, h \in Int : (g - h) - 1 = (g - 1) - h
    OBVIOUS
  <2>. QED  BY <1>4, <1>5, <1>6, <2>1
<1>10. pass # "record" => Live(text, at + 1)
  BY <1>1, <1>5 DEF Live
<1>. QED  BY <1>1, <1>2, <1>8, <1>9, <1>10 DEF Standing

\* Where a visitor sets out.
LEMMA SetOutStanding ==
  ASSUME NEW text, NEW pass, NEW first \in 1 .. (Len(text) + 1), Len(text) \in Nat, pass # "record" => Live(text, first)
  PROVE  Standing(text, pass, first, first, 0)
<1>1. first \in Nat \ {0} /\ first - 1 \in Nat /\ first - 1 < first
  OBVIOUS
<1>2. Height(text, first - 1) \in Int
  BY <1>1, HeightStep
<1>3. \A k \in (first - 1) .. (first - 1) : k = first - 1
  BY <1>1
<1>4. \A h \in Int : h >= h /\ h - h = 0
  OBVIOUS
<1>5. Within(text, first - 1, first)
  BY <1>1, <1>2, <1>3, <1>4 DEF Within
<1>. QED  BY <1>1, <1>2, <1>4, <1>5 DEF Standing

\* What is pushed with a node.
LEMMA EnterStacked ==
  ASSUME NEW pass, NEW first, NEW base, NEW scopes, NEW open, Stacked(pass, first, base, scopes, open),
         NEW p \in Seq(Nat), pass = "expand" => p = <<>>,
         first = 1 /\ pass # "expand" /\ open = <<>> => p # <<>>
  PROVE  Stacked(pass, first, base, scopes \o p, Append(open, Len(p)))
<1>1. /\ base \in Seq(Nat) /\ scopes \in Seq(Nat) /\ open \in Seq(Nat)
      /\ first = 1 /\ pass # "expand" /\ open # <<>> => open[1] > 0
      /\ pass = "expand" => scopes = base /\ \A k \in DOMAIN open : open[k] = 0
  BY DEF Stacked
<1>2. PICK m : Sums(base, scopes, open, m)
  BY DEF Stacked
<1>3. PICK s2 : s2 = scopes \o p
  OBVIOUS
<1>4. PICK l \in Nat : l = Len(p)
  BY LenProperties
<1>5. PICK o2 : o2 = Append(open, l)
  OBVIOUS
<1>6. PICK n \in Nat : n = Len(open)
  BY <1>1, LenProperties
<1>7. s2 \in Seq(Nat) /\ Len(s2) = Len(scopes) + l
  BY <1>1, <1>3, <1>4, ConcatProperties
<1>8. o2 \in Seq(Nat) /\ o2 # <<>> /\ Len(o2) = n + 1 /\ o2[n + 1] = l /\ \A k \in 1 .. n : o2[k] = open[k]
  BY <1>1, <1>4, <1>5, <1>6, SeqPush
<1>9. DOMAIN o2 = 1 .. (n + 1) /\ DOMAIN open = 1 .. n
  BY <1>1, <1>6, <1>8, LenProperties
<1>18. \E m2 : Sums(base, s2, o2, m2)
  BY <1>1, <1>2, <1>5, <1>7, SumsPush DEF SumsFrom
<1>19. ASSUME first = 1, pass # "expand"
       PROVE  o2[1] > 0
  <2>1. CASE open = <<>>
    <3>1. n = 0 /\ p # <<>>
      BY <1>6, <1>19, <2>1
    <3>2. l # 0
      BY <1>4, <3>1, EmptySeq
    <3>. QED  BY <1>8, <3>1, <3>2
  <2>2. CASE open # <<>>
    <3>1. n # 0
      BY <1>1, <1>6, <2>2, EmptySeq
    <3>2. 1 \in 1 .. n
      BY <3>1
    <3>. QED  BY <1>1, <1>8, <1>19, <2>2, <3>2
  <2>. QED  BY <2>1, <2>2
<1>20. ASSUME pass = "expand"
       PROVE  s2 = base /\ \A k \in DOMAIN o2 : o2[k] = 0
  <2>1. p = <<>> /\ l = 0
    BY <1>4, <1>20
  <2>2. s2 = scopes
    BY <1>1, <1>3, <2>1, ConcatProperties
  <2>3. \A k \in DOMAIN o2 : k = n + 1 \/ k \in 1 .. n
    BY <1>9
  <2>. QED  BY <1>1, <1>8, <1>9, <1>20, <2>1, <2>2, <2>3
<1>21. Stacked(pass, first, base, s2, o2)
  BY <1>1, <1>7, <1>8, <1>18, <1>19, <1>20 DEF Stacked
<1>. QED  BY <1>3, <1>4, <1>5, <1>21

\* And popped, so that the stack is in order again.
LEMMA LeaveStacked ==
  ASSUME NEW pass, NEW first, NEW base, NEW scopes, NEW open, Stacked(pass, first, base, scopes, open),
         open # <<>>,
         NEW s2, s2 = SubSeq(scopes, 1, Len(scopes) - open[Len(open)]),
         NEW o2, o2 = SubSeq(open, 1, Len(open) - 1)
  PROVE  Stacked(pass, first, base, s2, o2) /\ Popped(scopes, open, s2, o2)
<1>1. /\ base \in Seq(Nat) /\ scopes \in Seq(Nat) /\ open \in Seq(Nat)
      /\ first = 1 /\ pass # "expand" /\ open # <<>> => open[1] > 0
      /\ pass = "expand" => scopes = base /\ \A k \in DOMAIN open : open[k] = 0
  BY DEF Stacked
<1>2. PICK m : Sums(base, scopes, open, m)
  BY DEF Stacked
<1>3. PICK n \in Nat : Len(open) = n + 1
  <2>1. Len(open) \in Nat /\ Len(open) # 0
    BY <1>1, LenProperties, EmptySeq
  <2>2. Len(open) - 1 \in Nat /\ Len(open) = (Len(open) - 1) + 1
    BY <2>1
  <2>. QED  BY <2>2
<1>4. DOMAIN open = 1 .. (n + 1) /\ n + 1 \in DOMAIN open /\ open[n + 1] \in Nat /\ (n + 1) - 1 = n
  <2>1. DOMAIN open = 1 .. (n + 1)
    BY <1>1, <1>3, LenProperties
  <2>2. n + 1 \in DOMAIN open /\ (n + 1) - 1 = n
    BY <2>1
  <2>3. open[n + 1] \in Nat
    BY <1>1, <2>2
  <2>. QED  BY <2>1, <2>2, <2>3
<1>5. PICK l \in Nat : l = open[n + 1]
  BY <1>4
<1>6. PICK ls \in Nat : ls = Len(scopes)
  BY <1>1, LenProperties
<1>7. /\ m \in [0 .. (n + 1) -> Nat] /\ m[0] = Len(base) /\ m[n + 1] = ls
      /\ \A k \in 1 .. (n + 1) : m[k] = m[k - 1] + open[k]
      /\ \A j, k \in 0 .. (n + 1) : j <= k => m[j] <= m[k]
  BY <1>2, <1>3, <1>6 DEF Sums
<1>8. m[n] \in Nat /\ ls = m[n] + l
  <2>1. n \in 0 .. (n + 1) /\ n + 1 \in 1 .. (n + 1) /\ (n + 1) - 1 = n
    OBVIOUS
  <2>. QED  BY <1>5, <1>7, <2>1
<1>9. l \in 0 .. ls /\ ls - l = m[n] /\ ls - l \in 0 .. ls
  BY <1>8
<1>10. s2 = SubSeq(scopes, 1, ls - l)
  BY <1>3, <1>5, <1>6
<1>11. s2 \in Seq(Nat) /\ Len(s2) = ls - l /\ \A k \in 1 .. (ls - l) : s2[k] = scopes[k]
  <2>. DEFINE r == ls - l
  <2>1. r \in Nat /\ r <= ls /\ r \in 0 .. ls
    BY <1>9
  <2>. HIDE DEF r
  <2>2. s2 = SubSeq(scopes, 1, r)
    BY <1>10 DEF r
  <2>3. r \in 0 .. Len(scopes)
    BY <1>6, <2>1
  <2>4. s2 \in Seq(Nat) /\ Len(s2) = r /\ \A k \in 1 .. r : s2[k] = scopes[k]
    <3>1. PICK c \in Seq(Nat) : c = scopes
      BY <1>1
    <3>2. PICK q : q = SubSeq(c, 1, r)
      OBVIOUS
    <3>3. q \in Seq(Nat) /\ Len(q) = r /\ \A k \in 1 .. r : q[k] = c[k]
      <4>1. r \in 0 .. Len(c)
        BY <2>3, <3>1
      <4>. QED  BY <3>2, <4>1, SeqPrefix
    <3>. QED  BY <2>2, <3>1, <3>2, <3>3
  <2>. QED  BY <2>4 DEF r
<1>12. o2 = SubSeq(open, 1, n) /\ n \in 0 .. Len(open)
  BY <1>3, <1>4
<1>13. o2 \in Seq(Nat) /\ Len(o2) = n /\ DOMAIN o2 = 1 .. n /\ \A k \in 1 .. n : o2[k] = open[k]
  <2>1. PICK c \in Seq(Nat) : c = open
    BY <1>1
  <2>2. PICK q : q = SubSeq(c, 1, n)
    OBVIOUS
  <2>3. q \in Seq(Nat) /\ Len(q) = n /\ DOMAIN q = 1 .. n /\ \A k \in 1 .. n : q[k] = c[k]
    <3>1. n \in 0 .. Len(c)
      BY <1>12, <2>1
    <3>. QED  BY <2>2, <3>1, SeqPrefix
  <2>. QED  BY <1>12, <2>1, <2>2, <2>3
<1>16. \E m2 : Sums(base, s2, o2, m2)
  <2>1. PICK c \in Seq(Nat) : c = open
    BY <1>1
  <2>2. Len(s2) = Len(scopes) - c[Len(c)]
    BY <1>3, <1>5, <1>6, <1>11, <2>1
  <2>. QED  BY <1>2, <2>1, <2>2, SumsPop DEF SumsFrom
<1>17. first = 1 /\ pass # "expand" /\ o2 # <<>> => o2[1] > 0
  <2>. SUFFICES ASSUME first = 1, pass # "expand", o2 # <<>>
                PROVE  o2[1] > 0
    OBVIOUS
  <2>1. n # 0
    BY <1>13, EmptySeq
  <2>2. 1 \in 1 .. n
    BY <2>1
  <2>. QED  BY <1>1, <1>13, <2>2
<1>18. ASSUME pass = "expand"
       PROVE  s2 = base /\ \A k \in DOMAIN o2 : o2[k] = 0
  <2>1. l = 0 /\ scopes = base
    BY <1>1, <1>4, <1>5, <1>18
  <2>2. ls - l = ls
    BY <2>1
  <2>3. s2 = scopes
    <3>1. Len(s2) = Len(scopes) /\ \A k \in 1 .. Len(s2) : s2[k] = scopes[k]
      BY <1>6, <1>11, <2>2
    <3>. QED  BY <1>1, <1>11, <3>1, SeqEqual
  <2>4. \A k \in 1 .. n : k \in 1 .. (n + 1)
    OBVIOUS
  <2>. QED  BY <1>1, <1>4, <1>13, <1>18, <2>1, <2>3, <2>4
<1>19. Stacked(pass, first, base, s2, o2)
  BY <1>1, <1>11, <1>13, <1>16, <1>17, <1>18 DEF Stacked
<1>20. \A k \in DOMAIN s2 : k \in DOMAIN scopes /\ s2[k] = scopes[k]
  <2>1. DOMAIN s2 = 1 .. (ls - l) /\ DOMAIN scopes = 1 .. ls
    BY <1>1, <1>6, <1>11, LenProperties
  <2>2. \A k \in 1 .. (ls - l) : k \in 1 .. ls
    BY <1>9
  <2>. QED  BY <1>11, <2>1, <2>2
<1>21. Popped(scopes, open, s2, o2)
  <2>1. open[Len(open)] = l /\ l \in 0 .. Len(scopes) /\ Len(o2) = Len(open) - 1 /\ Len(s2) = Len(scopes) - l
    BY <1>3, <1>4, <1>5, <1>6, <1>9, <1>11, <1>13
  <2>. QED  BY <1>20, <2>1 DEF Popped
<1>. QED  BY <1>19, <1>21

\* Tables that have been added or hung do no harm to a stack.
LEMMA BoundGrows ==
  ASSUME NEW text, NEW ts, NEW ts2, Shape(ts), Grows(ts, ts2), NEW pass, NEW at, NEW scopes, NEW open,
         Bound(text, ts, pass, at, scopes, open)
  PROVE  Bound(text, ts2, pass, at, scopes, open)
<1>. SUFFICES ASSUME NEW k \in DOMAIN scopes
              PROVE  /\ scopes[k] \in DOMAIN ts2 \ {World}
                     /\ Loose(ts2, scopes[k]) => JustEntered(text, at, scopes, open, k)
                     /\ pass = "parents" => Rooted(ts2, scopes[k])
  BY DEF Bound
<1>1. /\ scopes[k] \in DOMAIN ts \ {World}
      /\ Loose(ts, scopes[k]) => JustEntered(text, at, scopes, open, k)
      /\ pass = "parents" => Rooted(ts, scopes[k])
  BY DEF Bound
<1>2. scopes[k] \in DOMAIN ts2 /\ ts2[scopes[k]].kind = ts[scopes[k]].kind
      /\ (ts[scopes[k]].parent # NoTable => ts2[scopes[k]].parent = ts[scopes[k]].parent)
  BY <1>1 DEF Grows
<1>3. Loose(ts2, scopes[k]) => Loose(ts, scopes[k])
  BY <1>2 DEF Loose
<1>4. Rooted(ts, scopes[k]) => Rooted(ts2, scopes[k])
  BY RootedGrows
<1>. QED  BY <1>1, <1>2, <1>3, <1>4

\* Nor to the stack that a frame set out with.
LEMMA BasedGrows ==
  ASSUME NEW ts, NEW ts2, Shape(ts), Grows(ts, ts2), NEW base, Based(ts, base)
  PROVE  Based(ts2, base)
<1>. SUFFICES ASSUME NEW k \in DOMAIN base
              PROVE  base[k] \in DOMAIN ts2 \ {World} /\ Rooted(ts2, base[k])
  BY DEF Based
<1>1. base[k] \in DOMAIN ts \ {World} /\ Rooted(ts, base[k])
  BY DEF Based
<1>2. Rooted(ts2, base[k])
  BY <1>1, RootedGrows
<1>. QED  BY <1>1, <1>2 DEF Grows

\* What hangs below the global table is not loose.
LEMMA RootedNotLoose ==
  ASSUME NEW ts, Shape(ts), NEW t \in DOMAIN ts \ {World}, Rooted(ts, t)
  PROVE  ts[t].parent # NoTable /\ ~Loose(ts, t)
<1>1. PICK R \in SUBSET DOMAIN ts : t \in R /\ \A v \in R : v = World \/ ts[v].parent \in R
  BY DEF Rooted
<1>2. NoTable \notin DOMAIN ts
  BY DEF Shape, NoTable
<1>. QED  BY <1>1, <1>2 DEF Loose

\* When something is visited, nothing on the stack is loose: an expansion with a copy in
\* it has a parent.
LEMMA NoneLoose ==
  ASSUME NEW text, NEW ts, Owned(text, ts), NEW pass, NEW at, NEW scopes, NEW open,
         Bound(text, ts, pass, at, scopes, open), at \in Nat, text[at].op # "end"
  PROVE  \A k \in DOMAIN scopes : ~Loose(ts, scopes[k])
<1>. SUFFICES ASSUME NEW k \in DOMAIN scopes, Loose(ts, scopes[k])
              PROVE  FALSE
  OBVIOUS
<1>1. at - 1 \in DOMAIN text /\ text[at - 1].op = "expand" /\ text[at - 1].id = scopes[k]
  BY DEF Bound, JustEntered
<1>2. PICK i \in DOMAIN text : i = at - 1 /\ i + 1 = at
  BY <1>1
<1>3. ts[text[i].id].parent # NoTable
  BY <1>1, <1>2 DEF Owned, OwnsTable
<1>. QED  BY <1>1, <1>2, <1>3 DEF Loose

\* A stack without loose tables can be taken anywhere.
LEMMA BoundJump ==
  ASSUME NEW text, NEW ts, NEW pass, NEW at, NEW scopes, NEW open,
         Bound(text, ts, pass, at, scopes, open), \A k \in DOMAIN scopes : ~Loose(ts, scopes[k]), NEW c
  PROVE  Bound(text, ts, pass, c, scopes, open)
BY DEF Bound

\* That is what pushing does.
LEMMA PushedBoth ==
  ASSUME NEW scopes \in Seq(Nat), NEW open \in Seq(Nat), NEW p \in Seq(Nat)
  PROVE  Pushed(scopes, open, p, scopes \o p, Append(open, Len(p)))
<1>1. PICK l \in Nat : l = Len(p)
  BY LenProperties
<1>2. /\ Append(open, l) \in Seq(Nat) /\ Append(open, l) # <<>>
      /\ Len(Append(open, l)) = Len(open) + 1 /\ Append(open, l)[Len(open) + 1] = l
  BY AppendProperties
<1>3. /\ scopes \o p \in Seq(Nat) /\ Len(scopes \o p) = Len(scopes) + Len(p)
      /\ \A k \in 1 .. (Len(scopes) + Len(p)) :
           (scopes \o p)[k] = IF k <= Len(scopes) THEN scopes[k] ELSE p[k - Len(scopes)]
  BY ConcatProperties
<1>. QED  BY <1>1, <1>2, <1>3 DEF Pushed

\* The stack is in order when a node is entered.
LEMMA BoundEnter ==
  ASSUME NEW text, NEW ts, NEW pass, NEW at \in Nat, at \in DOMAIN text,
         NEW scopes \in Seq(Nat), NEW open,
         Bound(text, ts, pass, at, scopes, open), \A k \in DOMAIN scopes : ~Loose(ts, scopes[k]),
         NEW p, Pushable(text, ts, pass, at, p),
         NEW s2 \in Seq(Nat), Len(s2) = Len(scopes) + Len(p),
         \A k \in 1 .. (Len(scopes) + Len(p)) : s2[k] = IF k <= Len(scopes) THEN scopes[k] ELSE p[k - Len(scopes)],
         NEW o2, o2 # <<>>, o2[Len(o2)] = Len(p)
  PROVE  Bound(text, ts, pass, at + 1, s2, o2)
<1>1. p \in Seq(Nat)
  BY DEF Pushable
<1>2. PICK lp \in Nat : lp = Len(p)
  BY <1>1, LenProperties
<1>3. PICK ls \in Nat : ls = Len(scopes)
  BY LenProperties
<1>7. /\ s2 \in Seq(Nat) /\ Len(s2) = ls + lp
      /\ \A k \in 1 .. (ls + lp) : s2[k] = IF k <= ls THEN scopes[k] ELSE p[k - ls]
  BY <1>2, <1>3
<1>8. o2 # <<>> /\ o2[Len(o2)] = lp
  BY <1>2
<1>9. DOMAIN s2 = 1 .. (ls + lp) /\ DOMAIN scopes = 1 .. ls /\ DOMAIN p = 1 .. lp
  BY <1>1, <1>2, <1>3, <1>7, LenProperties
<1>10. at \in DOMAIN text /\ (at + 1) - 1 = at
  OBVIOUS
<1>11. ASSUME NEW k \in DOMAIN s2
       PROVE  /\ s2[k] \in DOMAIN ts \ {World}
              /\ Loose(ts, s2[k]) => JustEntered(text, at + 1, s2, o2, k)
              /\ pass = "parents" => Rooted(ts, s2[k])
  <2>1. CASE k <= ls
    <3>1. k \in DOMAIN scopes /\ s2[k] = scopes[k]
      BY <1>7, <1>9, <2>1
    <3>2. /\ scopes[k] \in DOMAIN ts \ {World} /\ ~Loose(ts, scopes[k])
          /\ pass = "parents" => Rooted(ts, scopes[k])
      BY <3>1 DEF Bound
    <3>. QED  BY <3>1, <3>2
  <2>2. CASE ~(k <= ls)
    <3>1. PICK l \in DOMAIN p : l = k - ls
      <4>1. k - ls \in 1 .. lp
        BY <1>9, <2>2
      <4>. QED  BY <1>9, <4>1
    <3>2. s2[k] = p[l]
      BY <1>7, <1>9, <2>2, <3>1
    <3>3. /\ p[l] \in DOMAIN ts \ {World}
          /\ Loose(ts, p[l]) => Len(p) = 1 /\ text[at].op = "expand" /\ text[at].id = p[l]
          /\ pass = "parents" => Rooted(ts, p[l])
      BY DEF Pushable
    <3>4. ASSUME Loose(ts, p[l])
          PROVE  JustEntered(text, at + 1, s2, o2, k)
      <4>1. lp = 1 /\ l = 1
        <5>1. lp = 1
          BY <1>2, <3>3, <3>4
        <5>2. l \in 1 .. lp
          BY <1>9
        <5>. QED  BY <5>1, <5>2
      <4>2. k = ls + 1 /\ k = Len(s2)
        BY <1>7, <1>9, <3>1, <4>1
      <4>. QED  BY <1>8, <1>10, <3>2, <3>3, <3>4, <4>1, <4>2 DEF JustEntered
    <3>. QED  BY <3>2, <3>3, <3>4
  <2>. QED  BY <2>1, <2>2
<1>. QED  BY <1>11 DEF Bound

\* And when one is left.
LEMMA BoundLeave ==
  ASSUME NEW text, NEW ts, NEW pass, NEW at, NEW scopes \in Seq(Nat), NEW open \in Seq(Nat),
         Bound(text, ts, pass, at, scopes, open),
         NEW s2 \in Seq(Nat), Len(s2) = Len(scopes) - open[Len(open)], open # <<>>,
         \A k \in DOMAIN s2 : k \in DOMAIN scopes /\ s2[k] = scopes[k],
         NEW c, NEW o2
  PROVE  Bound(text, ts, pass, c, s2, o2)
<1>. SUFFICES ASSUME NEW k \in DOMAIN s2
              PROVE  /\ s2[k] \in DOMAIN ts \ {World}
                     /\ ~Loose(ts, s2[k])
                     /\ pass = "parents" => Rooted(ts, s2[k])
  BY DEF Bound
<1>1. k \in DOMAIN scopes /\ s2[k] = scopes[k]
  OBVIOUS
<1>2. /\ scopes[k] \in DOMAIN ts \ {World}
      /\ Loose(ts, scopes[k]) => JustEntered(text, at, scopes, open, k)
      /\ pass = "parents" => Rooted(ts, scopes[k])
  BY <1>1 DEF Bound
<1>3. ASSUME Loose(ts, scopes[k])
      PROVE  FALSE
  <2>1. k = Len(scopes) /\ open[Len(open)] > 0
    BY <1>2, <1>3 DEF JustEntered
  <2>2. Len(open) \in DOMAIN open
    BY LenProperties, EmptySeq
  <2>3. open[Len(open)] \in Nat /\ Len(scopes) \in Nat /\ k \in 1 .. Len(s2) /\ Len(s2) \in Nat
    BY <2>2, LenProperties
  <2>. QED  BY <2>1, <2>3
<1>. QED  BY <1>1, <1>2, <1>3

\* What a frame is made of.
LEMMA FrameFields ==
  ASSUME NEW text, NEW ts, NEW fr, FrameOK(text, ts, fr)
  PROVE  /\ fr \in FrameSet /\ fr.pass \in Passes /\ fr.first \in Nat /\ fr.at \in Nat
         /\ fr.base \in Seq(Nat) /\ fr.scopes \in Seq(Nat) /\ fr.open \in Seq(Nat)
         /\ Standing(text, fr.pass, fr.first, fr.at, Len(fr.open))
         /\ Stacked(fr.pass, fr.first, fr.base, fr.scopes, fr.open)
         /\ Bound(text, ts, fr.pass, fr.at, fr.scopes, fr.open)
         /\ Based(ts, fr.base)
BY DEF FrameOK, FrameSet

\* The tables grow under a frame.
LEMMA FrameGrows ==
  ASSUME NEW text, NEW ts, NEW ts2, Shape(ts), Grows(ts, ts2), NEW fr, FrameOK(text, ts, fr)
  PROVE  FrameOK(text, ts2, fr)
<1>1. Bound(text, ts2, fr.pass, fr.at, fr.scopes, fr.open)
  BY FrameFields, BoundGrows
<1>2. Based(ts2, fr.base)
  BY FrameFields, BasedGrows
<1>. QED  BY <1>1, <1>2 DEF FrameOK

\* A visitor that jumps.
LEMMA FrameJumps ==
  ASSUME NEW text, text \in Seq(Node), NEW ts, Owned(text, ts), NEW fr, FrameOK(text, ts, fr),
         text[fr.at].op # "end", NEW c, Jump(text, fr.at, c)
  PROVE  FrameOK(text, ts, GoneTo(fr, c)) /\ c \in Nat /\ c > fr.at
<1>1. PICK f2 : f2 = GoneTo(fr, c)
  OBVIOUS
<1>2. c \in Nat /\ c > fr.at
  BY FrameFields DEF Jump
<1>3. /\ f2 \in FrameSet /\ f2.pass = fr.pass /\ f2.first = fr.first /\ f2.at = c /\ f2.base = fr.base
      /\ f2.scopes = fr.scopes /\ f2.open = fr.open
  <2>1. f2 = [fr EXCEPT !.at = c]
    BY <1>1 DEF GoneTo
  <2>2. fr \in FrameSet
    BY FrameFields
  <2>. QED  BY <1>2, <2>1, <2>2 DEF FrameSet
<1>4. \A k \in DOMAIN fr.scopes : ~Loose(ts, fr.scopes[k])
  BY FrameFields, NoneLoose
<1>5. Bound(text, ts, fr.pass, c, fr.scopes, fr.open)
  BY <1>4, FrameFields, BoundJump
<1>6. Standing(text, fr.pass, fr.first, c, Len(fr.open))
  BY FrameFields, JumpStanding
<1>. QED  BY <1>1, <1>2, <1>3, <1>5, <1>6, FrameFields DEF FrameOK

\* A visitor that enters a node.
LEMMA FrameEnters ==
  ASSUME NEW text, text \in Seq(Node), NEW ts, Owned(text, ts), NEW fr, FrameOK(text, ts, fr),
         fr.at \in DOMAIN text, text[fr.at].op \in Opener, text[fr.at].op = "template" => fr.pass = "record",
         NEW p, Pushable(text, ts, fr.pass, fr.at, p), fr.pass = "expand" => p = <<>>,
         fr.first = 1 /\ fr.pass # "expand" /\ fr.open = <<>> => p # <<>>
  PROVE  FrameOK(text, ts, Entering(fr, p))
<1>1. p \in Seq(Nat)
  BY DEF Pushable
<1>2. PICK s2 : s2 = fr.scopes \o p
  OBVIOUS
<1>3. PICK o2 : o2 = Append(fr.open, Len(p))
  OBVIOUS
<1>4. /\ s2 \in Seq(Nat) /\ Len(s2) = Len(fr.scopes) + Len(p)
      /\ \A k \in 1 .. (Len(fr.scopes) + Len(p)) :
           s2[k] = IF k <= Len(fr.scopes) THEN fr.scopes[k] ELSE p[k - Len(fr.scopes)]
      /\ o2 \in Seq(Nat) /\ o2 # <<>> /\ Len(o2) = Len(fr.open) + 1 /\ o2[Len(fr.open) + 1] = Len(p)
  <2>1. PICK s \in Seq(Nat) : s = fr.scopes
    BY FrameFields
  <2>2. PICK o \in Seq(Nat) : o = fr.open
    BY FrameFields
  <2>3. PICK q \in Seq(Nat) : q = p
    BY <1>1
  <2>4. s2 = s \o q /\ o2 = Append(o, Len(q))
    BY <1>2, <1>3, <2>1, <2>2, <2>3
  <2>5. Pushed(s, o, q, s \o q, Append(o, Len(q)))
    BY PushedBoth
  <2>6. Pushed(s, o, q, s2, o2)
    BY <2>4, <2>5
  <2>. QED  BY <2>1, <2>2, <2>3, <2>6 DEF Pushed
<1>5. PICK f2 : f2 = Entering(fr, p)
  OBVIOUS
<1>6. /\ f2 \in FrameSet /\ f2.pass = fr.pass /\ f2.first = fr.first /\ f2.at = fr.at + 1 /\ f2.base = fr.base
      /\ f2.scopes = s2 /\ f2.open = o2
  <2>1. f2 = [fr EXCEPT !.at = fr.at + 1, !.scopes = s2, !.open = o2]
    BY <1>2, <1>3, <1>5 DEF Entering
  <2>2. fr \in FrameSet /\ fr.at + 1 \in Nat
    BY FrameFields
  <2>. QED  BY <1>4, <2>1, <2>2 DEF FrameSet
<1>7. \A k \in DOMAIN fr.scopes : ~Loose(ts, fr.scopes[k])
  <2>1. text[fr.at].op # "end"
    BY DEF Opener
  <2>. QED  BY <2>1, FrameFields, NoneLoose
<1>8. Bound(text, ts, fr.pass, fr.at + 1, s2, o2)
  <2>1. PICK s \in Seq(Nat), at \in Nat : s = fr.scopes /\ at = fr.at
    BY FrameFields
  <2>2. Bound(text, ts, fr.pass, at, s, fr.open)
    BY <2>1, FrameFields
  <2>3. o2[Len(o2)] = Len(p)
    BY <1>4
  <2>4. Bound(text, ts, fr.pass, at + 1, s2, o2)
    BY <1>4, <1>7, <2>1, <2>2, <2>3, BoundEnter
  <2>. QED  BY <2>1, <2>4
<1>9. Standing(text, fr.pass, fr.first, fr.at + 1, Len(o2))
  <2>1. PICK n \in Int : n = Len(fr.open)
    BY FrameFields, LenProperties
  <2>2. Standing(text, fr.pass, fr.first, fr.at, n)
    BY <2>1, FrameFields
  <2>3. Standing(text, fr.pass, fr.first, fr.at + 1, n + 1)
    BY <2>2, EnterStanding
  <2>. QED  BY <1>4, <2>1, <2>3
<1>10. Stacked(fr.pass, fr.first, fr.base, s2, o2)
  BY <1>1, <1>2, <1>3, FrameFields, EnterStacked
<1>11. FrameOK(text, ts, f2)
  BY <1>6, <1>8, <1>9, <1>10, FrameFields DEF FrameOK
<1>. QED  BY <1>5, <1>11

\* A visitor that leaves one.
LEMMA FrameLeaves ==
  ASSUME NEW text, text \in Seq(Node), NEW ts, NEW fr, FrameOK(text, ts, fr),
         fr.at \in DOMAIN text, text[fr.at].op = "end", fr.open # <<>>
  PROVE  FrameOK(text, ts, Leaving(fr))
<1>1. PICK s2 : s2 = SubSeq(fr.scopes, 1, Len(fr.scopes) - fr.open[Len(fr.open)])
  OBVIOUS
<1>2. PICK o2 : o2 = SubSeq(fr.open, 1, Len(fr.open) - 1)
  OBVIOUS
<1>3. /\ Stacked(fr.pass, fr.first, fr.base, s2, o2) /\ Len(o2) = Len(fr.open) - 1
      /\ Len(s2) = Len(fr.scopes) - fr.open[Len(fr.open)]
      /\ \A k \in DOMAIN s2 : k \in DOMAIN fr.scopes /\ s2[k] = fr.scopes[k]
  <2>1. PICK s \in Seq(Nat) : s = fr.scopes
    BY FrameFields
  <2>2. PICK o \in Seq(Nat) : o = fr.open /\ o # <<>>
    BY FrameFields
  <2>3. PICK b : b = fr.base
    OBVIOUS
  <2>4. PICK q, g : q = fr.pass /\ g = fr.first
    OBVIOUS
  <2>5. Stacked(q, g, b, s, o) /\ o # <<>>
    BY <2>1, <2>2, <2>3, <2>4, FrameFields
  <2>6. s2 = SubSeq(s, 1, Len(s) - o[Len(o)]) /\ o2 = SubSeq(o, 1, Len(o) - 1)
    BY <1>1, <1>2, <2>1, <2>2
  <2>7. Stacked(q, g, b, s2, o2) /\ Popped(s, o, s2, o2)
    BY <2>5, <2>6, LeaveStacked
  <2>. QED  BY <2>1, <2>2, <2>3, <2>4, <2>7 DEF Popped
<1>4. s2 \in Seq(Nat) /\ o2 \in Seq(Nat)
  BY <1>3 DEF Stacked
<1>5. PICK f2 : f2 = Leaving(fr)
  OBVIOUS
<1>6. /\ f2 \in FrameSet /\ f2.pass = fr.pass /\ f2.first = fr.first /\ f2.at = fr.at + 1 /\ f2.base = fr.base
      /\ f2.scopes = s2 /\ f2.open = o2
  <2>1. f2 = [fr EXCEPT !.at = fr.at + 1, !.open = o2, !.scopes = s2]
    BY <1>1, <1>2, <1>5 DEF Leaving
  <2>2. fr \in FrameSet /\ fr.at + 1 \in Nat
    BY FrameFields
  <2>. QED  BY <1>4, <2>1, <2>2 DEF FrameSet
<1>7. Bound(text, ts, fr.pass, fr.at + 1, s2, o2)
  <2>1. PICK s \in Seq(Nat), o \in Seq(Nat) : s = fr.scopes /\ o = fr.open
    BY FrameFields
  <2>2. /\ Bound(text, ts, fr.pass, fr.at, s, o) /\ Len(s2) = Len(s) - o[Len(o)] /\ o # <<>>
        /\ \A k \in DOMAIN s2 : k \in DOMAIN s /\ s2[k] = s[k]
    BY <1>3, <2>1, FrameFields
  <2>. QED  BY <1>4, <2>2, BoundLeave
<1>8. Standing(text, fr.pass, fr.first, fr.at + 1, Len(o2))
  <2>1. PICK n \in Nat \ {0} : n = Len(fr.open)
    BY FrameFields, LenProperties, EmptySeq
  <2>2. Standing(text, fr.pass, fr.first, fr.at, n)
    BY <2>1, FrameFields
  <2>3. Standing(text, fr.pass, fr.first, fr.at + 1, n - 1)
    BY <2>2, LeaveStanding
  <2>. QED  BY <1>3, <2>1, <2>3
<1>9. FrameOK(text, ts, f2)
  BY <1>3, <1>6, <1>7, <1>8, FrameFields DEF FrameOK
<1>. QED  BY <1>5, <1>9

\* A visitor that sets out, over the module, over a copy or for another pass.
LEMMA FrameSetsOut ==
  ASSUME NEW text, Len(text) \in Nat, NEW ts, Shape(ts), NEW pass \in Passes, NEW first \in 1 .. (Len(text) + 1),
         NEW base \in Seq(Nat), Based(ts, base), pass # "record" => Live(text, first)
  PROVE  FrameOK(text, ts, [pass |-> pass, first |-> first, at |-> first, base |-> base, scopes |-> base,
                            open |-> <<>>])
<1>1. PICK o : o = <<>>
  OBVIOUS
<1>2. o \in Seq(Nat) /\ Len(o) = 0 /\ DOMAIN o = {}
  BY <1>1
<1>3. PICK n \in Nat : n = Len(base)
  BY LenProperties
<1>4. Stacked(pass, first, base, base, o)
  <2>. DEFINE m == [k \in 0 .. 0 |-> n]
  <2>1. m \in [0 .. 0 -> Nat] /\ m[0] = n /\ \A k \in 0 .. 0 : m[k] = n
    OBVIOUS
  <2>. HIDE DEF m
  <2>2. \A j, k \in 0 .. 0 : m[j] <= m[k]
    <3>1. n <= n
      OBVIOUS
    <3>. QED  BY <2>1, <3>1
  <2>3. \A k \in 1 .. 0 : FALSE
    OBVIOUS
  <2>4. Sums(base, base, o, m)
    BY <1>2, <1>3, <2>1, <2>2, <2>3 DEF Sums
  <2>. QED  BY <1>1, <1>2, <2>4 DEF Stacked
<1>5. Bound(text, ts, pass, first, base, o)
  <2>1. ASSUME NEW k \in DOMAIN base
        PROVE  base[k] \in DOMAIN ts \ {World} /\ Rooted(ts, base[k]) /\ ~Loose(ts, base[k])
    <3>1. base[k] \in DOMAIN ts \ {World} /\ Rooted(ts, base[k])
      BY DEF Based
    <3>. QED  BY <3>1, RootedNotLoose
  <2>. QED  BY <2>1 DEF Bound
<1>6. Standing(text, pass, first, first, Len(o))
  BY <1>2, SetOutStanding
<1>7. PICK fr : fr = [pass |-> pass, first |-> first, at |-> first, base |-> base, scopes |-> base, open |-> o]
  OBVIOUS
<1>8. fr \in FrameSet
  BY <1>2, <1>7 DEF FrameSet
<1>9. FrameOK(text, ts, fr)
  BY <1>4, <1>5, <1>6, <1>7, <1>8 DEF FrameOK
<1>. QED  BY <1>1, <1>7, <1>9

\* When a visitor has seen everything there is, nothing is open.
LEMMA WalkedOpen ==
  ASSUME NEW text, TextInv(text), NEW pass, NEW first, NEW at, NEW open \in Seq(Nat),
         Standing(text, pass, first, at, Len(open)), at \notin DOMAIN text
  PROVE  open = <<>>
<1>1. text \in Seq(Node) /\ text # <<>> /\ Height(text, Len(text)) = 0
  BY DEF TextInv
<1>2. Len(text) \in Nat /\ DOMAIN text = 1 .. Len(text)
  BY <1>1, TextPlaces
<1>3. at = Len(text) + 1 /\ at - 1 = Len(text)
  BY <1>2 DEF Standing
<1>4. first - 1 \in 0 .. Len(text) /\ Len(open) = 0 - Height(text, first - 1)
  <2>1. first - 1 < at /\ first \in Nat \ {0}
    BY DEF Standing, Within
  <2>. QED  BY <1>1, <1>2, <1>3, <2>1 DEF Standing
<1>5. Height(text, first - 1) >= 0 /\ Height(text, first - 1) \in Int
  BY <1>4, HeightsPositive, HeightStep
<1>6. Len(open) \in Nat
  BY LenProperties
<1>7. Len(open) = 0
  <2>1. \A h \in Int : \A l \in Nat : h >= 0 /\ l = 0 - h => l = 0
    OBVIOUS
  <2>. QED  BY <1>4, <1>5, <1>6, <2>1
<1>. QED  BY <1>7, EmptySeq

----
\* The runs of passes.

\* The frame at work.
LEMMA LastFrame ==
  ASSUME NEW text, NEW ts, NEW frs, Frames(text, ts, frs)
  PROVE  /\ Len(frs) \in Nat \ {0} /\ DOMAIN frs = 1 .. Len(frs) /\ Len(frs) \in DOMAIN frs
         /\ FrameOK(text, ts, frs[Len(frs)])
         /\ Len(frs) = 1 => frs[Len(frs)].first = 1 /\ frs[Len(frs)].base = <<>>
         /\ Len(frs) > 1 => /\ Len(frs) - 1 \in DOMAIN frs /\ FrameOK(text, ts, frs[Len(frs) - 1])
                            /\ frs[Len(frs) - 1].pass = "expand" /\ frs[Len(frs) - 1].at \in DOMAIN text
                            /\ text[frs[Len(frs) - 1].at].op = "expand"
                            /\ frs[Len(frs)].first = frs[Len(frs) - 1].at + 1 /\ frs[Len(frs)].base # <<>>
                            /\ frs[Len(frs)].pass \notin {"types", "symbols"}
<1>1. PICK s \in Seq(FrameSet) : s = frs /\ s # <<>>
  BY DEF Frames, Chain
<1>2. PICK n \in Nat \ {0} : n = Len(s) /\ DOMAIN s = 1 .. n
  BY <1>1, LenProperties, EmptySeq
<1>3. n \in DOMAIN frs /\ DOMAIN frs = 1 .. n /\ n = Len(frs)
  BY <1>1, <1>2
<1>4. ASSUME n > 1
      PROVE  n - 1 \in DOMAIN frs /\ (n - 1) + 1 = n /\ (n - 1) + 1 \in DOMAIN frs
  BY <1>3, <1>4
<1>. QED  BY <1>3, <1>4 DEF Frames, Chain

\* The runs of passes are in order then.
LEMMA LastMoves ==
  ASSUME NEW text, NEW ts, NEW ts2, NEW frs, Frames(text, ts, frs), Shape(ts), Grows(ts, ts2),
         NEW f2, Advances(text, ts2, frs, f2),
         NEW frs2, Replaces(frs, f2, frs2)
  PROVE  Frames(text, ts2, frs2) /\ Len(frs2) = Len(frs) /\ frs2[Len(frs2)] = f2
<1>1. Chain(text, frs) /\ \A f \in DOMAIN frs : FrameOK(text, ts, frs[f])
  BY DEF Frames
<1>2. PICK s \in Seq(FrameSet) : s = frs /\ s # <<>>
  BY <1>1 DEF Chain
<1>3. PICK n \in Nat \ {0} : n = Len(s) /\ DOMAIN s = 1 .. n
  BY <1>2, LenProperties, EmptySeq
<1>4. /\ f2 \in FrameSet /\ FrameOK(text, ts2, f2)
      /\ f2.first = frs[Len(frs)].first /\ f2.base = frs[Len(frs)].base
      /\ Len(frs) > 1 => f2.pass \notin {"types", "symbols"}
  BY DEF Advances, FrameOK
<1>5. PICK r : r = [s EXCEPT ![Len(s)] = f2]
  OBVIOUS
<1>6. /\ r \in Seq(FrameSet) /\ r # <<>> /\ Len(r) = Len(s) /\ DOMAIN r = DOMAIN s
      /\ r[Len(r)] = f2 /\ \A i \in DOMAIN s : r[i] = IF i = Len(s) THEN f2 ELSE s[i]
  BY <1>2, <1>4, <1>5, SeqReplaceLast
<1>7. /\ frs2 = r /\ frs2 \in Seq(FrameSet) /\ frs2 # <<>> /\ DOMAIN frs2 = 1 .. n /\ DOMAIN frs = 1 .. n
      /\ n = Len(frs) /\ Len(frs2) = n /\ frs2[n] = f2
  BY <1>2, <1>3, <1>5, <1>6 DEF Replaces
<1>8. \A i \in 1 .. n : i # n => frs2[i] = frs[i]
  BY <1>2, <1>3, <1>6, <1>7
<1>9. \A i \in 1 .. n : frs2[i].first = frs[i].first /\ frs2[i].base = frs[i].base
  BY <1>4, <1>7, <1>8
<1>10. ASSUME NEW f \in 1 .. n
       PROVE  FrameOK(text, ts2, frs2[f])
  <2>1. FrameOK(text, ts2, frs[f])
    BY <1>1, <1>7, FrameGrows
  <2>. QED  BY <1>4, <1>7, <1>8, <2>1
<1>11. ASSUME NEW f \in 1 .. n, f + 1 \in 1 .. n
       PROVE  /\ frs2[f].pass = "expand" /\ frs2[f].at \in DOMAIN text /\ text[frs2[f].at].op = "expand"
              /\ frs2[f + 1].first = frs2[f].at + 1 /\ frs2[f + 1].base # <<>>
              /\ frs2[f + 1].pass \notin {"types", "symbols"}
  <2>1. f # n
    BY <1>11
  <2>2. frs2[f] = frs[f]
    BY <1>8, <2>1
  <2>3. /\ frs[f].pass = "expand" /\ frs[f].at \in DOMAIN text /\ text[frs[f].at].op = "expand"
        /\ frs[f + 1].first = frs[f].at + 1 /\ frs[f + 1].base # <<>>
        /\ frs[f + 1].pass \notin {"types", "symbols"}
    BY <1>1, <1>7, <1>11 DEF Chain
  <2>4. frs2[f + 1].pass \notin {"types", "symbols"}
    <3>1. CASE f + 1 = n
      <4>1. n > 1
        BY <3>1
      <4>. QED  BY <1>4, <1>7, <3>1, <4>1
    <3>2. CASE f + 1 # n
      BY <1>8, <1>11, <2>3, <3>2
    <3>. QED  BY <3>1, <3>2
  <2>. QED  BY <1>9, <1>11, <2>2, <2>3, <2>4
<1>12. ASSUME NEW f \in 1 .. n, NEW g \in 1 .. n, f < g
       PROVE  frs2[f].at < frs2[g].first
  <2>1. f # n
    BY <1>12
  <2>2. frs2[f] = frs[f]
    BY <1>8, <2>1
  <2>3. frs[f].at < frs[g].first
    BY <1>1, <1>7, <1>12 DEF Chain
  <2>. QED  BY <1>9, <2>2, <2>3
<1>13. frs2[1].first = 1 /\ frs2[1].base = <<>>
  <2>1. 1 \in 1 .. n /\ frs[1].first = 1 /\ frs[1].base = <<>>
    BY <1>1 DEF Chain
  <2>. QED  BY <1>9, <2>1
<1>14. Chain(text, frs2)
  BY <1>7, <1>11, <1>12, <1>13 DEF Chain
<1>. QED  BY <1>7, <1>10, <1>14 DEF Frames

\* What a frame set out with is on its stack, and where something is open over the
\* module there is something on it.
LEMMA StackHeight ==
  ASSUME NEW pass, NEW first, NEW base, NEW scopes, NEW open, Stacked(pass, first, base, scopes, open)
  PROVE  /\ Len(base) <= Len(scopes) /\ Len(base) \in Nat /\ Len(scopes) \in Nat
         /\ first = 1 /\ pass # "expand" /\ open # <<>> => Len(scopes) > 0
<1>1. /\ base \in Seq(Nat) /\ scopes \in Seq(Nat) /\ open \in Seq(Nat)
      /\ first = 1 /\ pass # "expand" /\ open # <<>> => open[1] > 0
  BY DEF Stacked
<1>2. PICK m : Sums(base, scopes, open, m)
  BY DEF Stacked
<1>3. PICK n \in Nat : n = Len(open) /\ DOMAIN open = 1 .. n
  BY <1>1, LenProperties
<1>4. /\ m \in [0 .. n -> Nat] /\ m[0] = Len(base) /\ m[n] = Len(scopes)
      /\ \A k \in 1 .. n : m[k] = m[k - 1] + open[k]
      /\ \A j, k \in 0 .. n : j <= k => m[j] <= m[k]
  BY <1>2, <1>3 DEF Sums
<1>5. 0 \in 0 .. n /\ n \in 0 .. n /\ 0 <= n
  OBVIOUS
<1>6. ASSUME first = 1, pass # "expand", open # <<>>
      PROVE  Len(scopes) > 0
  <2>1. n # 0
    BY <1>1, <1>3, <1>6, EmptySeq
  <2>2. 1 \in 1 .. n /\ 1 \in 0 .. n /\ 1 <= n /\ 1 - 1 = 0
    BY <2>1
  <2>3. open[1] \in Nat /\ open[1] > 0
    BY <1>1, <1>3, <1>6, <2>2
  <2>4. m[1] = m[0] + open[1] /\ m[0] \in Nat /\ m[1] \in Nat /\ m[n] \in Nat
    <3>1. m[1] = m[1 - 1] + open[1]
      BY <1>4, <2>2
    <3>. QED  BY <1>4, <1>5, <2>2, <3>1
  <2>5. m[1] <= m[n]
    BY <1>4, <1>5, <2>2
  <2>. QED  BY <1>4, <2>3, <2>4, <2>5
<1>7. m[0] <= m[n]
  BY <1>4, <1>5
<1>8. Len(base) \in Nat /\ Len(scopes) \in Nat
  BY <1>1, LenProperties
<1>. QED  BY <1>4, <1>6, <1>7, <1>8

\* Behind the first node of the module something is open.
LEMMA OpenInModule ==
  ASSUME NEW text, TextInv(text), NEW ts, NEW fr, FrameOK(text, ts, fr), fr.first = 1,
         fr.at \in DOMAIN text, text[fr.at].op # "module"
  PROVE  fr.open # <<>>
<1>0. Standing(text, fr.pass, fr.first, fr.at, Len(fr.open)) /\ fr.open \in Seq(Nat)
  BY FrameFields
<1>1. text \in Seq(Node) /\ text # <<>> /\ text[1].op = "module"
      /\ \A k \in 1 .. (Len(text) - 1) : Height(text, k) > 0
  BY DEF TextInv
<1>2. DOMAIN text = 1 .. Len(text) /\ Len(text) \in Nat
  BY <1>1, TextPlaces
<1>3. fr.at # 1
  BY <1>1
<1>4. fr.at - 1 \in 1 .. (Len(text) - 1) /\ fr.first - 1 = 0
  BY <1>2, <1>3
<1>5. Height(text, fr.at - 1) > 0 /\ Height(text, 0) = 0 /\ Height(text, fr.at - 1) \in Int
  <2>1. fr.at - 1 \in Nat
    BY <1>4
  <2>. QED  BY <1>1, <1>4, <2>1, HeightStep
<1>6. Len(fr.open) = Height(text, fr.at - 1) - Height(text, fr.first - 1)
  BY <1>0 DEF Standing
<1>7. Len(fr.open) > 0
  BY <1>4, <1>5, <1>6
<1>8. fr.open = <<>> => Len(fr.open) = 0
  BY EmptySeq
<1>. QED  BY <1>7, <1>8

\* So whoever asks for the table on top of the stack finds one.
LEMMA SomethingOnTop ==
  ASSUME NEW text, TextInv(text), NEW ts, NEW fr, FrameOK(text, ts, fr), fr.first = 1 \/ fr.base # <<>>,
         fr.at \in DOMAIN text, text[fr.at].op # "module", fr.pass # "expand"
  PROVE  /\ Len(fr.scopes) \in DOMAIN fr.scopes /\ fr.scopes # <<>>
         /\ fr.open = <<>> => fr.base # <<>>
<1>1. /\ Standing(text, fr.pass, fr.first, fr.at, Len(fr.open))
      /\ Stacked(fr.pass, fr.first, fr.base, fr.scopes, fr.open)
      /\ fr.scopes \in Seq(Nat) /\ fr.base \in Seq(Nat) /\ fr.open \in Seq(Nat)
  BY FrameFields
<1>2. /\ Len(fr.base) <= Len(fr.scopes) /\ Len(fr.base) \in Nat /\ Len(fr.scopes) \in Nat
      /\ fr.first = 1 /\ fr.pass # "expand" /\ fr.open # <<>> => Len(fr.scopes) > 0
  BY <1>1, StackHeight
<1>3. ASSUME fr.first = 1
      PROVE  fr.open # <<>>
  BY <1>3, OpenInModule
<1>4. Len(fr.scopes) > 0
  <2>1. CASE fr.first = 1
    BY <1>2, <1>3, <2>1
  <2>2. CASE fr.base # <<>>
    <3>1. Len(fr.base) # 0
      BY <1>1, <2>2, EmptySeq
    <3>. QED  BY <1>2, <3>1
  <2>. QED  BY <2>1, <2>2
<1>5. Len(fr.scopes) \in DOMAIN fr.scopes
  BY <1>1, <1>2, <1>4, LenProperties
<1>6. fr.scopes # <<>>
  BY <1>4, EmptySeq
<1>. QED  BY <1>3, <1>5, <1>6

\* The table on top of the stack, and the scope it stands for.
LEMMA TopAndScope ==
  ASSUME NEW text, TextInv(text), NEW ts, TableInv(text, ts), NEW fr, FrameOK(text, ts, fr),
         fr.first = 1 \/ fr.base # <<>>, fr.at \in DOMAIN text, text[fr.at].op \notin {"module", "end"},
         fr.pass # "expand", NEW t, t = fr.scopes[Len(fr.scopes)], NEW u, u = OutsideExpansions(ts, t)
  PROVE  /\ t \in DOMAIN ts \ {World} /\ u \in DOMAIN ts \ {World} /\ ts[u].kind # "TemplateParameter"
         /\ fr.pass = "parents" => Rooted(ts, t) /\ Rooted(ts, u)
<1>1. /\ Bound(text, ts, fr.pass, fr.at, fr.scopes, fr.open) /\ fr.at \in Nat
  BY FrameFields
<1>2. \A k \in DOMAIN fr.scopes : ~Loose(ts, fr.scopes[k])
  <2>1. Owned(text, ts) /\ text[fr.at].op # "end"
    BY DEF TableInv
  <2>. QED  BY <1>1, <2>1, NoneLoose
<1>3. Len(fr.scopes) \in DOMAIN fr.scopes
  BY SomethingOnTop
<1>4. t \in DOMAIN ts \ {World} /\ ~Loose(ts, t) /\ (fr.pass = "parents" => Rooted(ts, t))
  BY <1>1, <1>2, <1>3 DEF Bound
<1>5. /\ u \in DOMAIN ts /\ ts[u].kind # "TemplateParameter" /\ u # World
      /\ Rooted(ts, t) => Rooted(ts, u)
  <2>1. Shape(ts) /\ Ranked(ts) /\ t \in DOMAIN ts /\ ~(ts[t].kind = "TemplateParameter" /\ ts[t].parent = NoTable)
    BY <1>4 DEF TableInv, Loose
  <2>. QED  BY <1>4, <2>1, OutsideIs
<1>. QED  BY <1>4, <1>5

\* Nothing is open there, and the visitor has seen everything.
LEMMA DoneIs ==
  ASSUME NEW text, TextInv(text), NEW ts, NEW fr, FrameOK(text, ts, fr), Done(text, fr)
  PROVE  /\ fr.open = <<>> /\ Height(text, fr.at - 1) = Height(text, fr.first - 1)
         /\ \A i \in DOMAIN text : Within(text, fr.first - 1, i) => i <= fr.at
<1>1. /\ Standing(text, fr.pass, fr.first, fr.at, Len(fr.open)) /\ fr.open \in Seq(Nat) /\ fr.at \in Nat /\ fr.first \in Nat
  BY FrameFields
<1>2. text \in Seq(Node) /\ text # <<>>
  BY DEF TextInv
<1>3. DOMAIN text = 1 .. Len(text) /\ Len(text) \in Nat
  BY <1>2, TextPlaces
<1>4. fr.open = <<>>
  <2>1. CASE fr.at \in DOMAIN text
    BY <2>1 DEF Done
  <2>2. CASE fr.at \notin DOMAIN text
    BY <1>1, <2>2, WalkedOpen
  <2>. QED  BY <2>1, <2>2
<1>5. /\ fr.first - 1 \in Nat /\ fr.at \in 1 .. (Len(text) + 1) /\ Within(text, fr.first - 1, fr.at)
      /\ Len(fr.open) = Height(text, fr.at - 1) - Height(text, fr.first - 1)
  BY <1>1 DEF Standing
<1>6. Height(text, fr.at - 1) = Height(text, fr.first - 1)
  <2>1. Len(fr.open) = 0
    BY <1>4, EmptySeq
  <2>2. fr.at - 1 \in Nat
    BY <1>5
  <2>3. Height(text, fr.at - 1) \in Int /\ Height(text, fr.first - 1) \in Int
    BY <1>5, <2>2, HeightStep
  <2>. QED  BY <1>5, <2>1, <2>3
<1>7. ASSUME NEW i \in DOMAIN text, Within(text, fr.first - 1, i)
      PROVE  i <= fr.at
  <2>. SUFFICES ASSUME fr.at < i
                PROVE  FALSE
    BY <1>1, <1>3
  <2>1. fr.at \in DOMAIN text /\ fr.at \in (fr.first - 1) .. (i - 1)
    BY <1>1, <1>3, <1>5 DEF Within
  <2>2. text[fr.at].op = "end"
    BY <2>1 DEF Done
  <2>3. Height(text, fr.at) >= Height(text, fr.first - 1)
    BY <1>7, <2>1 DEF Within
  <2>4. Height(text, fr.at) = Height(text, fr.at - 1) - 1
    BY <1>2, <2>1, <2>2, LeaveEncloses
  <2>5. Height(text, fr.first - 1) \in Int
    BY <1>5, HeightStep
  <2>. QED  BY <1>6, <2>3, <2>4, <2>5
<1>. QED  BY <1>4, <1>6, <1>7

\* The sizes, and what stays where it is.
LEMMA InsertedSizes ==
  ASSUME NEW text, NEW new, NEW a, NEW s, NEW n, NEW fresh, TextInv(text), Inserts(text, new, a, s, n, fresh)
  PROVE  /\ a \in Nat /\ n \in Nat /\ Len(text) \in Nat /\ a < Len(text) /\ a # 0
         /\ DOMAIN text = 1 .. Len(text) /\ DOMAIN new = 1 .. (Len(text) + n)
         /\ Len(new) = Len(text) + n /\ (\A i \in 1 .. a : new[i] = text[i]) /\ text[a].op = "expand"
<1>1. /\ a \in Nat /\ n \in Nat /\ Len(text) \in Nat /\ a < Len(text) /\ a # 0
      /\ DOMAIN text = 1 .. Len(text) /\ DOMAIN new = 1 .. (Len(text) + n)
  BY InsertedPlaces
<1>2. Len(new) = Len(text) + n /\ (\A i \in 1 .. a : new[i] = text[i]) /\ text[a].op = "expand"
  BY DEF Inserts
<1>. QED  BY <1>1, <1>2

\* A copy is inserted behind where a visitor stands: it stands as before.
LEMMA FrameInserted ==
  ASSUME NEW text, NEW new, NEW a, NEW s, NEW n, NEW fresh, TextInv(text), Inserts(text, new, a, s, n, fresh),
         NEW ts, NEW fr, FrameOK(text, ts, fr), fr.at <= a
  PROVE  FrameOK(new, ts, fr)
<1>1. /\ a \in Nat /\ n \in Nat /\ Len(text) \in Nat /\ a < Len(text)
      /\ DOMAIN text = 1 .. Len(text) /\ DOMAIN new = 1 .. (Len(text) + n)
      /\ Len(new) = Len(text) + n /\ \A i \in 1 .. a : new[i] = text[i]
  BY InsertedSizes
<1>2. /\ Standing(text, fr.pass, fr.first, fr.at, Len(fr.open)) /\ fr.at \in Nat /\ fr.first \in Nat
      /\ Bound(text, ts, fr.pass, fr.at, fr.scopes, fr.open)
  BY FrameFields
<1>3. /\ fr.first \in Nat \ {0} /\ fr.at \in 1 .. (Len(text) + 1) /\ Within(text, fr.first - 1, fr.at)
      /\ Len(fr.open) = Height(text, fr.at - 1) - Height(text, fr.first - 1)
      /\ fr.pass # "record" => Live(text, fr.at)
  BY <1>2 DEF Standing
<1>4. fr.first - 1 \in Nat /\ fr.first - 1 < fr.at
  BY <1>3 DEF Within
<1>5. Within(new, fr.first - 1, fr.at) /\ (Live(new, fr.at) <=> Live(text, fr.at))
  BY <1>2, <1>3, <1>4, InsertedBefore
<1>6. fr.at - 1 \in 0 .. a /\ fr.first - 1 \in 0 .. a
  BY <1>1, <1>3, <1>4
<1>7. Height(new, fr.at - 1) = Height(text, fr.at - 1) /\ Height(new, fr.first - 1) = Height(text, fr.first - 1)
  BY <1>6, InsertedHeights
<1>8. fr.at \in 1 .. (Len(new) + 1)
  BY <1>1, <1>3
<1>9. Standing(new, fr.pass, fr.first, fr.at, Len(fr.open))
  BY <1>3, <1>5, <1>7, <1>8 DEF Standing
<1>10. ASSUME fr.at - 1 \in DOMAIN text
       PROVE  fr.at - 1 \in DOMAIN new /\ new[fr.at - 1] = text[fr.at - 1]
  BY <1>1, <1>3, <1>10
<1>11. Bound(new, ts, fr.pass, fr.at, fr.scopes, fr.open)
  BY <1>2, <1>10 DEF Bound, JustEntered
<1>. QED  BY <1>9, <1>11, FrameFields DEF FrameOK

\* The runs of passes are in order with the new one.
LEMMA FramesPushed ==
  ASSUME NEW text, NEW new, NEW a, NEW s, NEW n, NEW fresh, TextInv(text), Inserts(text, new, a, s, n, fresh),
         NEW ts, NEW ts2, NEW frs, Waits(text, ts, frs, a), NEW u, Hangs(ts, ts2, u),
         NEW frs2, Pushes(frs, a, u, frs2)
  PROVE  Frames(new, ts2, frs2) /\ frs2[Len(frs2)] = Behind(a, u)
<1>. /\ Shape(ts) /\ Grows(ts, ts2) /\ Shape(ts2) /\ u \in DOMAIN ts2 \ {World} /\ Rooted(ts2, u)
     /\ Frames(text, ts, frs) /\ frs[Len(frs)].at = a /\ frs[Len(frs)].pass = "expand"
     /\ frs2 = Append(frs, Behind(a, u))
  BY DEF Waits, Hangs, Pushes
<1>1. /\ a \in Nat /\ n \in Nat /\ Len(text) \in Nat /\ a < Len(text) /\ a # 0
      /\ DOMAIN text = 1 .. Len(text) /\ DOMAIN new = 1 .. (Len(text) + n)
      /\ Len(new) = Len(text) + n /\ (\A i \in 1 .. a : new[i] = text[i]) /\ text[a].op = "expand"
  BY InsertedSizes
<1>2. Chain(text, frs) /\ \A f \in DOMAIN frs : FrameOK(text, ts, frs[f])
  BY DEF Frames
<1>3. PICK q \in Seq(FrameSet) : q = frs /\ q # <<>>
  BY <1>2 DEF Chain
<1>4. PICK l \in Nat \ {0} : l = Len(q) /\ DOMAIN q = 1 .. l
  BY <1>3, LenProperties, EmptySeq
<1>5. u \in Nat
  BY DEF Shape
<1>6. PICK base : base = <<u>>
  OBVIOUS
<1>7. base \in Seq(Nat) /\ base # <<>> /\ Based(ts2, base)
  <2>1. base \in Seq(Nat) /\ DOMAIN base = {1} /\ base[1] = u /\ base # <<>>
    BY <1>5, <1>6
  <2>. QED  BY <2>1 DEF Based
<1>8. PICK g : g = NewFrame(a + 1, base)
  OBVIOUS
<1>9. /\ FrameOK(new, ts2, g) /\ g.first = a + 1 /\ g.at = a + 1 /\ g.base = base /\ g.pass = "record"
  <2>1. Len(new) \in Nat /\ a + 1 \in 1 .. (Len(new) + 1)
    BY <1>1
  <2>2. g = [pass |-> "record", first |-> a + 1, at |-> a + 1, base |-> base, scopes |-> base, open |-> <<>>]
    BY <1>8 DEF NewFrame
  <2>3. "record" \in Passes
    BY DEF Passes
  <2>4. PICK first : first = a + 1
    OBVIOUS
  <2>5. PICK pass : pass = "record"
    OBVIOUS
  <2>6. pass \in Passes /\ first \in 1 .. (Len(new) + 1) /\ (pass # "record" => Live(new, first))
    BY <2>1, <2>3, <2>4, <2>5
  <2>7. FrameOK(new, ts2, [pass |-> pass, first |-> first, at |-> first, base |-> base, scopes |-> base, open |-> <<>>])
    BY <1>7, <2>1, <2>6, FrameSetsOut
  <2>. QED  BY <2>2, <2>4, <2>5, <2>7
<1>10. g \in FrameSet
  BY <1>9 DEF FrameOK
<1>11. PICK r : r = Append(q, g)
  OBVIOUS
<1>12. /\ r \in Seq(FrameSet) /\ r # <<>> /\ Len(r) = Len(q) + 1
       /\ \A i \in 1 .. Len(q) : r[i] = q[i]
       /\ r[Len(r)] = g
  BY <1>10, <1>11, SeqPush
<1>13. /\ frs2 = r /\ frs2 \in Seq(FrameSet) /\ frs2 # <<>> /\ DOMAIN frs2 = 1 .. (l + 1) /\ DOMAIN frs = 1 .. l
       /\ l = Len(frs) /\ Len(frs2) = l + 1 /\ frs2[l + 1] = g /\ \A i \in 1 .. l : frs2[i] = frs[i]
  <2>1. DOMAIN r = 1 .. (l + 1)
    BY <1>4, <1>12, LenProperties
  <2>. QED  BY <1>3, <1>4, <1>6, <1>8, <1>11, <1>12, <2>1 DEF Behind
<1>14. ASSUME NEW f \in 1 .. l
       PROVE  frs[f].at <= a /\ frs[f].at \in Nat
  <2>1. FrameOK(text, ts, frs[f]) /\ FrameOK(text, ts, frs[l])
    BY <1>2, <1>13
  <2>2. frs[f].at \in Nat /\ frs[l].first \in Nat /\ frs[l].at = a
    BY <1>13, <2>1, FrameFields
  <2>3. CASE f = l
    BY <2>2, <2>3
  <2>4. CASE f # l
    <3>1. l \in 1 .. l /\ f < l
      BY <2>4
    <3>2. frs[f].at < frs[l].first
      BY <1>2, <1>13, <3>1 DEF Chain
    <3>3. frs[l].first - 1 < frs[l].at
      BY <2>1, FrameFields DEF Standing, Within
    <3>. QED  BY <1>1, <2>2, <3>2, <3>3
  <2>. QED  BY <2>3, <2>4
<1>15. ASSUME NEW f \in 1 .. (l + 1)
       PROVE  FrameOK(new, ts2, frs2[f])
  <2>1. CASE f = l + 1
    BY <1>9, <1>13, <2>1
  <2>2. CASE f # l + 1
    <3>1. f \in 1 .. l
      BY <2>2
    <3>2. FrameOK(text, ts, frs[f]) /\ frs[f].at <= a
      BY <1>2, <1>13, <1>14, <3>1
    <3>3. FrameOK(text, ts2, frs[f])
      BY <3>2, FrameGrows
    <3>4. FrameOK(new, ts2, frs[f])
      BY <3>2, <3>3, FrameInserted
    <3>. QED  BY <1>13, <3>1, <3>4
  <2>. QED  BY <2>1, <2>2
<1>16. ASSUME NEW f \in 1 .. (l + 1), f + 1 \in 1 .. (l + 1)
       PROVE  /\ frs2[f].pass = "expand" /\ frs2[f].at \in DOMAIN new /\ new[frs2[f].at].op = "expand"
              /\ frs2[f + 1].first = frs2[f].at + 1 /\ frs2[f + 1].base # <<>>
              /\ frs2[f + 1].pass \notin {"types", "symbols"}
  <2>1. f \in 1 .. l /\ frs2[f] = frs[f]
    BY <1>13, <1>16
  <2>2. CASE f = l
    <3>1. frs2[f].pass = "expand" /\ frs2[f].at = a /\ frs2[f + 1] = g
      BY <1>13, <2>1, <2>2
    <3>2. a \in DOMAIN new /\ new[a] = text[a]
      BY <1>1
    <3>. QED  BY <1>1, <1>7, <1>9, <3>1, <3>2
  <2>3. CASE f # l
    <3>1. f + 1 \in 1 .. l /\ frs2[f + 1] = frs[f + 1]
      BY <1>13, <2>1, <2>3
    <3>2. /\ frs[f].pass = "expand" /\ frs[f].at \in DOMAIN text /\ text[frs[f].at].op = "expand"
          /\ frs[f + 1].first = frs[f].at + 1 /\ frs[f + 1].base # <<>>
          /\ frs[f + 1].pass \notin {"types", "symbols"}
      BY <1>2, <1>13, <2>1, <3>1 DEF Chain
    <3>3. frs[f].at \in 1 .. a /\ frs[f].at \in DOMAIN new /\ new[frs[f].at] = text[frs[f].at]
      <4>1. frs[f].at <= a /\ frs[f].at \in Nat
        BY <1>14, <2>1
      <4>2. frs[f].at \in 1 .. a
        BY <1>1, <3>2, <4>1
      <4>. QED  BY <1>1, <4>2
    <3>. QED  BY <2>1, <3>1, <3>2, <3>3
  <2>. QED  BY <2>2, <2>3
<1>17. ASSUME NEW f \in 1 .. (l + 1), NEW h \in 1 .. (l + 1), f < h
       PROVE  frs2[f].at < frs2[h].first
  <2>1. f \in 1 .. l /\ frs2[f] = frs[f]
    BY <1>13, <1>17
  <2>2. CASE h = l + 1
    <3>1. frs[f].at <= a /\ frs[f].at \in Nat
      BY <1>14, <2>1
    <3>2. frs2[h].first = a + 1
      BY <1>9, <1>13, <2>2
    <3>3. \A x \in Nat : x <= a => x < a + 1
      BY <1>1
    <3>4. frs2[f].at = frs[f].at
      BY <2>1
    <3>. QED  BY <3>1, <3>2, <3>3, <3>4
  <2>3. CASE h # l + 1
    <3>1. h \in 1 .. l /\ frs2[h] = frs[h]
      BY <1>13, <2>3
    <3>. QED  BY <1>2, <1>13, <1>17, <2>1, <3>1 DEF Chain
  <2>. QED  BY <2>2, <2>3
<1>18. frs2[1].first = 1 /\ frs2[1].base = <<>>
  <2>1. 1 \in 1 .. l /\ frs[1].first = 1 /\ frs[1].base = <<>>
    BY <1>2 DEF Chain
  <2>. QED  BY <1>13, <2>1
<1>19. Chain(new, frs2)
  BY <1>13, <1>16, <1>17, <1>18 DEF Chain
<1>. QED  BY <1>6, <1>8, <1>13, <1>15, <1>19 DEF Frames, Behind

\* It stands where it set out, with the stack it set out with.
LEMMA FrameSetsOutAgain ==
  ASSUME NEW text, TextInv(text), NEW ts, Shape(ts), NEW frs, Frames(text, ts, frs),
         Done(text, frs[Len(frs)]), NEW pass \in Passes, NEW f2, f2 = SetsOut(frs[Len(frs)], pass)
  PROVE  /\ FrameOK(text, ts, f2) /\ f2.pass = pass /\ f2.first = frs[Len(frs)].first /\ f2.at = f2.first
         /\ f2.base = frs[Len(frs)].base
<1>1. PICK fr : fr = frs[Len(frs)]
  OBVIOUS
<1>2. FrameOK(text, ts, fr) /\ Done(text, fr)
  BY <1>1, LastFrame
<1>3. /\ fr \in FrameSet /\ fr.base \in Seq(Nat) /\ Based(ts, fr.base) /\ fr.first \in Nat
      /\ Standing(text, fr.pass, fr.first, fr.at, Len(fr.open))
  BY <1>2, FrameFields
<1>4. fr.open = <<>>
  BY <1>2, DoneIs
<1>5. text \in Seq(Node) /\ text # <<>>
  BY DEF TextInv
<1>6. Len(text) \in Nat /\ DOMAIN text = 1 .. Len(text)
  BY <1>5, TextPlaces
<1>7. PICK first, base : first = fr.first /\ base = fr.base
  OBVIOUS
<1>8. first \in 1 .. (Len(text) + 1)
  <2>1. /\ fr.first \in Nat \ {0} /\ fr.at \in 1 .. (Len(text) + 1) /\ fr.first - 1 < fr.at
    BY <1>3 DEF Standing, Within
  <2>. QED  BY <1>6, <1>7, <2>1
<1>9. Live(text, first)
  <2>1. CASE Len(frs) = 1
    <3>1. first = 1
      BY <1>1, <1>7, <2>1, LastFrame
    <3>2. ASSUME NEW j \in DOMAIN text, Within(text, j, 1)
          PROVE  FALSE
      <4>1. j < 1 /\ j \in 1 .. Len(text)
        BY <1>6, <3>2 DEF Within
      <4>. QED  BY <1>6, <4>1
    <3>. QED  BY <3>1, <3>2 DEF Live, Encloses
  <2>2. CASE Len(frs) # 1
    <3>1. PICK g : g = frs[Len(frs) - 1]
      OBVIOUS
    <3>2. Len(frs) \in Nat \ {0} /\ Len(frs) > 1
      <4>1. Len(frs) \in Nat \ {0}
        BY LastFrame
      <4>. QED  BY <2>2, <4>1
    <3>3. /\ FrameOK(text, ts, g) /\ g.pass = "expand" /\ g.at \in DOMAIN text /\ text[g.at].op = "expand"
          /\ fr.first = g.at + 1
      BY <1>1, <3>1, <3>2, LastFrame
    <3>4. Live(text, g.at)
      BY <3>3, FrameFields DEF Standing
    <3>5. PICK b \in DOMAIN text : b = g.at
      BY <3>3
    <3>6. \A j : Encloses(text, j, b + 1) <=> (Encloses(text, j, b) \/ j = b)
      BY <1>5, <3>3, <3>5, EnterEncloses DEF Opener
    <3>7. Live(text, b + 1)
      BY <3>3, <3>4, <3>5, <3>6 DEF Live
    <3>. QED  BY <1>7, <3>3, <3>5, <3>7
  <2>. QED  BY <2>1, <2>2
<1>10. f2 = [fr EXCEPT !.pass = pass, !.at = first, !.scopes = base]
  BY <1>1, <1>7 DEF SetsOut
<1>11. f2 = [pass |-> pass, first |-> first, at |-> first, base |-> base, scopes |-> base, open |-> <<>>]
  BY <1>3, <1>4, <1>7, <1>10 DEF FrameSet
<1>12. base \in Seq(Nat) /\ Based(ts, base)
  BY <1>3, <1>7
<1>13. FrameOK(text, ts, [pass |-> pass, first |-> first, at |-> first, base |-> base, scopes |-> base, open |-> <<>>])
  BY <1>6, <1>8, <1>9, <1>12, FrameSetsOut
<1>. QED  BY <1>1, <1>7, <1>11, <1>13

\* The runs of passes are in order without the last one.
LEMMA FramesPopped ==
  ASSUME NEW text, TextInv(text), NEW ts, Owned(text, ts), NEW frs, Frames(text, ts, frs), Len(frs) > 1,
         Done(text, frs[Len(frs)]),
         NEW frs2, Pops(frs, frs2)
  PROVE  /\ Frames(text, ts, frs2) /\ Len(frs2) = Len(frs) - 1 /\ frs2[Len(frs2)].pass = "expand"
         /\ frs2[Len(frs2)].at = frs[Len(frs)].at + 1
         /\ frs2[Len(frs2)].first = frs[Len(frs) - 1].first /\ frs[Len(frs)].at \in DOMAIN text
<1>1. PICK g, fr : g = frs[Len(frs)] /\ fr = frs[Len(frs) - 1]
  OBVIOUS
<1>2. /\ Len(frs) \in Nat \ {0} /\ DOMAIN frs = 1 .. Len(frs)
      /\ FrameOK(text, ts, g) /\ FrameOK(text, ts, fr) /\ fr.pass = "expand" /\ fr.at \in DOMAIN text
      /\ text[fr.at].op = "expand" /\ g.first = fr.at + 1 /\ Done(text, g)
  BY <1>1, LastFrame
<1>3. /\ text \in Seq(Node) /\ text # <<>> /\ Height(text, Len(text)) = 0
  BY DEF TextInv
<1>4. Len(text) \in Nat /\ DOMAIN text = 1 .. Len(text)
  BY <1>3, TextPlaces
<1>5. PICK b \in Nat : b = fr.at /\ b # 0
  BY <1>2, <1>4
<1>6. g.open = <<>> /\ Height(text, g.at - 1) = Height(text, g.first - 1)
  BY <1>2, DoneIs
<1>7. g.first - 1 = b
  BY <1>2, <1>5
<1>8. /\ g.at \in 1 .. (Len(text) + 1) /\ Within(text, b, g.at)
  BY <1>2, <1>7, FrameFields DEF Standing
<1>9. Height(text, b) = Height(text, b - 1) + 1 /\ Height(text, b - 1) \in Int /\ Height(text, b - 1) >= 0
  <2>1. Height(text, b) = Height(text, b - 1) + 1
    BY <1>2, <1>5, EndOfIs DEF Opener
  <2>2. b - 1 \in Nat /\ b - 1 \in 0 .. Len(text)
    BY <1>2, <1>4, <1>5
  <2>. QED  BY <2>1, <2>2, HeightStep, HeightsPositive
<1>10. g.at \in DOMAIN text
  <2>. SUFFICES ASSUME g.at \notin DOMAIN text
                PROVE  FALSE
    OBVIOUS
  <2>1. g.at - 1 = Len(text)
    BY <1>4, <1>8
  <2>. QED  BY <1>3, <1>6, <1>7, <1>9, <2>1
<1>11. text[g.at].op = "end"
  BY <1>2, <1>10 DEF Done
<1>12. PICK e \in Nat : e = g.at /\ e # 0
  BY <1>4, <1>10
<1>13. Height(text, e) = Height(text, b - 1)
  <2>1. Height(text, e) = Height(text, e - 1) - 1
    BY <1>3, <1>10, <1>11, <1>12, LeaveEncloses
  <2>. QED  BY <1>6, <1>7, <1>9, <1>12, <2>1
<1>14. Jump(text, b, e + 1)
  <2>1. b \in DOMAIN text /\ e + 1 \in (b + 1) .. (Len(text) + 1) /\ (e + 1) - 1 = e
    <3>1. b < e
      BY <1>8, <1>12 DEF Within
    <3>2. e \in 1 .. Len(text)
      BY <1>4, <1>10, <1>12
    <3>. QED  BY <1>2, <1>4, <1>5, <3>1, <3>2
  <2>2. ASSUME NEW k \in b .. e
        PROVE  Height(text, k) >= Height(text, b - 1)
    <3>1. CASE k = e
      BY <1>9, <1>13, <3>1
    <3>2. CASE k # e
      <4>1. k \in b .. (e - 1) /\ k \in Nat
        BY <3>2
      <4>2. Height(text, k) >= Height(text, b) /\ Height(text, k) \in Int
        BY <1>8, <1>12, <4>1, HeightStep DEF Within
      <4>. QED  BY <1>9, <4>2
    <3>. QED  BY <3>1, <3>2
  <2>. QED  BY <1>13, <2>1, <2>2 DEF Jump
<1>15. PICK c : c = e + 1
  OBVIOUS
<1>16. /\ FrameOK(text, ts, GoneTo(fr, c)) /\ c \in Nat
  <2>1. Jump(text, fr.at, c) /\ text[fr.at].op # "end"
    BY <1>2, <1>5, <1>14, <1>15
  <2>. QED  BY <1>2, <1>3, <2>1, FrameJumps
<1>17. PICK f2 : f2 = GoneTo(fr, c)
  OBVIOUS
<1>18. /\ f2 \in FrameSet /\ f2.pass = "expand" /\ f2.at = c /\ f2.first = fr.first /\ f2.base = fr.base
  <2>1. f2 = [fr EXCEPT !.at = c] /\ fr \in FrameSet
    BY <1>2, <1>17, FrameFields DEF GoneTo
  <2>. QED  BY <1>2, <1>16, <2>1 DEF FrameSet
<1>19. Chain(text, frs) /\ \A f \in DOMAIN frs : FrameOK(text, ts, frs[f])
  BY DEF Frames
<1>20. PICK q \in Seq(FrameSet) : q = frs /\ q # <<>>
  BY <1>19 DEF Chain
<1>21. PICK l \in Nat \ {0} : Len(q) = l + 1
  <2>1. Len(q) - 1 \in Nat \ {0} /\ Len(q) = (Len(q) - 1) + 1
    BY <1>2, <1>20
  <2>. QED  BY <2>1
<1>22. DOMAIN frs = 1 .. (l + 1) /\ Len(frs) = l + 1 /\ Len(q) - 1 = l /\ Len(frs) - 1 = l
  BY <1>2, <1>20, <1>21
<1>23. PICK p : p = SubSeq(q, 1, Len(q) - 1)
  OBVIOUS
<1>24. p \in Seq(FrameSet) /\ Len(p) = l /\ \A i \in 1 .. l : p[i] = q[i]
  BY <1>20, <1>22, <1>23, SeqPop
<1>25. p # <<>> /\ l \in 1 .. l /\ DOMAIN p = 1 .. l
  BY <1>24, EmptySeq, LenProperties
<1>26. PICK r : r = [p EXCEPT ![Len(p)] = f2]
  OBVIOUS
<1>27. /\ r \in Seq(FrameSet) /\ r # <<>> /\ Len(r) = Len(p) /\ DOMAIN r = DOMAIN p
       /\ r[Len(r)] = f2 /\ \A i \in DOMAIN p : r[i] = IF i = Len(p) THEN f2 ELSE p[i]
  BY <1>18, <1>24, <1>25, <1>26, SeqReplaceLast
<1>28. frs2 = r
  <2>1. frs2 = [p EXCEPT ![l] = [p[l] EXCEPT !.at = c]]
    BY <1>1, <1>12, <1>15, <1>20, <1>22, <1>23 DEF Pops
  <2>2. p[l] = fr
    BY <1>1, <1>20, <1>22, <1>24, <1>25
  <2>. QED  BY <1>17, <1>24, <1>26, <2>1, <2>2 DEF GoneTo
<1>29. /\ frs2 \in Seq(FrameSet) /\ frs2 # <<>> /\ DOMAIN frs2 = 1 .. l /\ Len(frs2) = l /\ frs2[l] = f2
       /\ \A i \in 1 .. l : i # l => frs2[i] = frs[i]
  BY <1>20, <1>24, <1>25, <1>27, <1>28
<1>30. \A i \in 1 .. l : i \in DOMAIN frs /\ frs2[i].first = frs[i].first /\ frs2[i].base = frs[i].base
                         /\ frs2[i].pass = frs[i].pass
  <2>1. \A i \in 1 .. l : i \in 1 .. (l + 1)
    OBVIOUS
  <2>. QED  BY <1>1, <1>2, <1>18, <1>22, <1>29, <2>1
<1>31. ASSUME NEW f \in 1 .. l
       PROVE  FrameOK(text, ts, frs2[f])
  <2>1. CASE f = l
    BY <1>16, <1>17, <1>29, <2>1
  <2>2. CASE f # l
    BY <1>19, <1>29, <1>30, <2>2
  <2>. QED  BY <2>1, <2>2
<1>32. ASSUME NEW f \in 1 .. l, f + 1 \in 1 .. l
       PROVE  /\ frs2[f].pass = "expand" /\ frs2[f].at \in DOMAIN text /\ text[frs2[f].at].op = "expand"
              /\ frs2[f + 1].first = frs2[f].at + 1 /\ frs2[f + 1].base # <<>>
              /\ frs2[f + 1].pass \notin {"types", "symbols"}
  <2>1. f # l
    BY <1>32
  <2>2. frs2[f] = frs[f]
    BY <1>29, <2>1
  <2>3. /\ frs[f].pass = "expand" /\ frs[f].at \in DOMAIN text /\ text[frs[f].at].op = "expand"
        /\ frs[f + 1].first = frs[f].at + 1 /\ frs[f + 1].base # <<>>
        /\ frs[f + 1].pass \notin {"types", "symbols"}
    BY <1>19, <1>30, <1>32 DEF Chain
  <2>. QED  BY <1>30, <1>32, <2>2, <2>3
<1>33. ASSUME NEW f \in 1 .. l, NEW h \in 1 .. l, f < h
       PROVE  frs2[f].at < frs2[h].first
  <2>1. f # l
    BY <1>33
  <2>2. frs2[f] = frs[f]
    BY <1>29, <2>1
  <2>3. frs[f].at < frs[h].first
    BY <1>19, <1>30, <1>33 DEF Chain
  <2>. QED  BY <1>30, <2>2, <2>3
<1>34. frs2[1].first = 1 /\ frs2[1].base = <<>>
  <2>1. 1 \in 1 .. l /\ frs[1].first = 1 /\ frs[1].base = <<>>
    BY <1>19 DEF Chain
  <2>. QED  BY <1>30, <2>1
<1>35. Chain(text, frs2)
  BY <1>29, <1>32, <1>33, <1>34 DEF Chain
<1>36. Frames(text, ts, frs2)
  BY <1>29, <1>31, <1>35 DEF Frames
<1>. QED  BY <1>1, <1>10, <1>12, <1>15, <1>18, <1>22, <1>29, <1>36

----
\* How far the passes are.

\* A visitor goes on; what the second pass has passed has a parent.
LEMMA ProgressMoves ==
  ASSUME NEW text, text \in Seq(Node), NEW ts, NEW ts2, Owned(text, ts), Grows(ts, ts2), Still(ts, ts2),
         NEW fr, NEW f2, NEW e \in Nat, NEW e2 \in Nat, e <= e2, Progress(text, ts, fr, e),
         f2.pass = fr.pass, f2.first = fr.first, fr.at \in Nat, f2.at \in Nat, fr.at <= f2.at,
         fr.pass = "parents" =>
           \A i \in DOMAIN text : fr.at <= i /\ i < f2.at /\ text[i].op \in OwnsTable /\ Live(text, i) =>
             ts2[text[i].id].parent # NoTable
  PROVE  Progress(text, ts2, f2, e2)
<1>1. PICK a \in Nat, b \in Nat : a = fr.at /\ b = f2.at /\ a <= b
  OBVIOUS
<1>2. DOMAIN text \subseteq Nat
  BY LenProperties
<1>3. ASSUME NEW i \in DOMAIN text, text[i].op \in OwnsTable, ts2[text[i].id].parent = NoTable, Live(text, i)
      PROVE  \/ f2.pass = "record" /\ Within(text, f2.first - 1, i)
             \/ f2.pass = "parents" /\ i >= b /\ Within(text, f2.first - 1, i)
             \/ e2 > 0 /\ i < b
  <2>1. text[i].id \in DOMAIN ts /\ i \in Nat
    BY <1>2, <1>3 DEF Owned
  <2>2. ts[text[i].id].parent = NoTable
    BY <1>3, <2>1 DEF Grows
  <2>3. \/ fr.pass = "record" /\ Within(text, fr.first - 1, i)
        \/ fr.pass = "parents" /\ i >= a /\ Within(text, fr.first - 1, i)
        \/ e > 0 /\ i < a
    BY <1>1, <1>3, <2>2 DEF Progress, Unset
  <2>4. CASE fr.pass = "record" /\ Within(text, fr.first - 1, i)
    BY <2>4
  <2>5. CASE fr.pass = "parents" /\ i >= a /\ Within(text, fr.first - 1, i)
    <3>1. i >= b
      <4>1. ~(i < b)
        BY <1>1, <1>3, <2>5
      <4>. QED  BY <2>1, <4>1
    <3>. QED  BY <2>5, <3>1
  <2>6. CASE e > 0 /\ i < a
    BY <1>1, <2>1, <2>6
  <2>. QED  BY <2>3, <2>4, <2>5, <2>6
<1>4. ASSUME NEW i \in DOMAIN text, text[i].op = "expand", ts2[text[i].id].symbols # {}
      PROVE  i < f2.first \/ f2.pass \in {"types", "symbols"} \/ (f2.pass = "expand" /\ i < b)
  <2>1. text[i].id \in DOMAIN ts /\ ts[text[i].id].kind = "TemplateParameter" /\ i \in Nat
    BY <1>2, <1>4 DEF Owned, OwnsTable
  <2>2. ts[text[i].id].symbols # {}
    BY <1>4, <2>1 DEF Still
  <2>3. i < fr.first \/ fr.pass \in {"types", "symbols"} \/ (fr.pass = "expand" /\ i < a)
    BY <1>1, <1>4, <2>2 DEF Progress, Unfilled
  <2>. QED  BY <1>1, <2>1, <2>3
<1>. QED  BY <1>1, <1>3, <1>4 DEF Progress, Unset, Unfilled

\* The next pass begins: all tables have parents after the second one.
LEMMA ProgressNext ==
  ASSUME NEW text, TextInv(text), NEW ts, NEW fr, FrameOK(text, ts, fr), Done(text, fr), Progress(text, ts, fr, 0),
         fr.pass # "symbols", NEW f2, f2.pass = NextPass[fr.pass], f2.first = fr.first, f2.at = fr.first
  PROVE  Progress(text, ts, f2, 0)
<1>1. fr.pass \in {"record", "parents", "populate", "expand", "types"} /\ fr.first \in Nat /\ fr.at \in Nat
  BY FrameFields DEF Passes
<1>2. /\ NextPass["record"] = "parents" /\ NextPass["parents"] = "populate" /\ NextPass["populate"] = "expand"
      /\ NextPass["expand"] = "types" /\ NextPass["types"] = "symbols"
  BY DEF NextPass
<1>3. PICK n \in Nat : n = fr.first
  BY <1>1
<1>4. text \in Seq(Node)
  BY DEF TextInv
<1>5. DOMAIN text \subseteq Nat
  BY <1>4, LenProperties
<1>6. ASSUME NEW i \in DOMAIN text, text[i].op \in OwnsTable, ts[text[i].id].parent = NoTable, Live(text, i)
      PROVE  f2.pass = "parents" /\ i >= n /\ Within(text, n - 1, i)
  <2>1. \/ fr.pass = "record" /\ Within(text, n - 1, i)
        \/ fr.pass = "parents" /\ i >= fr.at /\ Within(text, n - 1, i)
        \/ 0 > 0 /\ i < fr.at
    BY <1>3, <1>6 DEF Progress, Unset
  <2>2. CASE fr.pass = "record" /\ Within(text, n - 1, i)
    <3>1. n - 1 < i /\ i \in Nat
      BY <1>5, <2>2 DEF Within
    <3>2. i >= n
      BY <3>1
    <3>. QED  BY <1>2, <2>2, <3>2
  <2>3. CASE fr.pass = "parents" /\ i >= fr.at /\ Within(text, n - 1, i)
    <3>1. i <= fr.at
      BY <1>3, <2>3, DoneIs
    <3>2. i = fr.at
      BY <1>1, <1>5, <2>3, <3>1
    <3>3. text[i].op = "end"
      BY <3>2 DEF Done
    <3>. QED  BY <1>6, <3>3 DEF OwnsTable
  <2>. QED  BY <2>1, <2>2, <2>3
<1>7. ASSUME NEW i \in DOMAIN text, text[i].op = "expand", ts[text[i].id].symbols # {}
      PROVE  i < f2.first \/ f2.pass \in {"types", "symbols"} \/ (f2.pass = "expand" /\ i < n)
  <2>1. i < fr.first \/ fr.pass \in {"types", "symbols"} \/ (fr.pass = "expand" /\ i < fr.at)
    BY <1>7 DEF Progress, Unfilled
  <2>. QED  BY <1>1, <1>2, <2>1
<1>. QED  BY <1>3, <1>6, <1>7 DEF Progress, Unset, Unfilled

\* The expander goes on behind a copy that has gone through its passes, or where there
\* are errors.
LEMMA ProgressPopped ==
  ASSUME NEW text, TextInv(text), NEW ts, NEW g, FrameOK(text, ts, g), Done(text, g), NEW e \in Nat,
         Progress(text, ts, g, e), g.pass = "expand" \/ e > 0, g.pass \notin {"types", "symbols"},
         NEW f2, f2.pass = "expand", f2.at = g.at + 1
  PROVE  Progress(text, ts, f2, e)
<1>1. g.first \in Nat /\ g.at \in Nat /\ Standing(text, g.pass, g.first, g.at, Len(g.open))
  BY FrameFields
<1>2. g.first - 1 < g.at
  BY <1>1 DEF Standing, Within
<1>3. text \in Seq(Node)
  BY DEF TextInv
<1>4. DOMAIN text \subseteq Nat
  BY <1>3, LenProperties
<1>5. PICK n \in Nat, a \in Nat : n = g.first /\ a = g.at /\ n - 1 < a
  BY <1>1, <1>2
<1>6. ASSUME NEW i \in DOMAIN text, text[i].op \in OwnsTable, ts[text[i].id].parent = NoTable, Live(text, i)
      PROVE  e > 0 /\ i < a + 1
  <2>1. \/ g.pass = "record" /\ Within(text, g.first - 1, i)
        \/ g.pass = "parents" /\ i >= a /\ Within(text, g.first - 1, i)
        \/ e > 0 /\ i < a
    BY <1>5, <1>6 DEF Progress, Unset
  <2>2. CASE e > 0 /\ i < a
    BY <1>4, <1>5, <2>2
  <2>3. CASE ~(e > 0 /\ i < a)
    <3>1. e > 0 /\ Within(text, g.first - 1, i)
      BY <2>1, <2>3
    <3>2. i <= a
      BY <1>5, <3>1, DoneIs
    <3>. QED  BY <1>4, <1>5, <3>1, <3>2
  <2>. QED  BY <2>2, <2>3
<1>7. ASSUME NEW i \in DOMAIN text, text[i].op = "expand", ts[text[i].id].symbols # {}
      PROVE  i < a + 1
  <2>1. i < n \/ i < a
    BY <1>5, <1>7 DEF Progress, Unfilled
  <2>. QED  BY <1>4, <1>5, <2>1
<1>. QED  BY <1>5, <1>6, <1>7 DEF Progress, Unset, Unfilled

\* Every node is an old one or one of the copy.
LEMMA InsertedSources ==
  ASSUME NEW text, NEW new, NEW a, NEW s, NEW n, NEW fresh, TextInv(text), Inserts(text, new, a, s, n, fresh)
  PROVE  Sources(text, new, a, n)
<1>1. \A i \in DOMAIN new : \/ \E o \in DOMAIN text : i = Moved(a, n, o)
                           \/ \E k \in 1 .. n : i = a + k
  BY InsertedPlaces, ZenonT(60)
<1>. QED  BY <1>1 DEF Sources

\* A copy is behind the expansion: its tables are new, and only the expansion is filled.
LEMMA ProgressPushed ==
  ASSUME NEW text, NEW new, NEW a, NEW s, NEW n, NEW fresh, TextInv(text), Inserts(text, new, a, s, n, fresh),
         NEW ts, Owned(text, ts), NEW d, NEW ts2, Copies(text, s, n, fresh, ts, d, ts2), DOMAIN d = DOMAIN ts,
         \A t \in DOMAIN ts : d[t].parent = ts[t].parent /\ (t # text[a].id => d[t].symbols = ts[t].symbols),
         NEW e \in Nat, NEW fr, Progress(text, ts, fr, e), fr.pass = "expand", fr.at = a, fr.first \in Nat, fr.first <= a,
         NEW f2, f2.pass = "record", f2.first = a + 1, f2.at = a + 1
  PROVE  Progress(new, ts2, f2, e)
<1>1. /\ a \in Nat /\ n \in Nat /\ Len(text) \in Nat
      /\ DOMAIN text = 1 .. Len(text) /\ DOMAIN new = 1 .. (Len(text) + n)
  BY InsertedSizes
<1>2. Sources(text, new, a, n)
  BY InsertedSources
<1>3. ASSUME NEW o \in DOMAIN text
      PROVE  new[Moved(a, n, o)] = text[o]
  BY <1>3, InsertedPlaces
<1>4. ASSUME NEW o \in DOMAIN text, text[o].op \in OwnsTable
      PROVE  /\ ts2[text[o].id].parent = ts[text[o].id].parent
             /\ o # a => ts2[text[o].id].symbols = ts[text[o].id].symbols
  <2>1. text[o].id \in DOMAIN ts
    BY <1>4 DEF Owned
  <2>2. ts2[text[o].id] = d[text[o].id]
    BY <2>1 DEF Copies
  <2>3. o # a => text[o].id # text[a].id
    <3>1. a \in DOMAIN text
      BY DEF Inserts
    <3>. QED  BY <3>1 DEF TextInv
  <2>. QED  BY <2>1, <2>2, <2>3
<1>5. PICK b : b = a + 1
  OBVIOUS
<1>6. ASSUME NEW i \in DOMAIN new, new[i].op \in OwnsTable, ts2[new[i].id].parent = NoTable, Live(new, i)
      PROVE  Within(new, b - 1, i) \/ (e > 0 /\ i < b)
  <2>1. CASE \E o \in DOMAIN text : i = Moved(a, n, o)
    <3>1. PICK o \in DOMAIN text : i = Moved(a, n, o)
      BY <2>1
    <3>2. Live(text, o)
      BY <1>6, <3>1, InsertedLive
    <3>3. text[o].op \in OwnsTable /\ ts[text[o].id].parent = NoTable
      BY <1>3, <1>4, <1>6, <3>1
    <3>4. e > 0 /\ o < a
      BY <3>2, <3>3 DEF Progress, Unset
    <3>5. i = o /\ o < b
      BY <1>1, <1>5, <3>1, <3>4 DEF Moved
    <3>. QED  BY <3>4, <3>5
  <2>2. CASE \E k \in 1 .. n : i = a + k
    <3>1. PICK k \in 1 .. n : i = a + k
      BY <2>2
    <3>2. k \in 1 .. (n + 1) /\ b - 1 = a
      BY <1>1, <1>5
    <3>3. Within(new, a, a + k)
      BY <3>2, CopyWithin
    <3>. QED  BY <3>1, <3>2, <3>3
  <2>. QED  BY <1>2, <2>1, <2>2 DEF Sources
<1>7. ASSUME NEW i \in DOMAIN new, new[i].op = "expand", ts2[new[i].id].symbols # {}
      PROVE  i < b
  <2>1. CASE \E o \in DOMAIN text : i = Moved(a, n, o)
    <3>1. PICK o \in DOMAIN text : i = Moved(a, n, o)
      BY <2>1
    <3>2. text[o].op = "expand" /\ ts2[text[o].id].symbols # {}
      BY <1>3, <1>7, <3>1
    <3>3. o <= a
      <4>1. CASE o = a
        BY <1>1, <4>1
      <4>2. CASE o # a
        <5>1. ts[text[o].id].symbols # {}
          BY <1>4, <3>2, <4>2 DEF OwnsTable
        <5>2. o < fr.first \/ o < a
          BY <3>2, <5>1 DEF Progress, Unfilled
        <5>. QED  BY <1>1, <5>2
      <4>. QED  BY <4>1, <4>2
    <3>4. i = o
      BY <3>1, <3>3 DEF Moved
    <3>. QED  BY <1>1, <1>5, <3>3, <3>4
  <2>2. CASE \E k \in 1 .. n : i = a + k
    <3>1. PICK k \in 1 .. n : i = a + k
      BY <2>2
    <3>2. new[a + k].op = text[s + k].op /\ new[a + k].id = fresh + k
      BY CopyFields
    <3>3. PICK name : ts2[fresh + k] = Table(ts[text[s + k].id].kind, name, NoTable)
      BY <1>7, <3>1, <3>2 DEF Copies, OwnsTable
    <3>4. ts2[new[i].id].symbols = {}
      BY <3>1, <3>2, <3>3 DEF Table
    <3>. QED  BY <1>7, <3>4
  <2>. QED  BY <1>2, <2>1, <2>2 DEF Sources
<1>. QED  BY <1>5, <1>6, <1>7 DEF Progress, Unset, Unfilled

----
\* What the moves of the visitor at work do to all of these.

\* The visitor moves forward.
LEMMA InvMoves ==
  ASSUME NEW text, NEW ts, NEW frs, NEW e \in Nat, Inv(text, ts, frs, e), NEW ts2, Grown(text, ts, ts2),
         NEW e2 \in Nat, e <= e2, NEW fr, fr = frs[Len(frs)], NEW f2, FrameOK(text, ts2, f2),
         f2.pass = fr.pass, f2.first = fr.first, f2.base = fr.base, fr.at <= f2.at,
         fr.pass = "parents" =>
           \A i \in DOMAIN text : fr.at <= i /\ i < f2.at /\ text[i].op \in OwnsTable /\ Live(text, i) =>
             ts2[text[i].id].parent # NoTable,
         NEW frs2, Replaces(frs, f2, frs2)
  PROVE  Inv(text, ts2, frs2, e2)
<1>1. /\ TextInv(text) /\ TableInv(text, ts) /\ Frames(text, ts, frs) /\ Progress(text, ts, fr, e)
      /\ TableInv(text, ts2) /\ Grows(ts, ts2) /\ Still(ts, ts2)
  BY DEF Inv, Grown
<1>2. Shape(ts) /\ Owned(text, ts) /\ text \in Seq(Node)
  BY <1>1 DEF TableInv, TextInv
<1>3. FrameOK(text, ts, fr) /\ (Len(frs) > 1 => fr.pass \notin {"types", "symbols"})
  BY <1>1, LastFrame
<1>4. fr.at \in Nat
  BY <1>3, FrameFields
<1>5. f2.at \in Nat
  BY FrameFields
<1>7. Frames(text, ts2, frs2) /\ frs2[Len(frs2)] = f2
  <2>1. Advances(text, ts2, frs, f2)
    BY <1>3 DEF Advances
  <2>. QED  BY <1>1, <1>2, <2>1, LastMoves
<1>8. Progress(text, ts2, f2, e2)
  BY <1>1, <1>2, <1>4, <1>5, ProgressMoves
<1>. QED  BY <1>1, <1>7, <1>8 DEF Inv

\* What is known of the visitor at work.
LEMMA InvFrame ==
  ASSUME NEW text, NEW ts, NEW frs, NEW e, Inv(text, ts, frs, e), NEW fr, fr = frs[Len(frs)]
  PROVE  /\ TextInv(text) /\ text \in Seq(Node) /\ TableInv(text, ts) /\ Shape(ts) /\ Owned(text, ts)
         /\ FrameOK(text, ts, fr) /\ fr \in FrameSet /\ fr.pass \in Passes /\ fr.at \in Nat /\ fr.first \in Nat
         /\ fr.first = 1 \/ fr.base # <<>>
         /\ Len(frs) > 1 => fr.pass \notin {"types", "symbols"}
<1>1. TextInv(text) /\ TableInv(text, ts) /\ Frames(text, ts, frs)
  BY DEF Inv
<1>2. Len(frs) \in Nat \ {0} /\ FrameOK(text, ts, fr) /\ (Len(frs) = 1 => fr.first = 1)
      /\ (Len(frs) > 1 => fr.base # <<>> /\ fr.pass \notin {"types", "symbols"})
  BY <1>1, LastFrame
<1>3. Len(frs) = 1 \/ Len(frs) > 1
  <2>1. \A n \in Nat \ {0} : n = 1 \/ n > 1
    OBVIOUS
  <2>. QED  BY <1>2, <2>1
<1>4. fr \in FrameSet /\ fr.pass \in Passes /\ fr.at \in Nat /\ fr.first \in Nat
  BY <1>2, FrameFields
<1>5. text \in Seq(Node) /\ Shape(ts) /\ Owned(text, ts)
  BY <1>1 DEF TextInv, TableInv
<1>. QED  BY <1>1, <1>2, <1>3, <1>4, <1>5

\* The visitor jumps.
LEMMA InvGoes ==
  ASSUME NEW text, NEW ts, NEW frs, NEW e \in Nat, Inv(text, ts, frs, e), NEW ts2, Grown(text, ts, ts2),
         NEW e2 \in Nat, e <= e2, NEW fr, fr = frs[Len(frs)], text[fr.at].op # "end",
         NEW c, Jump(text, fr.at, c),
         fr.pass = "parents" => \A i \in fr.at .. (c - 1) : text[i].op \in OwnsTable => ~Live(text, i),
         NEW frs2, Replaces(frs, GoneTo(fr, c), frs2)
  PROVE  Inv(text, ts2, frs2, e2)
<1>1. /\ TextInv(text) /\ text \in Seq(Node) /\ TableInv(text, ts) /\ Shape(ts) /\ FrameOK(text, ts, fr)
      /\ fr.at \in Nat /\ fr \in FrameSet
  BY InvFrame
<1>2. Grows(ts, ts2) /\ Owned(text, ts2)
  BY DEF Grown, TableInv
<1>3. FrameOK(text, ts2, fr)
  BY <1>1, <1>2, FrameGrows
<1>4. FrameOK(text, ts2, GoneTo(fr, c)) /\ c \in Nat /\ c > fr.at
  BY <1>1, <1>2, <1>3, FrameJumps
<1>5. PICK f2 : f2 = GoneTo(fr, c)
  OBVIOUS
<1>6. f2.pass = fr.pass /\ f2.first = fr.first /\ f2.base = fr.base /\ f2.at = c
  <2>1. f2 = [fr EXCEPT !.at = c]
    BY <1>5 DEF GoneTo
  <2>. QED  BY <1>1, <1>4, <2>1 DEF FrameSet
<1>7. ASSUME fr.pass = "parents", NEW i \in DOMAIN text, fr.at <= i, i < f2.at
      PROVE  text[i].op \in OwnsTable /\ Live(text, i) => ts2[text[i].id].parent # NoTable
  <2>1. i \in Nat
    BY <1>1, LenProperties
  <2>2. i \in fr.at .. (c - 1)
    BY <1>1, <1>4, <1>6, <1>7, <2>1
  <2>. QED  BY <1>7, <2>2
<1>8. FrameOK(text, ts2, f2) /\ fr.at <= f2.at
  BY <1>1, <1>4, <1>5, <1>6
<1>9. Replaces(frs, f2, frs2)
  BY <1>5
<1>. QED  BY <1>6, <1>7, <1>8, <1>9, InvMoves

\* The visitor enters a node.
LEMMA InvEnters ==
  ASSUME NEW text, NEW ts, NEW frs, NEW e \in Nat, Inv(text, ts, frs, e), NEW ts2, Grown(text, ts, ts2),
         NEW e2 \in Nat, e <= e2, NEW fr, fr = frs[Len(frs)], fr.at \in DOMAIN text, text[fr.at].op \in Opener,
         text[fr.at].op = "template" => fr.pass = "record",
         NEW p, Pushable(text, ts2, fr.pass, fr.at, p), fr.pass = "expand" => p = <<>>,
         fr.first = 1 /\ fr.pass # "expand" /\ fr.open = <<>> => p # <<>>,
         fr.pass = "parents" /\ text[fr.at].op \in OwnsTable => ts2[text[fr.at].id].parent # NoTable,
         NEW frs2, Replaces(frs, Entering(fr, p), frs2)
  PROVE  Inv(text, ts2, frs2, e2)
<1>1. /\ TextInv(text) /\ text \in Seq(Node) /\ TableInv(text, ts) /\ Shape(ts) /\ FrameOK(text, ts, fr)
      /\ fr.at \in Nat /\ fr \in FrameSet
  BY InvFrame
<1>2. Grows(ts, ts2) /\ Owned(text, ts2)
  BY DEF Grown, TableInv
<1>3. FrameOK(text, ts2, fr)
  BY <1>1, <1>2, FrameGrows
<1>4. FrameOK(text, ts2, Entering(fr, p))
  BY <1>1, <1>2, <1>3, FrameEnters
<1>5. PICK f2 : f2 = Entering(fr, p)
  OBVIOUS
<1>6. f2.pass = fr.pass /\ f2.first = fr.first /\ f2.base = fr.base /\ f2.at = fr.at + 1
  <2>1. PICK s2, o2 : s2 = fr.scopes \o p /\ o2 = Append(fr.open, Len(p))
    OBVIOUS
  <2>2. f2 = [fr EXCEPT !.at = fr.at + 1, !.scopes = s2, !.open = o2]
    BY <1>5, <2>1 DEF Entering
  <2>. QED  BY <1>1, <2>2 DEF FrameSet
<1>7. ASSUME fr.pass = "parents", NEW i \in DOMAIN text, fr.at <= i, i < f2.at
      PROVE  text[i].op \in OwnsTable /\ Live(text, i) => ts2[text[i].id].parent # NoTable
  <2>1. i \in Nat
    BY <1>1, LenProperties
  <2>2. i = fr.at
    BY <1>1, <1>6, <1>7, <2>1
  <2>. QED  BY <1>7, <2>2
<1>8. FrameOK(text, ts2, f2) /\ fr.at <= f2.at
  BY <1>1, <1>4, <1>5, <1>6
<1>9. Replaces(frs, f2, frs2)
  BY <1>5
<1>. QED  BY <1>6, <1>7, <1>8, <1>9, InvMoves

\* The visitor leaves a node.
LEMMA InvLeaves ==
  ASSUME NEW text, NEW ts, NEW frs, NEW e \in Nat, Inv(text, ts, frs, e), NEW fr, fr = frs[Len(frs)],
         fr.at \in DOMAIN text, text[fr.at].op = "end", fr.open # <<>>,
         NEW frs2, Replaces(frs, Leaving(fr), frs2)
  PROVE  Inv(text, ts, frs2, e)
<1>1. /\ TextInv(text) /\ text \in Seq(Node) /\ TableInv(text, ts) /\ Shape(ts) /\ FrameOK(text, ts, fr)
      /\ fr.at \in Nat /\ fr \in FrameSet
  BY InvFrame
<1>2. FrameOK(text, ts, Leaving(fr))
  BY <1>1, FrameLeaves
<1>3. PICK f2 : f2 = Leaving(fr)
  OBVIOUS
<1>4. f2.pass = fr.pass /\ f2.first = fr.first /\ f2.base = fr.base /\ f2.at = fr.at + 1
  <2>1. PICK s2, o2 : /\ s2 = SubSeq(fr.scopes, 1, Len(fr.scopes) - fr.open[Len(fr.open)])
                      /\ o2 = SubSeq(fr.open, 1, Len(fr.open) - 1)
    OBVIOUS
  <2>2. f2 = [fr EXCEPT !.at = fr.at + 1, !.open = o2, !.scopes = s2]
    BY <1>3, <2>1 DEF Leaving
  <2>. QED  BY <1>1, <2>2 DEF FrameSet
<1>5. ASSUME NEW i \in DOMAIN text, fr.at <= i, i < f2.at
      PROVE  text[i].op \notin OwnsTable
  <2>1. i \in Nat
    BY <1>1, LenProperties
  <2>2. i = fr.at
    BY <1>1, <1>4, <1>5, <2>1
  <2>. QED  BY <2>2 DEF OwnsTable
<1>6. Grown(text, ts, ts)
  BY <1>1, KeepsSame DEF Grown, Still
<1>7. FrameOK(text, ts, f2) /\ fr.at <= f2.at /\ e <= e
  BY <1>1, <1>2, <1>3, <1>4
<1>8. Replaces(frs, f2, frs2)
  BY <1>3
<1>. QED  BY <1>4, <1>5, <1>6, <1>7, <1>8, InvMoves

\* Tables that grow twice have grown.
LEMMA GrowsTwice ==
  ASSUME NEW ts, NEW ts2, NEW ts3, Grows(ts, ts2), Grows(ts2, ts3)
  PROVE  Grows(ts, ts3)
<1>1. DOMAIN ts \subseteq DOMAIN ts3
  BY DEF Grows
<1>2. ASSUME NEW t \in DOMAIN ts
      PROVE  /\ ts3[t].kind = ts[t].kind /\ (ts[t].parent # NoTable => ts3[t].parent = ts[t].parent)
             /\ ts[t].symbols \subseteq ts3[t].symbols
  <2>1. /\ t \in DOMAIN ts2 /\ ts2[t].kind = ts[t].kind
        /\ (ts[t].parent # NoTable => ts2[t].parent = ts[t].parent) /\ ts[t].symbols \subseteq ts2[t].symbols
    BY DEF Grows
  <2>2. /\ ts3[t].kind = ts2[t].kind
        /\ (ts2[t].parent # NoTable => ts3[t].parent = ts2[t].parent) /\ ts2[t].symbols \subseteq ts3[t].symbols
    BY <2>1 DEF Grows
  <2>. QED  BY <2>1, <2>2
<1>. QED  BY <1>1, <1>2 DEF Grows

\* The next pass.
LEMMA InvSetsOut ==
  ASSUME NEW text, NEW ts, NEW frs, Inv(text, ts, frs, 0), NEW fr, fr = frs[Len(frs)], Done(text, fr),
         fr.pass # "symbols", Len(frs) > 1 => fr.pass # "expand",
         NEW frs2, Replaces(frs, SetsOut(fr, NextPass[fr.pass]), frs2)
  PROVE  Inv(text, ts, frs2, 0)
<1>1. /\ TextInv(text) /\ TableInv(text, ts) /\ Shape(ts) /\ FrameOK(text, ts, fr) /\ fr.pass \in Passes
      /\ (Len(frs) > 1 => fr.pass \notin {"types", "symbols"})
  BY InvFrame
<1>2. Frames(text, ts, frs) /\ Progress(text, ts, fr, 0)
  BY DEF Inv
<1>3. /\ NextPass["record"] = "parents" /\ NextPass["parents"] = "populate" /\ NextPass["populate"] = "expand"
      /\ NextPass["expand"] = "types" /\ NextPass["types"] = "symbols"
  BY DEF NextPass
<1>4. PICK pass : pass = NextPass[fr.pass]
  OBVIOUS
<1>5. pass \in Passes /\ (Len(frs) > 1 => pass \notin {"types", "symbols"})
  BY <1>1, <1>3, <1>4 DEF Passes
<1>6. PICK f2 : f2 = SetsOut(fr, pass)
  OBVIOUS
<1>7. /\ FrameOK(text, ts, f2) /\ f2.pass = pass /\ f2.first = fr.first /\ f2.at = f2.first /\ f2.base = fr.base
  <2>1. Done(text, frs[Len(frs)]) /\ f2 = SetsOut(frs[Len(frs)], pass)
    BY <1>6
  <2>. QED  BY <1>1, <1>2, <1>5, <2>1, FrameSetsOutAgain
<1>8. Advances(text, ts, frs, f2)
  BY <1>5, <1>7 DEF Advances
<1>9. Replaces(frs, f2, frs2)
  BY <1>4, <1>6
<1>10. Frames(text, ts, frs2) /\ frs2[Len(frs2)] = f2
  <2>1. Grows(ts, ts)
    BY KeepsSame
  <2>. QED  BY <1>1, <1>2, <1>8, <1>9, <2>1, LastMoves
<1>11. Progress(text, ts, f2, 0)
  BY <1>1, <1>2, <1>4, <1>7, ProgressNext
<1>. QED  BY <1>1, <1>10, <1>11 DEF Inv

\* The expander goes on.
LEMMA InvPops ==
  ASSUME NEW text, NEW ts, NEW frs, NEW e \in Nat, Inv(text, ts, frs, e), NEW fr, fr = frs[Len(frs)], Done(text, fr),
         fr.pass = "expand" \/ e > 0, Len(frs) > 1, NEW frs2, Pops(frs, frs2)
  PROVE  Inv(text, ts, frs2, e)
<1>1. /\ TextInv(text) /\ TableInv(text, ts) /\ Owned(text, ts) /\ FrameOK(text, ts, fr)
      /\ fr.pass \notin {"types", "symbols"}
  BY InvFrame
<1>2. Frames(text, ts, frs) /\ Progress(text, ts, fr, e)
  BY DEF Inv
<1>3. Frames(text, ts, frs2) /\ frs2[Len(frs2)].pass = "expand" /\ frs2[Len(frs2)].at = fr.at + 1
  <2>1. Done(text, frs[Len(frs)])
    OBVIOUS
  <2>. QED  BY <1>1, <1>2, <2>1, FramesPopped
<1>4. PICK f2 : f2 = frs2[Len(frs2)]
  OBVIOUS
<1>5. Progress(text, ts, f2, e)
  BY <1>1, <1>2, <1>3, <1>4, ProgressPopped
<1>. QED  BY <1>1, <1>3, <1>4, <1>5 DEF Inv

\* An expansion: its table is filled, a copy inserted, and the passes over it begin.
LEMMA InvPushes ==
  ASSUME NEW text, NEW ts, NEW frs, NEW e \in Nat, Inv(text, ts, frs, e), NEW fr, fr = frs[Len(frs)],
         fr.pass = "expand", NEW a, fr.at = a, NEW new, NEW s, NEW n, NEW fresh, Inserts(text, new, a, s, n, fresh),
         NEW u, u = text[a].id, ts[u].parent # NoTable, \A t \in DOMAIN ts : t <= fresh,
         NEW params, NEW k, NEW d, Filled(text, ts, u, params, k, d),
         NEW ts2, Copies(text, s, n, fresh, ts, d, ts2),
         NEW frs2, Pushes(frs, a, u, frs2)
  PROVE  Inv(new, ts2, frs2, e)
<1>1. /\ TextInv(text) /\ TableInv(text, ts) /\ Owned(text, ts) /\ Shape(ts) /\ FrameOK(text, ts, fr)
      /\ fr.first \in Nat
  BY InvFrame
<1>2. Frames(text, ts, frs) /\ Progress(text, ts, fr, e)
  BY DEF Inv
<1>3. a \in DOMAIN text /\ text[a].op = "expand" /\ a \in Nat
  BY <1>1, InvFrame DEF Inserts
<1>4. u \in DOMAIN ts \ {World} /\ Rooted(ts, u)
  BY <1>1, <1>3 DEF Owned, OwnsTable
<1>5. /\ TableInv(text, d) /\ Grows(ts, d) /\ DOMAIN d = DOMAIN ts
      /\ \A t \in DOMAIN ts : d[t].parent = ts[t].parent /\ (t # text[a].id => d[t].symbols = ts[t].symbols)
  BY DEF Filled
<1>6. TableInv(new, ts2) /\ Grows(d, ts2)
  <2>1. \A t \in DOMAIN ts : d[t].kind = ts[t].kind
    BY <1>5 DEF Grows
  <2>2. d[text[a].id].parent # NoTable
    BY <1>4, <1>5
  <2>. QED  BY <1>1, <1>5, <2>1, <2>2, CopiesKeep
<1>7. Grows(ts, ts2)
  BY <1>5, <1>6, GrowsTwice
<1>8. TextInv(new)
  BY <1>1, InsertedText
<1>9. Rooted(ts2, u) /\ u \in DOMAIN ts2 \ {World} /\ Shape(ts2)
  <2>1. Rooted(ts2, u)
    BY <1>1, <1>4, <1>7, RootedGrows
  <2>2. u \in DOMAIN ts2
    BY <1>4, <1>7 DEF Grows
  <2>. QED  BY <1>4, <1>6, <2>1, <2>2 DEF TableInv
<1>10. Frames(new, ts2, frs2) /\ frs2[Len(frs2)] = Behind(a, u)
  <2>1. Waits(text, ts, frs, a)
    BY <1>2 DEF Waits
  <2>2. Hangs(ts, ts2, u)
    BY <1>1, <1>7, <1>9 DEF Hangs
  <2>. QED  BY <1>1, <2>1, <2>2, FramesPushed
<1>11. PICK f2 : f2 = Behind(a, u)
  OBVIOUS
<1>12. f2.pass = "record" /\ f2.first = a + 1 /\ f2.at = a + 1
  BY <1>11 DEF NewFrame, Behind
<1>13. fr.first <= a
  <2>1. fr.first - 1 < fr.at
    BY <1>1, FrameFields DEF Standing, Within
  <2>. QED  BY <1>1, <1>3, <2>1
<1>14. Progress(new, ts2, f2, e)
  BY <1>1, <1>2, <1>5, <1>12, <1>13, ProgressPushed
<1>. QED  BY <1>6, <1>8, <1>10, <1>11, <1>14 DEF Inv

----
\* The moves as the actions make them.

\* Report counts and keeps the first error, if what it counts has a kind.
LEMMA ReportCounts ==
  ASSUME Counted, NEW count \in Nat, NEW kind, count > 0 => kind # "NoError", Report(kind, count)
  PROVE  Counting
<1>1. errorCount \in Nat /\ (errorCount = 0 <=> firstError = "NoError")
  BY DEF Counted
<1>2. /\ errorCount' = errorCount + count
      /\ firstError' = IF errorCount = 0 /\ count > 0 THEN kind ELSE firstError
  BY DEF Report
<1>3. errorCount' \in Nat /\ errorCount <= errorCount' /\ (errorCount' = 0 <=> errorCount = 0 /\ count = 0)
  BY <1>1, <1>2
<1>4. CASE errorCount = 0 /\ count > 0
  BY <1>2, <1>3, <1>4 DEF Counting, Counted
<1>5. CASE ~(errorCount = 0 /\ count > 0)
  <2>1. firstError' = firstError /\ (errorCount = 0 => count = 0)
    BY <1>2, <1>5
  <2>. QED  BY <1>1, <1>3, <2>1 DEF Counting, Counted
<1>. QED  BY <1>4, <1>5

\* No error is counted.
LEMMA NothingCounts ==
  ASSUME Counted, UNCHANGED errors
  PROVE  Counting
BY DEF Counted, Counting, errors

\* The visitor at work, and the node it visits.
LEMMA AtWork ==
  ASSUME IInv, NEW passes, NEW ops, Visiting(passes, ops)
  PROVE  /\ Frame.at \in DOMAIN code /\ Here = code[Frame.at] /\ Here.op \in ops /\ Frame.pass \in passes
         /\ Frame.at \in Nat /\ (Frame.first = 1 \/ Frame.base # <<>>)
         /\ TextInv(code) /\ TableInv(code, tables) /\ Shape(tables) /\ Owned(code, tables)
         /\ FrameOK(code, tables, Frame) /\ Here \in Node
         /\ Inv(code, tables, frames, errorCount) /\ Counted
<1>1. Inv(code, tables, frames, errorCount) /\ Counted
  BY DEF IInv
<1>2. /\ Frame.pass \in passes /\ Here.op \in ops /\ Frame.at \in DOMAIN code /\ Here = code[Frame.at]
  BY DEF Visiting, Walked, Here
<1>3. PICK fr : fr = frames[Len(frames)]
  OBVIOUS
<1>4. /\ TextInv(code) /\ code \in Seq(Node) /\ TableInv(code, tables) /\ Shape(tables) /\ Owned(code, tables)
      /\ FrameOK(code, tables, fr) /\ fr.at \in Nat /\ (fr.first = 1 \/ fr.base # <<>>)
  BY <1>1, <1>3, InvFrame
<1>5. fr = Frame
  BY <1>3 DEF Frame
<1>6. Here \in Node
  BY <1>2, <1>4
<1>. QED  BY <1>1, <1>2, <1>4, <1>5, <1>6

\* Tables that stay, or to which a declaration is added.
LEMMA SameGrown ==
  ASSUME NEW text, NEW ts, TableInv(text, ts)
  PROVE  Grown(text, ts, ts)
BY KeepsSame DEF Grown, Still

\* Tables to which something is added have grown.
LEMMA KeptGrown ==
  ASSUME NEW text, NEW ts, NEW ts2, TableInv(text, ts2), Keeps(ts, ts2)
  PROVE  Grown(text, ts, ts2)
BY DEF Grown, Still, Keeps

\* A leaf is passed.
LEMMA StepsOn ==
  ASSUME IInv, NEW passes, NEW ops, Visiting(passes, ops), Here.op \in Leaf, Step, code' = code,
         Grown(code, tables, tables'), Counting
  PROVE  Inv(code, tables, frames, errorCount)'
<1>1. /\ Frame.at \in DOMAIN code /\ Here = code[Frame.at] /\ Frame.at \in Nat /\ TextInv(code)
      /\ Inv(code, tables, frames, errorCount) /\ errorCount \in Nat
  BY AtWork DEF Counted
<1>2. PICK fr : fr = frames[Len(frames)]
  OBVIOUS
<1>3. PICK c : c = fr.at + 1
  OBVIOUS
<1>4. fr = Frame
  BY <1>2 DEF Frame
<1>5. Jump(code, fr.at, c)
  <2>1. code \in Seq(Node) /\ code[fr.at].op \in Leaf /\ fr.at \in DOMAIN code
    BY <1>1, <1>4 DEF TextInv
  <2>. QED  BY <1>3, <2>1, LeafJump
<1>6. code[fr.at].op # "end"
  BY <1>1, <1>4 DEF Leaf
<1>7. \A i \in fr.at .. (c - 1) : code[i].op \in OwnsTable => ~Live(code, i)
  <2>1. ASSUME NEW i \in fr.at .. (c - 1)
        PROVE  code[i].op \notin OwnsTable
    <3>1. i = Frame.at
      BY <1>1, <1>3, <1>4
    <3>. QED  BY <1>1, <3>1 DEF Leaf, OwnsTable
  <2>. QED  BY <2>1
<1>8. Replaces(frames, GoneTo(fr, c), frames')
  BY <1>2, <1>3, <1>4 DEF Step, GoTo, Replaces, GoneTo
<1>9. errorCount' \in Nat /\ errorCount <= errorCount'
  BY DEF Counting
<1>10. Inv(code, tables', frames', errorCount')
  BY <1>1, <1>2, <1>5, <1>6, <1>7, <1>8, <1>9, InvGoes
<1>. QED  BY <1>10

\* A node is passed with all that is in it.
LEMMA SkipsOn ==
  ASSUME IInv, NEW passes, NEW ops, Visiting(passes, ops), Here.op \in Opener, SkipChildren, code' = code,
         Frame.pass = "parents" => Here.op = "template",
         Grown(code, tables, tables'), Counting
  PROVE  Inv(code, tables, frames, errorCount)'
<1>1. /\ Frame.at \in DOMAIN code /\ Here = code[Frame.at] /\ Frame.at \in Nat /\ TextInv(code)
      /\ Inv(code, tables, frames, errorCount) /\ errorCount \in Nat
  BY AtWork DEF Counted
<1>2. PICK fr : fr = frames[Len(frames)]
  OBVIOUS
<1>3. PICK c : c = EndOf(code, fr.at) + 1
  OBVIOUS
<1>4. fr = Frame
  BY <1>2 DEF Frame
<1>5. /\ Jump(code, fr.at, c) /\ EndOf(code, fr.at) \in (fr.at + 1) .. Len(code) /\ code[EndOf(code, fr.at)].op = "end"
      /\ \A k \in fr.at .. (EndOf(code, fr.at) - 1) : Height(code, k) >= Height(code, fr.at)
  BY <1>1, <1>3, <1>4, EndOfIs
<1>6. code[fr.at].op # "end"
  BY <1>1, <1>4 DEF Opener
<1>7. ASSUME fr.pass = "parents", NEW i \in fr.at .. (c - 1), code[i].op \in OwnsTable
      PROVE  ~Live(code, i)
  <2>1. code[fr.at].op = "template" /\ fr.at \in DOMAIN code
    BY <1>1, <1>4, <1>7
  <2>2. i # fr.at
    BY <1>7, <2>1 DEF OwnsTable
  <2>3. fr.at < i /\ i \in (fr.at + 1) .. EndOf(code, fr.at)
    BY <1>1, <1>3, <1>4, <1>5, <2>2
  <2>4. \A k \in fr.at .. (i - 1) : k \in fr.at .. (EndOf(code, fr.at) - 1)
    BY <1>1, <1>4, <1>5, <2>3
  <2>5. Within(code, fr.at, i)
    BY <1>5, <2>3, <2>4 DEF Within
  <2>6. Encloses(code, fr.at, i)
    BY <2>1, <2>5 DEF Encloses, Opener
  <2>. QED  BY <2>1, <2>6 DEF Live
<1>8. Replaces(frames, GoneTo(fr, c), frames')
  BY <1>2, <1>3, <1>4 DEF SkipChildren, GoTo, Replaces, GoneTo
<1>9. errorCount' \in Nat /\ errorCount <= errorCount'
  BY DEF Counting
<1>10. Inv(code, tables', frames', errorCount')
  BY <1>1, <1>2, <1>5, <1>6, <1>7, <1>8, <1>9, InvGoes
<1>. QED  BY <1>10

\* A node is entered.
LEMMA EntersOn ==
  ASSUME IInv, NEW passes, NEW ops, Visiting(passes, ops), Here.op \in Opener, code' = code,
         Here.op = "template" => Frame.pass = "record",
         NEW p, Enter(p), Pushable(code, tables', Frame.pass, Frame.at, p), Frame.pass = "expand" => p = <<>>,
         Here.op = "module" /\ Frame.pass # "expand" => p # <<>>,
         Frame.pass = "parents" /\ Here.op \in OwnsTable => tables'[Here.id].parent # NoTable,
         Grown(code, tables, tables'), Counting
  PROVE  Inv(code, tables, frames, errorCount)'
<1>1. /\ Frame.at \in DOMAIN code /\ Here = code[Frame.at] /\ Frame.at \in Nat /\ TextInv(code)
      /\ FrameOK(code, tables, Frame) /\ (Frame.first = 1 \/ Frame.base # <<>>)
      /\ Inv(code, tables, frames, errorCount) /\ errorCount \in Nat
  BY AtWork DEF Counted
<1>2. PICK fr : fr = frames[Len(frames)]
  OBVIOUS
<1>3. fr = Frame
  BY <1>2 DEF Frame
<1>4. ASSUME fr.first = 1, fr.pass # "expand", fr.open = <<>>
      PROVE  p # <<>>
  <2>1. CASE Here.op = "module"
    BY <1>3, <1>4, <2>1
  <2>2. CASE Here.op # "module"
    BY <1>1, <1>3, <1>4, <2>2, OpenInModule
  <2>. QED  BY <2>1, <2>2
<1>5. Replaces(frames, Entering(fr, p), frames')
  <2>1. Entering(Frame, p) = [Frame EXCEPT !.at = Frame.at + 1, !.scopes = Frame.scopes \o p,
                                           !.open = Append(Frame.open, Len(p))]
    BY Zenon DEF Entering
  <2>2. frames' = [frames EXCEPT ![Len(frames)] = Entering(Frame, p)]
    BY <2>1, Zenon DEF Enter
  <2>. QED  BY <1>3, <2>2 DEF Replaces
<1>6. errorCount' \in Nat /\ errorCount <= errorCount'
  BY DEF Counting
<1>7. Inv(code, tables', frames', errorCount')
  BY <1>1, <1>2, <1>3, <1>4, <1>5, <1>6, InvEnters
<1>. QED  BY <1>7

-----------------------------------------------------------------------------
(***************************************************************************)
(* What the actions look up and enter.                                     *)
(***************************************************************************)

\* The tables that a visitor asks for.
LEMMA ScopesHere ==
  ASSUME IInv, NEW passes, NEW ops, Visiting(passes, ops), "expand" \notin passes, Here.op \notin {"module", "end"}
  PROVE  /\ TopScope \in DOMAIN tables \ {World} /\ CurrentScope \in DOMAIN tables \ {World}
         /\ tables[CurrentScope].kind # "TemplateParameter"
         /\ Frame.pass = "parents" => Rooted(tables, TopScope) /\ Rooted(tables, CurrentScope)
<1>1. /\ Frame.at \in DOMAIN code /\ Here = code[Frame.at] /\ Frame.pass \in passes /\ Frame.at \in Nat
      /\ TextInv(code) /\ TableInv(code, tables) /\ FrameOK(code, tables, Frame)
      /\ (Frame.first = 1 \/ Frame.base # <<>>)
  BY AtWork
<1>2. PICK t : t = TopScope
  OBVIOUS
<1>3. PICK u : u = OutsideExpansions(tables, t)
  OBVIOUS
<1>4. t = Frame.scopes[Len(Frame.scopes)] /\ u = CurrentScope
  BY <1>2, <1>3 DEF TopScope, CurrentScope
<1>5. code[Frame.at].op \notin {"module", "end"} /\ Frame.pass # "expand"
  BY <1>1
<1>6. /\ t \in DOMAIN tables \ {World} /\ u \in DOMAIN tables \ {World} /\ tables[u].kind # "TemplateParameter"
      /\ Frame.pass = "parents" => Rooted(tables, t) /\ Rooted(tables, u)
  BY <1>1, <1>3, <1>4, <1>5, TopAndScope
<1>. QED  BY <1>2, <1>4, <1>6

\* A name that is found nowhere is reported.
LEMMA QualifiedErrorIs ==
  ASSUME NEW t, NEW path, path \in Seq(STRING), path # <<>>, FindQualified(t, path) = None
  PROVE  QualifiedError(t, path) # "NoError"
<1>. DEFINE part == Parts(t, path)
            X == {k \in DOMAIN path : part[k] = None \/ (k < Len(path) /\ part[k].is # "namespace")}
            i == Least(X)
<1>1. Len(path) \in Nat \ {0} /\ DOMAIN path = 1 .. Len(path)
  BY EmptySeq, LenProperties
<1>2. Len(path) \in X
  BY <1>1 DEF FindQualified
<1>3. X \in SUBSET Nat
  BY <1>1
<1>4. i \in X
  BY <1>2, <1>3, LeastIs
<1>5. i \in 1 .. Len(path) /\ (part[i] = None \/ i < Len(path))
  BY <1>1, <1>4
<1>. DEFINE a == part[i] = None
<1>6. QualifiedError(t, path) =
        CASE Len(path) = 1 -> "SymbolNotDefined"
          [] i = 1 /\ i < Len(path) /\ a -> "NamespaceDoesNotExist"
          [] i = 1 /\ i < Len(path) /\ ~a -> "IdentifierIsNotNamespace"
          [] i > 1 /\ i < Len(path) /\ a -> "ChildNamespaceDoesNotExist"
          [] i > 1 /\ i < Len(path) /\ ~a -> "MemberOfNamespaceIsNotNamespace"
          [] i > 1 /\ i = Len(path) -> "NamespaceMemberDoesNotExist"
  BY DEF QualifiedError
<1>7. i \in Nat /\ a \in BOOLEAN
  BY <1>1, <1>5
<1>. HIDE DEF i, a
<1>8. \/ Len(path) = 1
      \/ Len(path) # 1 /\ i = 1 /\ i < Len(path) /\ a
      \/ Len(path) # 1 /\ i = 1 /\ i < Len(path) /\ ~a
      \/ Len(path) # 1 /\ i > 1 /\ i < Len(path) /\ a
      \/ Len(path) # 1 /\ i > 1 /\ i < Len(path) /\ ~a
      \/ Len(path) # 1 /\ i > 1 /\ i = Len(path)
  <2>1. PICK n \in Nat : n = Len(path) /\ n # 0 /\ i \in 1 .. n
    BY <1>1, <1>5
  <2>2. n = 1 \/ (n # 1 /\ i = 1 /\ i < n) \/ (n # 1 /\ i > 1 /\ i < n) \/ (n # 1 /\ i > 1 /\ i = n)
    BY <1>7, <2>1
  <2>. QED  BY <2>1, <2>2, Zenon
<1>. QED  BY <1>1, <1>6, <1>7, <1>8

\* Types that are wrong are counted.
LEMMA TypesCount ==
  ASSUME IInv, NEW passes, NEW ops, Visiting(passes, ops), NEW t, ResolveTypesIn(t)
  PROVE  Counting
<1>1. Here \in Node /\ Counted
  BY AtWork
<1>. DEFINE wrong == {k \in DOMAIN Here.types : TypeError(t, Here.types[k]) # "NoError"}
            kind  == IF wrong = {} THEN "NoError" ELSE TypeError(t, Here.types[Least(wrong)])
<1>2. Report(kind, Cardinality(wrong))
  BY DEF ResolveTypesIn
<1>3. DOMAIN Here.types = 1 .. Len(Here.types) /\ Len(Here.types) \in Nat
  BY <1>1, NodeFields, LenProperties
<1>4. wrong \in SUBSET (1 .. Len(Here.types)) /\ wrong \in SUBSET Nat
  BY <1>3
<1>5. IsFiniteSet(wrong)
  <2>1. IsFiniteSet(1 .. Len(Here.types))
    BY <1>3, FS_Interval
  <2>. QED  BY <1>4, <2>1, FS_Subset
<1>6. Cardinality(wrong) \in Nat /\ (wrong = {} => Cardinality(wrong) = 0)
  BY <1>5, FS_CardinalityType, FS_EmptySet
<1>7. ASSUME wrong # {}
      PROVE  kind # "NoError"
  <2>1. Least(wrong) \in wrong
    BY <1>4, <1>7, LeastIs
  <2>. QED  BY <1>7, <2>1
<1>8. Cardinality(wrong) > 0 => kind # "NoError"
  BY <1>6, <1>7
<1>. HIDE DEF wrong, kind
<1>. QED  BY <1>1, <1>2, <1>6, <1>8, ReportCounts

\* A declaration in the scope the visitor is in.
LEMMA DeclaredHere ==
  ASSUME IInv, NEW passes, NEW ops, Visiting(passes, ops), "expand" \notin passes, Here.op \notin {"module", "end"},
         NEW n, NEW is \in SymbolKinds \ {"namespace", "type"}, NEW arg,
         is = "template" => Here.op = "template",
         DeclareIn(CurrentScope, Symbol(n, is, Here.id, arg))
  PROVE  Grown(code, tables, tables') /\ Counting
<1>1. /\ Frame.at \in DOMAIN code /\ Here = code[Frame.at] /\ TableInv(code, tables) /\ Counted
  BY AtWork
<1>2. PICK u \in DOMAIN tables : u = CurrentScope /\ tables[u].kind # "TemplateParameter"
  BY ScopesHere
<1>3. PICK of : of = Here.id
  OBVIOUS
<1>4. /\ tables' = Declare(tables, u, Symbol(n, is, of, arg))
      /\ Report("SymbolAlreadyDefinedInScope", IF Find(u, Symbol(n, is, of, arg).name) = None THEN 0 ELSE 1)
  BY <1>2, <1>3 DEF DeclareIn
<1>5. is = "template" => \E i \in DOMAIN code : code[i].op = "template" /\ code[i].id = of
  BY <1>1, <1>3
<1>6. /\ TableInv(code, Declare(tables, u, Symbol(n, is, of, arg)))
      /\ Keeps(tables, Declare(tables, u, Symbol(n, is, of, arg)))
  BY <1>1, <1>2, <1>5, DeclareKeeps
<1>7. Grown(code, tables, tables')
  BY <1>4, <1>6, KeptGrown
<1>8. Counting
  <2>1. PICK c \in Nat : Report("SymbolAlreadyDefinedInScope", c)
    BY <1>4
  <2>. QED  BY <1>1, <2>1, ReportCounts
<1>. QED  BY <1>7, <1>8

\* A node's table is hung below another one, unless it hangs already.
LEMMA ParentSet ==
  ASSUME IInv, NEW passes, NEW ops, Visiting(passes, ops), Here.op \in OwnsTable,
         NEW p \in DOMAIN tables, Rooted(tables, p), Here.op = "expand" => p # World,
         tables' = WithParent(Here.id, p)
  PROVE  /\ Grown(code, tables, tables') /\ tables'[Here.id].parent # NoTable /\ Rooted(tables', Here.id)
<1>1. /\ Frame.at \in DOMAIN code /\ Here = code[Frame.at] /\ TableInv(code, tables) /\ Owned(code, tables)
      /\ Shape(tables)
  BY AtWork
<1>2. PICK u : u = Here.id
  OBVIOUS
<1>3. /\ u \in DOMAIN tables \ {World} /\ (tables[u].kind = "TemplateParameter" <=> Here.op = "expand")
      /\ tables[u].parent # NoTable => Rooted(tables, u)
  BY <1>1, <1>2 DEF Owned
<1>4. CASE tables[u].parent # NoTable
  <2>1. tables' = tables
    BY <1>2, <1>4 DEF WithParent
  <2>2. Grown(code, tables, tables)
    BY <1>1, SameGrown
  <2>. QED  BY <1>2, <1>3, <1>4, <2>1, <2>2
<1>5. CASE tables[u].parent = NoTable
  <2>1. HangsAt(tables, u, p, tables')
    BY <1>2, <1>5 DEF WithParent, HangsAt
  <2>2. tables[u].kind = "TemplateParameter" => p # World
    BY <1>3
  <2>3. /\ TableInv(code, tables') /\ Grows(tables, tables') /\ Rooted(tables', u)
        /\ \A v \in DOMAIN tables : /\ tables'[v].symbols = tables[v].symbols
                                    /\ tables'[v].parent = IF v = u THEN p ELSE tables[v].parent
    BY <1>1, <1>3, <1>5, <2>1, <2>2, HangKeeps
  <2>4. p # NoTable
    BY <1>1 DEF Shape, NoTable
  <2>5. Still(tables, tables')
    BY <2>3 DEF Still
  <2>. QED  BY <1>2, <1>3, <2>3, <2>4, <2>5 DEF Grown
<1>. QED  BY <1>4, <1>5

\* The invariant, put together again.
LEMMA IInvAgain ==
  ASSUME IInv, Inv(code, tables, frames, errorCount)', DOMAIN tables \subseteq DOMAIN tables', UNCHANGED scopeOf,
         Counted', verdict' \in Verdicts
  PROVE  IInv'
<1>1. \A n \in DOMAIN scopeOf : scopeOf[n] \in DOMAIN tables
  BY DEF IInv, ScopesKnown
<1>2. ScopesKnown'
  BY <1>1 DEF ScopesKnown
<1>. QED  BY <1>2 DEF IInv

-----------------------------------------------------------------------------
(***************************************************************************)
(* The actions, one by one.                                                *)
(***************************************************************************)

\* The actions that pass a leaf.
LEMMA SkipLeafKeeps ==
  ASSUME IInv, SkipLeaf
  PROVE  IInv'
<1>1. PICK passes, ops : Visiting(passes, ops) /\ ops \subseteq Leaf
  BY DEF SkipLeaf, Leaf
<1>2. Step /\ UNCHANGED <<code, tables, scopeOf, meaning, definedSymbols, errors, verdict>>
  BY DEF SkipLeaf
<1>3. Here.op \in Leaf /\ TableInv(code, tables) /\ Counted
  BY <1>1, AtWork
<1>4. Grown(code, tables, tables') /\ Counting
  BY <1>2, <1>3, SameGrown, NothingCounts
<1>5. Inv(code, tables, frames, errorCount)'
  BY <1>1, <1>2, <1>3, <1>4, StepsOn
<1>. QED  BY <1>2, <1>4, <1>5, IInvAgain DEF Counting, IInv

\* A local is defined (ResolveSymbolsPass).
LEMMA DefineVariableKeeps ==
  ASSUME IInv, DefineVariable
  PROVE  IInv'
<1>1. Visiting({"symbols"}, {"var"}) /\ Step /\ UNCHANGED <<code, tables, scopeOf, meaning, errors, verdict>>
  BY DEF DefineVariable
<1>2. Here.op \in {"var"} /\ TableInv(code, tables) /\ Counted
  BY <1>1, AtWork
<1>3. Grown(code, tables, tables') /\ Counting
  BY <1>1, <1>2, SameGrown, NothingCounts
<1>4. Here.op \in Leaf
  BY <1>2 DEF Leaf
<1>5. Inv(code, tables, frames, errorCount)'
  BY <1>1, <1>3, <1>4, StepsOn
<1>. QED  BY <1>1, <1>3, <1>5, IInvAgain DEF Counting, IInv

\* The type of a variable is looked up (ResolveTypesPass).
LEMMA ResolveVariableTypeKeeps ==
  ASSUME IInv, ResolveVariableType
  PROVE  IInv'
<1>1. /\ Visiting({"types"}, {"var"}) /\ ResolveTypesIn(TopScope) /\ Step
      /\ UNCHANGED <<code, tables, scopeOf, definedSymbols, verdict>>
  BY DEF ResolveVariableType
<1>2. Here.op \in {"var"} /\ TableInv(code, tables) /\ Counted
  BY <1>1, AtWork
<1>3. Grown(code, tables, tables') /\ Counting
  BY <1>1, <1>2, SameGrown, TypesCount
<1>4. Here.op \in Leaf
  BY <1>2 DEF Leaf
<1>5. Inv(code, tables, frames, errorCount)'
  BY <1>1, <1>3, <1>4, StepsOn
<1>. QED  BY <1>1, <1>3, <1>5, IInvAgain DEF Counting, IInv

\* A name is looked up (ResolveSymbolsPass).
LEMMA ResolveUseKeeps ==
  ASSUME IInv, ResolveUse
  PROVE  IInv'
<1>. DEFINE found == FindQualified(TopScope, Here.name)
            early == found # None /\ UsedEarly(found)
            kind  == CASE found = None -> QualifiedError(TopScope, Here.name)
                       [] early -> "VariableUsedBeforeDefinition"
                       [] OTHER -> "NoError"
            count == IF found = None \/ early THEN 1 ELSE 0
<1>1. /\ Visiting({"symbols"}, {"use"}) /\ Report(kind, count) /\ Step
      /\ UNCHANGED <<code, tables, scopeOf, definedSymbols, verdict>>
  BY DEF ResolveUse
<1>2. /\ Here.op \in {"use"} /\ TableInv(code, tables) /\ Counted /\ Here = code[Frame.at] /\ Frame.at \in DOMAIN code
      /\ Here \in Node /\ TextInv(code)
  BY <1>1, AtWork
<1>3. Here.name \in Seq(STRING) /\ Here.name # <<>>
  BY <1>2, NodeFields DEF TextInv
<1>4. found = None => QualifiedError(TopScope, Here.name) # "NoError"
  BY <1>3, QualifiedErrorIs
<1>5. count \in Nat /\ (count > 0 => found = None \/ early)
  OBVIOUS
<1>6. count > 0 => kind # "NoError"
  <2>1. CASE found = None
    <3>1. kind = QualifiedError(TopScope, Here.name)
      BY <2>1
    <3>. QED  BY <1>4, <2>1, <3>1
  <2>2. CASE early
    <3>1. kind = "VariableUsedBeforeDefinition"
      BY <2>2
    <3>. QED  BY <3>1
  <2>. QED  BY <1>5, <2>1, <2>2
<1>. HIDE DEF kind, count, found, early
<1>7. Grown(code, tables, tables') /\ Counting
  BY <1>1, <1>2, <1>5, <1>6, SameGrown, ReportCounts
<1>8. Here.op \in Leaf
  BY <1>2 DEF Leaf
<1>9. Inv(code, tables, frames, errorCount)'
  BY <1>1, <1>7, <1>8, StepsOn
<1>. QED  BY <1>1, <1>7, <1>9, IInvAgain DEF Counting, IInv

\* The actions that pass a template, or an expansion that is refused.
LEMMA SkipTemplateKeeps ==
  ASSUME IInv, SkipTemplate
  PROVE  IInv'
<1>. DEFINE passes == {"parents", "expand", "types", "symbols"}
            ops == {"template"}
<1>1. /\ Visiting(passes, ops) /\ SkipChildren
      /\ UNCHANGED <<code, tables, scopeOf, meaning, definedSymbols, errors, verdict>>
  BY DEF SkipTemplate
<1>2. Here.op \in ops /\ TableInv(code, tables) /\ Counted
  BY <1>1, AtWork
<1>3. Grown(code, tables, tables') /\ Counting
  BY <1>1, <1>2, SameGrown, NothingCounts
<1>4. Here.op = "template" /\ Here.op \in Opener
  BY <1>2 DEF Opener
<1>. HIDE DEF passes, ops
<1>5. Inv(code, tables, frames, errorCount)'
  BY <1>1, <1>3, <1>4, SkipsOn
<1>. QED  BY <1>1, <1>3, <1>5, IInvAgain DEF Counting, IInv

\* A template is declared, and not looked into (PopulateSymbolTablesPass).
LEMMA DeclareTemplateKeeps ==
  ASSUME IInv, DeclareTemplate
  PROVE  IInv'
<1>. DEFINE passes == {"populate"}
            ops == {"template"}
<1>1. /\ Visiting(passes, ops) /\ DeclareIn(CurrentScope, Symbol(Here.name[1], "template", Here.id, 0))
      /\ SkipChildren /\ UNCHANGED <<code, scopeOf, meaning, definedSymbols, verdict>>
  BY DEF DeclareTemplate
<1>2. Here.op \in ops
  BY <1>1, AtWork
<1>3. Here.op = "template" /\ Here.op \in Opener /\ "expand" \notin passes /\ Here.op \notin {"module", "end"}
  BY <1>2 DEF Opener
<1>. HIDE DEF passes, ops
<1>4. PICK n : n = Here.name[1]
  OBVIOUS
<1>5. "template" \in SymbolKinds \ {"namespace", "type"}
  BY DEF SymbolKinds
<1>6. Grown(code, tables, tables') /\ Counting
  BY <1>1, <1>3, <1>4, <1>5, DeclaredHere
<1>7. Inv(code, tables, frames, errorCount)'
  BY <1>1, <1>3, <1>6, SkipsOn
<1>8. DOMAIN tables \subseteq DOMAIN tables'
  BY <1>6 DEF Grown, Grows
<1>. QED  BY <1>1, <1>6, <1>7, <1>8, IInvAgain DEF Counting, IInv

\* A variable or a class is declared (PopulateSymbolTablesPass).
LEMMA DeclareVariableOrClassKeeps ==
  ASSUME IInv, DeclareVariableOrClass
  PROVE  IInv'
<1>. DEFINE passes == {"populate"}
            ops == {"var", "class"}
            is == IF Here.op = "var" THEN "variable" ELSE "class"
            arg == IF is = "variable" THEN 1 ELSE 0
<1>1. /\ Visiting(passes, ops) /\ DeclareIn(CurrentScope, Symbol(Here.name[1], is, Here.id, arg))
      /\ Step /\ UNCHANGED <<code, scopeOf, meaning, definedSymbols, verdict>>
  BY DEF DeclareVariableOrClass
<1>2. Here.op \in ops
  BY <1>1, AtWork
<1>3. Here.op \in Leaf /\ "expand" \notin passes /\ Here.op \notin {"module", "end"}
  BY <1>2 DEF Leaf
<1>5. is \in SymbolKinds \ {"namespace", "type"} /\ is # "template"
  BY DEF SymbolKinds
<1>. HIDE DEF passes, ops, is, arg
<1>4. PICK n : n = Here.name[1]
  OBVIOUS
<1>6. Grown(code, tables, tables') /\ Counting
  BY <1>1, <1>3, <1>4, <1>5, DeclaredHere
<1>7. Inv(code, tables, frames, errorCount)'
  BY <1>1, <1>3, <1>6, StepsOn
<1>8. DOMAIN tables \subseteq DOMAIN tables'
  BY <1>6 DEF Grown, Grows
<1>. QED  BY <1>1, <1>6, <1>7, <1>8, IInvAgain DEF Counting, IInv

\* An expansion of what is no template.
LEMMA ExpandRefusedKeeps ==
  ASSUME IInv, ExpandRefused
  PROVE  IInv'
<1>. DEFINE passes == {"expand"}
            t == tables[Here.id].parent
            kind == IF Sought = None THEN QualifiedError(t, Here.name) ELSE "SymbolIsNotATemplate"
<1>1. /\ Visiting(passes, passes) /\ Report(kind, 1) /\ SkipChildren
      /\ UNCHANGED <<code, tables, scopeOf, meaning, definedSymbols, verdict>>
  BY DEF ExpandRefused, Expanding
<1>2. /\ Here.op \in passes /\ Frame.pass \in passes /\ TableInv(code, tables) /\ Counted
      /\ Here = code[Frame.at] /\ Frame.at \in DOMAIN code /\ Here \in Node /\ TextInv(code)
  BY <1>1, AtWork
<1>3. Here.op \in Opener /\ Here.op # "end" /\ Frame.pass # "parents"
  BY <1>2 DEF Opener
<1>4. Here.name \in Seq(STRING) /\ Here.name # <<>>
  BY <1>2, <1>3, NodeFields DEF TextInv
<1>5. Sought = None => QualifiedError(t, Here.name) # "NoError"
  BY <1>4, QualifiedErrorIs DEF Sought
<1>6. kind # "NoError"
  BY <1>5
<1>. HIDE DEF kind, passes
<1>7. Grown(code, tables, tables') /\ Counting
  BY <1>1, <1>2, <1>6, SameGrown, ReportCounts
<1>8. Inv(code, tables, frames, errorCount)'
  BY <1>1, <1>3, <1>7, SkipsOn
<1>. QED  BY <1>1, <1>7, <1>8, IInvAgain DEF Counting, IInv

\* The table of a node may be pushed with it.
LEMMA EntersOwn ==
  ASSUME IInv, NEW passes, NEW ops, Visiting(passes, ops), "expand" \notin passes, Here.op \in OwnsTable,
         code' = code, Enter(<<Here.id>>), Grown(code, tables, tables'), Counting,
         Frame.pass = "parents" => tables'[Here.id].parent # NoTable /\ Rooted(tables', Here.id)
  PROVE  Inv(code, tables, frames, errorCount)'
<1>1. /\ Frame.at \in DOMAIN code /\ Here = code[Frame.at] /\ Owned(code, tables) /\ Here \in Node /\ Frame.pass \in passes
  BY AtWork
<1>2. PICK u : u = Here.id
  OBVIOUS
<1>3. PICK p : p = <<u>>
  OBVIOUS
<1>4. /\ u \in DOMAIN tables \ {World} /\ (tables[u].kind = "TemplateParameter" <=> Here.op = "expand") /\ u \in Nat
  BY <1>1, <1>2, NodeFields DEF Owned
<1>5. u \in DOMAIN tables' /\ tables'[u].kind = tables[u].kind
  BY <1>4 DEF Grown, Grows
<1>6. p \in Seq(Nat) /\ Len(p) = 1 /\ DOMAIN p = {1} /\ p[1] = u /\ p # <<>>
  BY <1>3, <1>4
<1>7. Loose(tables', u) => Here.op = "expand"
  BY <1>4, <1>5 DEF Loose
<1>8. Pushable(code, tables', Frame.pass, Frame.at, p)
  BY <1>1, <1>2, <1>4, <1>5, <1>6, <1>7 DEF Pushable
<1>9. Here.op \in Opener /\ Here.op # "template" /\ Frame.pass # "expand" /\ Enter(p)
  BY <1>1, <1>2, <1>3 DEF OwnsTable, Opener
<1>. QED  BY <1>6, <1>8, <1>9, EntersOn

\* The second pass hangs the tables up.
LEMMA RootedWorld ==
  ASSUME NEW ts, World \in DOMAIN ts
  PROVE  Rooted(ts, World)
<1>1. {World} \in SUBSET DOMAIN ts /\ World \in {World} /\ \A v \in {World} : v = World \/ ts[v].parent \in {World}
  OBVIOUS
<1>. QED  BY <1>1 DEF Rooted

\* The table has a parent that hangs below the global one.
LEMMA ParentsGiven ==
  ASSUME IInv, NEW passes, NEW ops, Visiting(passes, ops), "expand" \notin passes, Here.op \in OwnsTable,
         tables' = IF Frame.pass = "parents" THEN WithParent(Here.id, IF Here.op = "module" THEN World ELSE TopScope)
                                             ELSE tables
  PROVE  /\ Grown(code, tables, tables')
         /\ Frame.pass = "parents" => tables'[Here.id].parent # NoTable /\ Rooted(tables', Here.id)
<1>1. TableInv(code, tables) /\ World \in DOMAIN tables
  BY AtWork DEF Shape
<1>2. CASE Frame.pass # "parents"
  BY <1>1, <1>2, SameGrown
<1>3. CASE Frame.pass = "parents"
  <2>1. PICK p : p = IF Here.op = "module" THEN World ELSE TopScope
    OBVIOUS
  <2>2. p \in DOMAIN tables /\ Rooted(tables, p) /\ (Here.op = "expand" => p # World)
    <3>1. CASE Here.op = "module"
      BY <1>1, <2>1, <3>1, RootedWorld
    <3>2. CASE Here.op # "module"
      <4>1. Here.op \notin {"module", "end"}
        BY <3>2 DEF OwnsTable
      <4>2. TopScope \in DOMAIN tables \ {World} /\ Rooted(tables, TopScope)
        BY <1>3, <4>1, ScopesHere
      <4>. QED  BY <2>1, <3>2, <4>2
    <3>. QED  BY <3>1, <3>2
  <2>3. tables' = WithParent(Here.id, p)
    BY <1>3, <2>1
  <2>. QED  BY <2>2, <2>3, ParentSet
<1>. QED  BY <1>2, <1>3

\* The actions that enter a node with a table of its own.
LEMMA EnterBlockKeeps ==
  ASSUME IInv, EnterBlock
  PROVE  IInv'
<1>. DEFINE ops == {"module", "block"}
<1>1. /\ Visiting(FollowScopes, ops) /\ Enter(<<Here.id>>)
      /\ UNCHANGED <<code, scopeOf, meaning, definedSymbols, errors, verdict>>
      /\ tables' = IF Frame.pass = "parents" THEN WithParent(Here.id, IF Here.op = "module" THEN World ELSE TopScope)
                                             ELSE tables
  BY DEF EnterBlock
<1>2. Here.op \in ops /\ Counted
  BY <1>1, AtWork
<1>3. Here.op \in OwnsTable /\ "expand" \notin FollowScopes
  BY <1>2 DEF OwnsTable, FollowScopes
<1>. HIDE DEF ops
<1>4. /\ Grown(code, tables, tables')
      /\ Frame.pass = "parents" => tables'[Here.id].parent # NoTable /\ Rooted(tables', Here.id)
  BY <1>1, <1>3, ParentsGiven
<1>5. Counting
  BY <1>1, <1>2, NothingCounts
<1>6. Inv(code, tables, frames, errorCount)'
  BY <1>1, <1>3, <1>4, <1>5, EntersOwn
<1>7. DOMAIN tables \subseteq DOMAIN tables'
  BY <1>4 DEF Grown, Grows
<1>. QED  BY <1>1, <1>5, <1>6, <1>7, IInvAgain DEF Counting, IInv

\* A function is entered.
LEMMA EnterFunctionKeeps ==
  ASSUME IInv, EnterFunction
  PROVE  IInv'
<1>. DEFINE passes == {"record", "parents", "symbols"}
            ops == {"func"}
<1>1. /\ Visiting(passes, ops) /\ Enter(<<Here.id>>)
      /\ UNCHANGED <<code, scopeOf, meaning, definedSymbols, errors, verdict>>
      /\ tables' = IF Frame.pass = "parents" THEN WithParent(Here.id, TopScope) ELSE tables
  BY DEF EnterFunction
<1>2. Here.op \in ops /\ Counted
  BY <1>1, AtWork
<1>3. Here.op \in OwnsTable /\ "expand" \notin passes /\ Here.op # "module"
  BY <1>2 DEF OwnsTable
<1>. HIDE DEF ops, passes
<1>4. /\ Grown(code, tables, tables')
      /\ Frame.pass = "parents" => tables'[Here.id].parent # NoTable /\ Rooted(tables', Here.id)
  BY <1>1, <1>3, ParentsGiven
<1>5. Counting
  BY <1>1, <1>2, NothingCounts
<1>6. Inv(code, tables, frames, errorCount)'
  BY <1>1, <1>3, <1>4, <1>5, EntersOwn
<1>7. DOMAIN tables \subseteq DOMAIN tables'
  BY <1>4 DEF Grown, Grows
<1>. QED  BY <1>1, <1>5, <1>6, <1>7, IInvAgain DEF Counting, IInv

\* An expansion is entered, its arguments are looked up.
LEMMA EnterExpansionKeeps ==
  ASSUME IInv, EnterExpansion
  PROVE  IInv'
<1>. DEFINE ops == {"expand"}
<1>1. /\ Visiting(FollowScopes, ops) /\ Enter(<<Here.id>>)
      /\ UNCHANGED <<code, scopeOf, definedSymbols, verdict>>
      /\ tables' = IF Frame.pass = "parents" THEN WithParent(Here.id, TopScope) ELSE tables
      /\ ResolveTypesIn(TopScope) \/ UNCHANGED errors
  BY DEF EnterExpansion
<1>2. Here.op \in ops /\ Counted
  BY <1>1, AtWork
<1>3. Here.op \in OwnsTable /\ "expand" \notin FollowScopes /\ Here.op # "module"
  BY <1>2 DEF OwnsTable, FollowScopes
<1>. HIDE DEF ops
<1>4. /\ Grown(code, tables, tables')
      /\ Frame.pass = "parents" => tables'[Here.id].parent # NoTable /\ Rooted(tables', Here.id)
  BY <1>1, <1>3, ParentsGiven
<1>5. Counting
  <2>1. CASE UNCHANGED errors
    BY <1>2, <2>1, NothingCounts
  <2>2. CASE ResolveTypesIn(TopScope)
    BY <1>1, <2>2, TypesCount
  <2>. QED  BY <1>1, <2>1, <2>2
<1>6. Inv(code, tables, frames, errorCount)'
  BY <1>1, <1>3, <1>4, <1>5, EntersOwn
<1>7. DOMAIN tables \subseteq DOMAIN tables'
  BY <1>4 DEF Grown, Grows
<1>. QED  BY <1>1, <1>5, <1>6, <1>7, IInvAgain DEF Counting, IInv

\* A function is entered, the types of its parameters are looked up.
LEMMA ResolveParametersKeeps ==
  ASSUME IInv, ResolveParameters
  PROVE  IInv'
<1>. DEFINE passes == {"types"}
            ops == {"func"}
<1>1. /\ Visiting(passes, ops) /\ Enter(<<Here.id>>) /\ ResolveTypesIn(Here.id)
      /\ UNCHANGED <<code, tables, scopeOf, definedSymbols, verdict>>
  BY DEF ResolveParameters
<1>2. Here.op \in ops /\ Frame.pass \in passes /\ TableInv(code, tables)
  BY <1>1, AtWork
<1>3. Here.op \in OwnsTable /\ "expand" \notin passes /\ Frame.pass # "parents"
  BY <1>2 DEF OwnsTable
<1>. HIDE DEF ops, passes
<1>4. Grown(code, tables, tables') /\ Counting
  BY <1>1, <1>2, SameGrown, TypesCount
<1>5. Inv(code, tables, frames, errorCount)'
  BY <1>1, <1>3, <1>4, EntersOwn
<1>. QED  BY <1>1, <1>4, <1>5, IInvAgain DEF Counting, IInv

\* The actions that enter a node without pushing anything.
LEMMA EntersBare ==
  ASSUME IInv, NEW passes, NEW ops, Visiting(passes, ops), Here.op \in Opener, Enter(<<>>),
         Here.op = "template" => Frame.pass = "record", Frame.pass # "parents",
         Here.op = "module" => Frame.pass = "expand", UNCHANGED <<code, tables, errors>>
  PROVE  Inv(code, tables, frames, errorCount)' /\ Counting
<1>1. TableInv(code, tables) /\ Counted
  BY AtWork
<1>2. PICK p : p = <<>>
  OBVIOUS
<1>3. p \in Seq(Nat) /\ DOMAIN p = {}
  BY <1>2
<1>4. Pushable(code, tables', Frame.pass, Frame.at, p)
  BY <1>3 DEF Pushable
<1>5. Grown(code, tables, tables') /\ Counting
  BY <1>1, SameGrown, NothingCounts
<1>. QED  BY <1>2, <1>4, <1>5, EntersOn

\* The recorder enters a template.
LEMMA RecordTemplateKeeps ==
  ASSUME IInv, RecordTemplate
  PROVE  IInv'
<1>. DEFINE passes == {"record"}
            ops == {"template"}
<1>1. /\ Visiting(passes, ops) /\ Enter(<<>>)
      /\ UNCHANGED <<code, tables, scopeOf, meaning, definedSymbols, errors, verdict>>
  BY DEF RecordTemplate
<1>2. Here.op \in ops /\ Frame.pass \in passes
  BY <1>1, AtWork
<1>3. Here.op \in Opener /\ Frame.pass = "record" /\ Here.op # "module"
  BY <1>2 DEF Opener
<1>. HIDE DEF ops, passes
<1>4. Inv(code, tables, frames, errorCount)' /\ Counting
  BY <1>1, <1>3, EntersBare
<1>. QED  BY <1>1, <1>4, IInvAgain DEF Counting, IInv

\* The expander enters a node.
LEMMA WalkIntoKeeps ==
  ASSUME IInv, WalkInto
  PROVE  IInv'
<1>. DEFINE passes == {"expand"}
            ops == {"module", "block", "func", "namespace"}
<1>1. /\ Visiting(passes, ops) /\ Enter(<<>>)
      /\ UNCHANGED <<code, tables, scopeOf, meaning, definedSymbols, errors, verdict>>
  BY DEF WalkInto
<1>2. Here.op \in ops /\ Frame.pass \in passes
  BY <1>1, AtWork
<1>3. Here.op \in Opener /\ Frame.pass = "expand" /\ Here.op # "template"
  BY <1>2 DEF Opener
<1>. HIDE DEF ops, passes
<1>4. Inv(code, tables, frames, errorCount)' /\ Counting
  BY <1>1, <1>3, EntersBare
<1>. QED  BY <1>1, <1>4, IInvAgain DEF Counting, IInv

\* A node is left.
LEMMA LeaveScopeKeeps ==
  ASSUME IInv, LeaveScope
  PROVE  IInv'
<1>1. /\ ~Walked /\ Here.op = "end" /\ UNCHANGED <<code, tables, scopeOf, meaning, definedSymbols, errors, verdict>>
      /\ Frame.at \in DOMAIN code /\ Here = code[Frame.at] /\ Frame.open # <<>>
  BY DEF LeaveScope, Walked, Here
<1>2. Inv(code, tables, frames, errorCount) /\ Counted /\ errorCount \in Nat
  BY DEF IInv, Counted
<1>3. PICK fr : fr = frames[Len(frames)]
  OBVIOUS
<1>4. fr = Frame
  BY <1>3 DEF Frame
<1>5. Leaving(Frame) = [Frame EXCEPT !.at = Frame.at + 1,
                                     !.open = SubSeq(Frame.open, 1, Len(Frame.open) - 1),
                                     !.scopes = SubSeq(Frame.scopes, 1, Len(Frame.scopes) - Frame.open[Len(Frame.open)])]
  BY Zenon DEF Leaving
<1>6. frames' = [frames EXCEPT ![Len(frames)] = Leaving(Frame)]
  BY <1>5, Zenon DEF LeaveScope
<1>7. Replaces(frames, Leaving(fr), frames')
  BY <1>4, <1>6 DEF Replaces
<1>8. Inv(code, tables, frames', errorCount)
  BY <1>1, <1>2, <1>3, <1>4, <1>7, InvLeaves
<1>9. UNCHANGED <<code, tables, scopeOf, errorCount, firstError, verdict>>
  BY <1>1 DEF errors
<1>10. Inv(code, tables, frames, errorCount)'
  BY <1>8, <1>9
<1>. QED  BY <1>2, <1>9, <1>10, IInvAgain DEF Counted, IInv

\* A pass is over.
LEMMA WalkedDone ==
  ASSUME Walked, NEW fr, fr = Frame
  PROVE  Done(code, fr)
BY DEF Walked, Done, Here

\* The next pass sets out.
LEMMA EndPassKeeps ==
  ASSUME IInv, EndPass
  PROVE  IInv'
<1>1. /\ Walked /\ errorCount = 0 /\ Frame.pass # LastPass
      /\ UNCHANGED <<code, tables, scopeOf, meaning, definedSymbols, errors, verdict>>
  BY DEF EndPass
<1>2. Inv(code, tables, frames, 0) /\ Counted
  BY <1>1 DEF IInv
<1>3. PICK fr : fr = frames[Len(frames)]
  OBVIOUS
<1>4. fr = Frame
  BY <1>3 DEF Frame
<1>5. Done(code, fr)
  BY <1>1, <1>4, WalkedDone
<1>6. Len(frames) > 1 => fr.pass \notin {"types", "symbols"}
  BY <1>2, <1>3, InvFrame
<1>7. fr.pass # "symbols" /\ (Len(frames) > 1 => fr.pass # "expand")
  BY <1>1, <1>4, <1>6 DEF LastPass
<1>8. SetsOut(Frame, NextPass[Frame.pass]) =
        [Frame EXCEPT !.pass = NextPass[Frame.pass], !.at = Frame.first, !.scopes = Frame.base]
  BY Zenon DEF SetsOut
<1>9. frames' = [frames EXCEPT ![Len(frames)] = SetsOut(Frame, NextPass[Frame.pass])]
  BY <1>8, Zenon DEF EndPass
<1>10. Replaces(frames, SetsOut(fr, NextPass[fr.pass]), frames')
  BY <1>4, <1>9 DEF Replaces
<1>11. Inv(code, tables, frames', 0)
  BY <1>2, <1>3, <1>5, <1>7, <1>10, InvSetsOut
<1>12. UNCHANGED <<code, tables, scopeOf, errorCount, firstError, verdict>>
  BY <1>1 DEF errors
<1>13. Inv(code, tables, frames, errorCount)'
  BY <1>1, <1>11, <1>12
<1>. QED  BY <1>2, <1>12, <1>13, IInvAgain DEF Counted, IInv

\* The expander goes on behind a copy.
LEMMA EndExpansionKeeps ==
  ASSUME IInv, EndExpansion
  PROVE  IInv'
<1>1. /\ Walked /\ (errorCount > 0 \/ Frame.pass = LastPass) /\ Len(frames) > 1
      /\ UNCHANGED <<code, tables, scopeOf, meaning, definedSymbols, errors, verdict>>
      /\ frames' = [SubSeq(frames, 1, Len(frames) - 1) EXCEPT ![Len(frames) - 1].at = Frame.at + 1]
  BY DEF EndExpansion, PassesOver
<1>2. Inv(code, tables, frames, errorCount) /\ Counted /\ errorCount \in Nat
  BY DEF IInv, Counted
<1>3. PICK fr : fr = frames[Len(frames)]
  OBVIOUS
<1>4. fr = Frame
  BY <1>3 DEF Frame
<1>5. Done(code, fr)
  BY <1>1, <1>4, WalkedDone
<1>6. fr.pass = "expand" \/ errorCount > 0
  BY <1>1, <1>4 DEF LastPass
<1>7. Pops(frames, frames')
  BY <1>1, Zenon DEF Pops, Frame
<1>8. Inv(code, tables, frames', errorCount)
  BY <1>1, <1>2, <1>3, <1>5, <1>6, <1>7, InvPops
<1>9. UNCHANGED <<code, tables, scopeOf, errorCount, firstError, verdict>>
  BY <1>1 DEF errors
<1>10. Inv(code, tables, frames, errorCount)'
  BY <1>8, <1>9
<1>. QED  BY <1>2, <1>9, <1>10, IInvAgain DEF Counted, IInv

\* Nothing happens any more.
LEMMA EndModuleKeeps ==
  ASSUME IInv, EndModule
  PROVE  IInv'
<1>1. UNCHANGED <<code, tables, frames, scopeOf, meaning, definedSymbols, errors>> /\ verdict' \in {"rejected", "accepted"}
  BY DEF EndModule
<1>2. UNCHANGED <<code, tables, frames, scopeOf, errorCount, firstError>>
  BY <1>1 DEF errors
<1>. QED  BY <1>1, <1>2 DEF IInv, Counted, ScopesKnown, Verdicts

\* Nothing changes.
LEMMA NothingKeeps ==
  ASSUME IInv, UNCHANGED vars
  PROVE  IInv'
<1>1. UNCHANGED <<code, tables, frames, scopeOf, errorCount, firstError, verdict>>
  BY DEF vars, errors
<1>. QED  BY <1>1 DEF IInv, Counted, ScopesKnown

\* What a function declares grows the tables.
LEMMA FunctionDeclared ==
  ASSUME IInv, DeclareFunction
  PROVE  Grown(code, tables, tables') /\ Counting
<1>. DEFINE passes == {"populate"}
            ops == {"func"}
            n == Here.name[1]
            function == Symbol(n, "function", Here.id, 0)
            repeated == {k \in DOMAIN Here.params : \E j \in 1..(k - 1) : Here.params[j] = Here.params[k]}
            entered == CHOOSE f : Declares(tables, CurrentScope, function, Here.id, Here.params, f, Len(Here.params))
            first == Find(CurrentScope, n) = None
<1>1. /\ Visiting(passes, ops) /\ Enter(<<Here.id>>) /\ UNCHANGED <<code, scopeOf, meaning, definedSymbols, verdict>>
  BY DEF DeclareFunction
<1>2. first => tables' = entered[Len(Here.params)] /\ Report("SymbolAlreadyDefinedInScope", Cardinality(repeated))
  BY Zenon DEF DeclareFunction, Declares
<1>3. ~first => Report("SymbolAlreadyDefinedInScope", 1) /\ UNCHANGED tables
  BY DEF DeclareFunction
<1>4. /\ Here.op \in ops /\ Frame.pass \in passes /\ TableInv(code, tables) /\ Counted /\ Here \in Node
      /\ Frame.at \in DOMAIN code /\ Here = code[Frame.at] /\ Owned(code, tables)
  BY <1>1, AtWork
<1>5. Here.op \in OwnsTable /\ "expand" \notin passes /\ Frame.pass # "parents" /\ Here.op \notin {"module", "end", "expand"}
  BY <1>4 DEF OwnsTable
<1>6. Len(Here.params) \in Nat /\ DOMAIN Here.params = 1 .. Len(Here.params)
  BY <1>4, NodeFields, LenProperties
<1>7. Cardinality(repeated) \in Nat
  <2>1. IsFiniteSet(1 .. Len(Here.params))
    BY <1>6, FS_Interval
  <2>2. repeated \in SUBSET (1 .. Len(Here.params))
    BY <1>6
  <2>. HIDE DEF repeated
  <2>3. IsFiniteSet(repeated)
    BY <2>1, <2>2, FS_Subset
  <2>. QED  BY <2>3, FS_CardinalityType
<1>. HIDE DEF passes, ops, repeated
<1>8. /\ CurrentScope \in DOMAIN tables /\ tables[CurrentScope].kind # "TemplateParameter"
  BY <1>1, <1>5, ScopesHere
<1>9. Here.id \in DOMAIN tables /\ tables[Here.id].kind # "TemplateParameter"
  BY <1>4, <1>5 DEF Owned
<1>10. Declares(tables, CurrentScope, function, Here.id, Here.params, entered, Len(Here.params))
  <2>1. \E f : Declares(tables, CurrentScope, function, Here.id, Here.params, f, Len(Here.params))
    BY <1>6, DeclaresExists
  <2>. HIDE DEF function
  <2>. QED  BY <2>1, Zenon
<1>. HIDE DEF entered
<1>11. Grown(code, tables, tables') /\ Counting
  <2>1. CASE first
    <3>1. TableInv(code, entered[Len(Here.params)]) /\ Keeps(tables, entered[Len(Here.params)])
      <4>1. PICK t \in DOMAIN tables : t = CurrentScope /\ tables[t].kind # "TemplateParameter"
        BY <1>8
      <4>2. PICK u \in DOMAIN tables : u = Here.id /\ tables[u].kind # "TemplateParameter"
        BY <1>9
      <4>3. PICK nm : nm = n
        OBVIOUS
      <4>4. PICK params : params = Here.params
        OBVIOUS
      <4>5. PICK m \in Nat : m = Len(Here.params)
        BY <1>6
      <4>6. Declares(tables, t, Symbol(nm, "function", u, 0), u, params, entered, m)
        BY <1>10, <4>1, <4>2, <4>3, <4>4, <4>5
      <4>7. TableInv(code, entered[m]) /\ Keeps(tables, entered[m])
        BY <1>4, <4>1, <4>2, <4>6, DeclaresKeep
      <4>. QED  BY <4>5, <4>7
    <3>2. Grown(code, tables, tables')
      BY <1>2, <2>1, <3>1, KeptGrown
    <3>3. Counting
      BY <1>2, <1>4, <1>7, <2>1, ReportCounts
    <3>. QED  BY <3>2, <3>3
  <2>2. CASE ~first
    BY <1>3, <1>4, <2>2, SameGrown, ReportCounts
  <2>. QED  BY <2>1, <2>2
<1>. QED  BY <1>11

\* A function is declared, with its parameters.
LEMMA DeclareFunctionKeeps ==
  ASSUME IInv, DeclareFunction
  PROVE  IInv'
<1>1. /\ Visiting({"populate"}, {"func"}) /\ Enter(<<Here.id>>)
      /\ UNCHANGED <<code, scopeOf, meaning, definedSymbols, verdict>>
  BY DEF DeclareFunction
<1>2. Here.op \in OwnsTable /\ Frame.pass # "parents" /\ "expand" \notin {"populate"}
  <2>1. Here.op \in {"func"} /\ Frame.pass \in {"populate"}
    BY <1>1, AtWork
  <2>. QED  BY <2>1 DEF OwnsTable
<1>3. Grown(code, tables, tables') /\ Counting
  BY FunctionDeclared
<1>4. Inv(code, tables, frames, errorCount)'
  BY <1>1, <1>2, <1>3, EntersOwn
<1>5. DOMAIN tables \subseteq DOMAIN tables'
  BY <1>3 DEF Grown, Grows
<1>. QED  BY <1>1, <1>3, <1>4, <1>5, IInvAgain DEF Counting, IInv

\* The greatest number in use.
LEMMA GreatestNumber ==
  ASSUME NEW text, NEW ts, TableInv(text, ts), NEW g, g = Greatest(DOMAIN ts \union {text[i].id : i \in DOMAIN text})
  PROVE  Above(text, ts, g)
<1>. DEFINE X == DOMAIN ts \union {text[i].id : i \in DOMAIN text}
<1>1. PICK n \in Nat : (\A t \in DOMAIN ts : t \in 0 .. n) /\ (\A i \in DOMAIN text : text[i].id \in 0 .. n)
  BY DEF TableInv, Numbered
<1>2. X \subseteq 0 .. n
  BY <1>1
<1>3. World \in X
  BY DEF TableInv, Shape
<1>. HIDE DEF X
<1>4. \E i \in X : \A j \in X : j <= i
  BY <1>2, <1>3, GreatestExists
<1>5. \E i \in X : \A j \in X : i >= j
  <2>1. PICK i \in X : \A j \in X : j <= i
    BY <1>4
  <2>2. ASSUME NEW j \in X
        PROVE  i >= j
    <3>1. i \in Nat /\ j \in Nat /\ j <= i
      BY <1>2, <2>1
    <3>. QED  BY <3>1
  <2>. QED  BY <2>2
<1>6. g = CHOOSE i \in X : \A j \in X : i >= j
  BY DEF Greatest, X
<1>7. g \in X /\ \A j \in X : g >= j
  BY <1>5, <1>6, Zenon
<1>8. g \in Nat /\ \A j \in X : j \in Nat
  BY <1>2, <1>7
<1>9. ASSUME NEW t \in DOMAIN ts
      PROVE  t <= g
  <2>1. t \in X
    BY DEF X
  <2>. QED  BY <1>7, <1>8, <2>1
<1>10. ASSUME NEW i \in DOMAIN text
       PROVE  text[i].id \in 0 .. g
  <2>1. text[i].id \in X
    BY DEF X
  <2>2. PICK m \in Nat : m = text[i].id
    BY <1>1
  <2>3. m <= g
    BY <1>7, <1>8, <2>1, <2>2
  <2>. QED  BY <1>8, <2>2, <2>3
<1>. QED  BY <1>8, <1>9, <1>10 DEF Above

\* The visitor stays where it is.
LEMMA InvStays ==
  ASSUME NEW text, NEW ts, NEW frs, NEW e \in Nat, Inv(text, ts, frs, e), NEW ts2, Grown(text, ts, ts2)
  PROVE  Inv(text, ts2, frs, e)
<1>1. PICK fr : fr = frs[Len(frs)]
  OBVIOUS
<1>2. FrameOK(text, ts, fr) /\ Shape(ts) /\ fr.at \in Nat
  BY <1>1, InvFrame
<1>3. FrameOK(text, ts2, fr)
  BY <1>2, FrameGrows DEF Grown
<1>4. Replaces(frs, fr, frs)
  <2>1. frs \in Seq(FrameSet) /\ frs # <<>>
    BY DEF Inv, Frames, Chain
  <2>2. frs = [i \in DOMAIN frs |-> frs[i]]
    BY <2>1
  <2>3. frs = [frs EXCEPT ![Len(frs)] = frs[Len(frs)]]
    BY <2>2, Zenon
  <2>. QED  BY <1>1, <2>3 DEF Replaces
<1>5. \A i \in DOMAIN text : ~(fr.at <= i /\ i < fr.at)
  <2>1. Inv(text, ts, frs, e) => text \in Seq(Node)
    BY DEF Inv, TextInv
  <2>2. \A i \in DOMAIN text : i \in Nat
    BY <2>1, LenProperties
  <2>. QED  BY <1>2, <2>2
<1>. QED  BY <1>1, <1>2, <1>3, <1>4, <1>5, InvMoves

\* That is what the action computes.
LEMMA NamespaceFound ==
  ASSUME EnterNamespace
  PROVE  /\ Visiting(FollowScopes, {"namespace"}) /\ UNCHANGED <<code, meaning, definedSymbols, errors>>
         /\ \E f : /\ f = CHOOSE d : Descending(d)
                   /\ tables' = f[Len(Here.name)].tables
                   /\ IF f[Len(Here.name)].found
                      THEN /\ Enter(Tail(f[Len(Here.name)].path))
                           /\ scopeOf' = [n \in DOMAIN scopeOf \union {Here.id} |->
                                            IF n = Here.id THEN f[Len(Here.name)].path[Len(f[Len(Here.name)].path)]
                                                           ELSE scopeOf[n]]
                           /\ UNCHANGED verdict
                      ELSE verdict' = "asserted" /\ UNCHANGED <<frames, scopeOf>>
<1>1. Visiting(FollowScopes, {"namespace"}) /\ UNCHANGED <<code, meaning, definedSymbols, errors>>
  BY DEF EnterNamespace
<1>. DEFINE f == CHOOSE d : Descending(d)
            last == f[Len(Here.name)]
<1>2. /\ tables' = last.tables
      /\ IF last.found
         THEN /\ Enter(Tail(last.path))
              /\ scopeOf' = [n \in DOMAIN scopeOf \union {Here.id} |->
                               IF n = Here.id THEN last.path[Len(last.path)] ELSE scopeOf[n]]
              /\ UNCHANGED verdict
         ELSE verdict' = "asserted" /\ UNCHANGED <<frames, scopeOf>>
  BY Zenon DEF EnterNamespace, Descending, Descends, DescendStep
<1>. HIDE DEF f
<1>3. f = CHOOSE d : Descending(d)
  BY DEF f
<1>. QED  BY <1>1, <1>2, <1>3

\* The path that a visitor pushes with a namespace.
LEMMA PathPushable ==
  ASSUME NEW text, NEW ts, NEW scope, NEW names, NEW fresh, NEW d, NEW n \in Nat,
         Descent(text, ts, scope, names, fresh, d, n), d.found, NEW pass, NEW at,
         pass = "parents" => Rooted(ts, scope), NEW p, p = Tail(d.path)
  PROVE  Pushable(text, d.tables, pass, at, p)
<1>1. /\ d.path \in Seq(Nat) /\ d.path # <<>>
      /\ \A k \in DOMAIN d.path :
           /\ d.path[k] \in DOMAIN d.tables /\ d.tables[d.path[k]].kind # "TemplateParameter"
           /\ k > 1 => d.path[k] # World /\ \A j \in DOMAIN text : text[j].id # d.path[k]
           /\ Rooted(ts, scope) => Rooted(d.tables, d.path[k])
  BY DEF Descent
<1>2. PICK c \in Seq(Nat) : c = d.path /\ c # <<>>
  BY <1>1
<1>3. Len(c) \in Nat \ {0} /\ DOMAIN c = 1 .. Len(c)
  BY <1>2, EmptySeq, LenProperties
<1>4. p \in Seq(Nat) /\ Len(p) = Len(c) - 1 /\ \A k \in 1 .. Len(p) : p[k] = c[k + 1]
  BY <1>2, HeadTailProperties
<1>5. DOMAIN p = 1 .. Len(p)
  BY <1>4, LenProperties
<1>6. ASSUME NEW k \in DOMAIN p
      PROVE  /\ p[k] \in DOMAIN d.tables \ {World}
             /\ Loose(d.tables, p[k]) => Len(p) = 1 /\ text[at].op = "expand" /\ text[at].id = p[k]
             /\ pass = "parents" => Rooted(d.tables, p[k])
  <2>1. k + 1 \in DOMAIN c /\ k + 1 > 1 /\ p[k] = c[k + 1]
    <3>1. PICK m \in Nat : m = Len(c) /\ DOMAIN c = 1 .. m
      BY <1>3
    <3>2. k \in 1 .. (m - 1)
      BY <1>4, <1>5, <3>1
    <3>3. k + 1 \in 1 .. m /\ k + 1 > 1
      BY <3>1, <3>2
    <3>. QED  BY <1>4, <1>5, <3>1, <3>3
  <2>2. PICK v : v = c[k + 1]
    OBVIOUS
  <2>3. /\ v \in DOMAIN d.tables /\ d.tables[v].kind # "TemplateParameter" /\ v # World
        /\ Rooted(ts, scope) => Rooted(d.tables, v)
    BY <1>1, <1>2, <2>1, <2>2
  <2>4. ~Loose(d.tables, v)
    BY <2>3 DEF Loose
  <2>. QED  BY <2>1, <2>2, <2>3, <2>4
<1>. QED  BY <1>4, <1>6 DEF Pushable

\* That is the way that the action takes.
LEMMA NamespaceWay ==
  ASSUME IInv, EnterNamespace
  PROVE  \E last, fresh : WayTaken(last, fresh)
<1>. DEFINE ops == {"namespace"}
<1>1. Visiting(FollowScopes, ops) /\ UNCHANGED <<code, meaning, definedSymbols, errors>>
  BY NamespaceFound
<1>2. PICK f : /\ f = CHOOSE d : Descending(d)
               /\ tables' = f[Len(Here.name)].tables
               /\ IF f[Len(Here.name)].found
                  THEN /\ Enter(Tail(f[Len(Here.name)].path))
                       /\ scopeOf' = [n \in DOMAIN scopeOf \union {Here.id} |->
                                        IF n = Here.id THEN f[Len(Here.name)].path[Len(f[Len(Here.name)].path)]
                                                       ELSE scopeOf[n]]
                       /\ UNCHANGED verdict
                  ELSE verdict' = "asserted" /\ UNCHANGED <<frames, scopeOf>>
  BY NamespaceFound
<1>3. /\ Here.op \in ops /\ Frame.pass \in FollowScopes /\ TextInv(code) /\ TableInv(code, tables) /\ Counted
      /\ Here = code[Frame.at] /\ Frame.at \in DOMAIN code /\ Here \in Node /\ Inv(code, tables, frames, errorCount)
  BY <1>1, AtWork
<1>4. /\ Here.op \in Opener /\ "expand" \notin FollowScopes /\ Here.op \notin {"module", "end", "template"} \union OwnsTable
  BY <1>3 DEF OwnsTable, FollowScopes, Opener
<1>. HIDE DEF ops
<1>5. PICK names, n : names = Here.name /\ n = Len(names)
  OBVIOUS
<1>6. n \in Nat
  BY <1>3, <1>5, NodeFields, LenProperties
<1>7. PICK scope \in DOMAIN tables : /\ scope = CurrentScope /\ tables[scope].kind # "TemplateParameter"
                                     /\ Frame.pass = "parents" => Rooted(tables, scope)
  BY <1>1, <1>4, ScopesHere
<1>8. PICK fresh : fresh = 1 + Greatest(DOMAIN tables \union {code[i].id : i \in DOMAIN code})
  OBVIOUS
<1>9. Above(code, tables, fresh)
  <2>1. PICK g : g = Greatest(DOMAIN tables \union {code[i].id : i \in DOMAIN code})
    OBVIOUS
  <2>2. Above(code, tables, g)
    BY <1>3, <2>1, GreatestNumber
  <2>3. g \in Nat /\ fresh = g + 1
    BY <1>8, <2>1, <2>2 DEF Above
  <2>4. DOMAIN tables \in SUBSET Nat
    BY <1>3 DEF TableInv, Shape
  <2>. QED  BY <2>2, <2>3, <2>4 DEF Above
<1>10. \A d : Descending(d) <=> Descends(names, fresh, tables, scope, d, n)
  BY <1>5, <1>7, <1>8 DEF Descending
<1>11. \E d : Descends(names, fresh, tables, scope, d, n)
  BY <1>3, <1>6, <1>7, <1>9, DescentEnds
<1>12. Descends(names, fresh, tables, scope, f, n)
  <2>1. \E d : Descending(d)
    BY <1>10, <1>11
  <2>2. Descending(f)
    BY <1>2, <2>1, Zenon
  <2>. QED  BY <1>10, <2>2
<1>13. Descent(code, tables, scope, names, fresh, f[n], n)
  BY <1>3, <1>6, <1>7, <1>9, <1>12, DescentEnds
<1>14. WayTaken(f[n], fresh)
  <2>1. fresh \in Nat
    BY <1>9 DEF Above
  <2>. QED  BY <1>1, <1>2, <1>5, <1>7, <1>13, <2>1, Zenon DEF WayTaken
<1>. QED  BY <1>14

\* A namespace is entered, or the recorder asserts.
LEMMA EnterNamespaceKeeps ==
  ASSUME IInv, EnterNamespace
  PROVE  IInv'
<1>. DEFINE ops == {"namespace"}
<1>1. Visiting(FollowScopes, ops) /\ UNCHANGED <<code, meaning, definedSymbols, errors>>
  BY NamespaceFound
<1>3. /\ Here.op \in ops /\ Frame.pass \in FollowScopes /\ TextInv(code) /\ TableInv(code, tables) /\ Counted
      /\ Here = code[Frame.at] /\ Frame.at \in DOMAIN code /\ Here \in Node /\ Inv(code, tables, frames, errorCount)
  BY <1>1, AtWork
<1>4. /\ Here.op \in Opener /\ "expand" \notin FollowScopes /\ Here.op \notin {"module", "end", "template"} \union OwnsTable
  BY <1>3 DEF OwnsTable, FollowScopes, Opener
<1>. HIDE DEF ops
<1>5. PICK last, fresh : WayTaken(last, fresh)
  BY NamespaceWay
<1>6. PICK names, n : names = Here.name /\ n = Len(names)
  OBVIOUS
<1>7. n \in Nat
  BY <1>3, <1>6, NodeFields, LenProperties
<1>8. PICK scope : scope = CurrentScope /\ (Frame.pass = "parents" => Rooted(tables, scope))
  BY <1>1, <1>4, ScopesHere
<1>13. fresh \in Nat /\ Descent(code, tables, scope, names, fresh, last, n)
  BY <1>5, <1>6, <1>8 DEF WayTaken
<1>15. /\ TableInv(code, last.tables) /\ Keeps(tables, last.tables)
       /\ last.path \in Seq(Nat) /\ last.path # <<>>
       /\ \A k \in DOMAIN last.path : last.path[k] \in DOMAIN last.tables
  BY <1>13 DEF Descent
<1>16. tables' = last.tables
  BY <1>5 DEF WayTaken
<1>17. Grown(code, tables, tables') /\ DOMAIN tables \subseteq DOMAIN tables'
  <2>1. Grown(code, tables, tables')
    BY <1>15, <1>16, KeptGrown
  <2>. QED  BY <2>1 DEF Grown, Grows
<1>18. Counting
  BY <1>1, <1>3, NothingCounts
<1>19. \A k \in DOMAIN scopeOf : scopeOf[k] \in DOMAIN tables'
  BY <1>17 DEF IInv, ScopesKnown
<1>20. CASE ~last.found
  <2>1. verdict' = "asserted" /\ UNCHANGED <<code, frames, scopeOf, errorCount, firstError>>
    BY <1>1, <1>5, <1>20 DEF errors, WayTaken
  <2>2. errorCount \in Nat
    BY <1>3 DEF Counted
  <2>3. Inv(code, tables', frames, errorCount)
    BY <1>3, <1>17, <2>2, InvStays
  <2>4. Inv(code, tables, frames, errorCount)'
    BY <2>1, <2>3
  <2>. QED  BY <1>17, <1>18, <2>1, <2>4, IInvAgain DEF Counting, Verdicts
<1>21. CASE last.found
  <2>1. PICK p : p = Tail(last.path)
    OBVIOUS
  <2>2. /\ Enter(p) /\ UNCHANGED <<code, verdict>>
        /\ scopeOf' = [k \in DOMAIN scopeOf \union {Here.id} |->
                         IF k = Here.id THEN last.path[Len(last.path)] ELSE scopeOf[k]]
    BY <1>1, <1>5, <1>21, <2>1 DEF WayTaken
  <2>3. Pushable(code, tables', Frame.pass, Frame.at, p)
    <3>1. Pushable(code, last.tables, Frame.pass, Frame.at, p)
      BY <1>7, <1>8, <1>13, <1>21, <2>1, PathPushable
    <3>. QED  BY <1>16, <3>1
  <2>4. Frame.pass # "expand" /\ Here.op # "module" /\ Here.op # "template" /\ Here.op \notin OwnsTable
    BY <1>3, <1>4
  <2>5. Inv(code, tables, frames, errorCount)'
    BY <1>1, <1>4, <1>17, <1>18, <2>2, <2>3, <2>4, EntersOn
  <2>6. last.path[Len(last.path)] \in DOMAIN tables'
    <3>1. Len(last.path) \in DOMAIN last.path
      <4>1. PICK c \in Seq(Nat) : c = last.path /\ c # <<>>
        BY <1>15
      <4>2. Len(c) \in Nat \ {0} /\ DOMAIN c = 1 .. Len(c)
        BY <4>1, EmptySeq, LenProperties
      <4>3. Len(c) \in DOMAIN c
        BY <4>2
      <4>. QED  BY <4>1, <4>3
    <3>. QED  BY <1>15, <1>16, <3>1
  <2>7. ScopesKnown'
    <3>1. ASSUME NEW k \in DOMAIN scopeOf'
          PROVE  scopeOf'[k] \in DOMAIN tables'
      BY <1>19, <2>2, <2>6, <3>1
    <3>. QED  BY <3>1 DEF ScopesKnown
  <2>. QED  BY <1>18, <2>2, <2>5, <2>7 DEF IInv, Counting
<1>. QED  BY <1>20, <1>21

\* A function on 1 .. n is a sequence.
LEMMA MembersInSeq ==
  ASSUME NEW S, NEW n \in Nat, NEW c, c = [i \in 1 .. n |-> c[i]], \A i \in 1 .. n : c[i] \in S
  PROVE  c \in Seq(S) /\ Len(c) = n
<1>1. c \in [1 .. n -> S]
  OBVIOUS
<1>. QED  BY <1>1, SeqDef

\* Everything is where it was, or n places further.
LEMMA InsertedSequence ==
  ASSUME NEW S, NEW text \in Seq(S), NEW a \in 1 .. Len(text), NEW copy \in Seq(S),
         NEW new, Splices(text, a, copy, new)
  PROVE  /\ new \in Seq(S) /\ Len(new) = Len(text) + Len(copy)
         /\ \A i \in 1 .. a : new[i] = text[i]
         /\ \A k \in 1 .. Len(copy) : new[a + k] = copy[k]
         /\ \A i \in (a + 1) .. Len(text) : new[i + Len(copy)] = text[i]
<1>1. PICK m \in Nat : m = Len(text)
  BY LenProperties
<1>2. PICK n \in Nat : n = Len(copy)
  BY LenProperties
<1>3. a \in Nat /\ 1 <= a /\ a <= m /\ DOMAIN text = 1 .. m
  BY <1>1, LenProperties
<1>4. PICK p : p = SubSeq(text, 1, a)
  OBVIOUS
<1>5. p \in Seq(S) /\ Len(p) = a /\ \A i \in 1 .. a : p[i] = text[i]
  <2>1. a \in 0 .. Len(text)
    BY <1>1, <1>3
  <2>. QED  BY <1>4, <2>1, SeqPrefix
<1>6. PICK q : q = SubSeq(text, a + 1, m)
  OBVIOUS
<1>7. q \in Seq(S) /\ Len(q) = m - a /\ \A i \in 1 .. (m - a) : q[i] = text[a + i]
  <2>1. q = SubSeq(text, a + 1, Len(text))
    BY <1>1, <1>6
  <2>2. \A i \in (a + 1) .. m : text[i] \in S
    BY <1>3
  <2>3. a + 1 \in Nat /\ m - a \in Nat
    BY <1>3
  <2>4. q = [i \in 1 .. (m - a) |-> text[a + i]]
    BY <1>3, <1>6, <2>3
  <2>5. \A i \in 1 .. (m - a) : a + i \in (a + 1) .. m
    BY <1>3
  <2>6. \A i \in 1 .. (m - a) : q[i] = text[a + i] /\ q[i] \in S
    BY <2>2, <2>4, <2>5
  <2>7. q \in Seq(S) /\ Len(q) = m - a
    BY <2>3, <2>4, <2>6, SeqDef
  <2>. QED  BY <2>6, <2>7
<1>8. PICK r : r = p \o copy
  OBVIOUS
<1>9. /\ r \in Seq(S) /\ Len(r) = a + n
      /\ \A i \in 1 .. (a + n) : r[i] = IF i <= a THEN p[i] ELSE copy[i - a]
  BY <1>2, <1>5, <1>8, ConcatProperties
<1>10. new = r \o q
  BY <1>1, <1>4, <1>6, <1>8 DEF Splices
<1>11. /\ new \in Seq(S) /\ Len(new) = (a + n) + (m - a)
       /\ \A i \in 1 .. ((a + n) + (m - a)) : new[i] = IF i <= a + n THEN r[i] ELSE q[i - (a + n)]
  <2>1. r \in Seq(S) /\ q \in Seq(S)
    BY <1>7, <1>9
  <2>3. /\ r \o q \in Seq(S) /\ Len(r \o q) = Len(r) + Len(q)
        /\ \A i \in 1 .. (Len(r) + Len(q)) : (r \o q)[i] = IF i <= Len(r) THEN r[i] ELSE q[i - Len(r)]
    BY <2>1, ConcatProperties
  <2>2. Len(r) = a + n /\ Len(q) = m - a
    BY <1>7, <1>9
  <2>. QED  BY <1>10, <2>2, <2>3, Zenon
<1>12. ASSUME NEW i \in 1 .. a
       PROVE  new[i] = text[i]
  <2>1. i \in 1 .. ((a + n) + (m - a)) /\ i <= a + n /\ i \in 1 .. (a + n) /\ i <= a
    BY <1>3
  <2>. QED  BY <1>5, <1>9, <1>11, <2>1
<1>13. ASSUME NEW k \in 1 .. n
       PROVE  new[a + k] = copy[k]
  <2>1. a + k \in 1 .. ((a + n) + (m - a)) /\ a + k <= a + n /\ a + k \in 1 .. (a + n) /\ ~(a + k <= a) /\ (a + k) - a = k
    BY <1>3
  <2>. QED  BY <1>9, <1>11, <2>1
<1>14. ASSUME NEW i \in (a + 1) .. m
       PROVE  new[i + n] = text[i]
  <2>1. /\ i + n \in 1 .. ((a + n) + (m - a)) /\ ~(i + n <= a + n) /\ (i + n) - (a + n) = i - a
        /\ i - a \in 1 .. (m - a) /\ a + (i - a) = i
    BY <1>3
  <2>. QED  BY <1>7, <1>11, <2>1
<1>15. Len(new) = m + n
  <2>1. (a + n) + (m - a) = m + n
    BY <1>3
  <2>. QED  BY <1>11, <2>1
<1>. QED  BY <1>1, <1>2, <1>11, <1>12, <1>13, <1>14, <1>15

\* The copy of a body is as long, a sequence of nodes with new ids.
LEMMA BodyCopied ==
  ASSUME NEW text, text \in Seq(Node), NEW s \in DOMAIN text, NEW e \in (s + 1) .. Len(text), NEW fresh \in Nat,
         NEW body, body = SubSeq(text, s + 1, e - 1),
         NEW copy, Renumbers(body, fresh, copy)
  PROVE  CopyOf(text, s, e - s - 1, fresh, body, copy)
<1>1. PICK m \in Nat : m = Len(text) /\ DOMAIN text = 1 .. m
  BY LenProperties
<1>2. s \in Nat /\ 1 <= s /\ e \in Nat /\ s + 1 <= e /\ e <= m
  BY <1>1
<1>3. PICK n : n = e - s - 1
  OBVIOUS
<1>4. n \in Nat /\ (e - 1) - (s + 1) + 1 = n
  BY <1>2, <1>3
<1>5. body = [i \in 1 .. n |-> text[s + i]]
  <2>1. body = [i \in 1 .. ((e - 1) - (s + 1) + 1) |-> text[(s + 1) + i - 1]]
    BY <1>2
  <2>2. \A i \in 1 .. n : (s + 1) + i - 1 = s + i
    BY <1>2
  <2>. QED  BY <1>4, <2>1, <2>2
<1>6. DOMAIN body = 1 .. n /\ (\A k \in 1 .. n : body[k] = text[s + k])
  BY <1>5
<1>7. copy = [i \in 1 .. n |-> [body[i] EXCEPT !.id = fresh + i]]
  BY <1>6 DEF Renumbers
<1>8. ASSUME NEW k \in 1 .. n
      PROVE  copy[k] = [text[s + k] EXCEPT !.id = fresh + k] /\ copy[k] \in Node
  <2>1. copy[k] = [text[s + k] EXCEPT !.id = fresh + k]
    BY <1>6, <1>7
  <2>2. s + k \in DOMAIN text
    BY <1>1, <1>2, <1>3, <1>4
  <2>3. text[s + k] \in Node
    BY <2>2
  <2>4. PICK x \in Node : x = text[s + k]
    BY <2>3
  <2>5. PICK i \in Nat : i = fresh + k
    BY <1>4
  <2>6. [x EXCEPT !.id = i] \in Node
    BY DEF Node
  <2>. QED  BY <2>1, <2>4, <2>5, <2>6
<1>9. copy \in Seq(Node) /\ Len(copy) = n
  <2>1. copy = [i \in 1 .. n |-> copy[i]]
    <3>. DEFINE g(i) == [body[i] EXCEPT !.id = fresh + i]
    <3>1. copy = [i \in 1 .. n |-> g(i)]
      BY <1>7
    <3>. HIDE DEF g
    <3>. QED  BY <3>1
  <2>2. \A k \in 1 .. n : copy[k] \in Node
    BY <1>8
  <2>. QED  BY <1>4, <2>1, <2>2, MembersInSeq
<1>. QED  BY <1>3, <1>4, <1>6, <1>8, <1>9 DEF CopyOf

\* They are a copy's tables.
LEMMA TablesCopied ==
  ASSUME NEW text, text \in Seq(Node), NEW s, NEW n, NEW fresh \in Nat, NEW body, NEW copy,
         CopyOf(text, s, n, fresh, body, copy),
         \A k \in 1 .. n : text[s + k] \in Node,
         NEW ts, DOMAIN ts \in SUBSET Nat, \A t \in DOMAIN ts : t <= fresh, NEW d,
         NEW ts2, TablesMade(ts, body, copy, fresh, d, ts2)
  PROVE  Copies(text, s, n, fresh, ts, d, ts2)
<1>1. /\ n \in Nat /\ DOMAIN body = 1 .. n /\ (\A k \in 1 .. n : body[k] = text[s + k])
      /\ \A k \in 1 .. n : copy[k] = [text[s + k] EXCEPT !.id = fresh + k]
  BY DEF CopyOf
<1>2. ASSUME NEW k \in 1 .. n
      PROVE  copy[k].id = fresh + k
  <2>1. copy[k] = [text[s + k] EXCEPT !.id = fresh + k] /\ text[s + k] \in Node
    BY <1>1
  <2>. QED  BY <2>1 DEF Node
<1>. DEFINE D == DOMAIN ts \union {copy[i].id : i \in {j \in DOMAIN body : body[j].op \in OwnsTable}}
            G(t) == IF t > fresh THEN Table(ts[body[t - fresh].id].kind, TableName(body[t - fresh]), NoTable) ELSE d[t]
<1>3. ts2 = [t \in D |-> G(t)]
  BY DEF TablesMade
<1>4. D = DOMAIN ts \union {fresh + i : i \in {j \in 1 .. n : text[s + j].op \in OwnsTable}}
  BY <1>1, <1>2
<1>. HIDE DEF D
<1>5. DOMAIN ts2 = D /\ (\A t \in D : ts2[t] = G(t)) /\ ts2 = [t \in DOMAIN ts2 |-> ts2[t]]
  <2>. HIDE DEF G
  <2>. QED  BY <1>3
<1>6. ASSUME NEW k \in 1 .. n, text[s + k].op \in OwnsTable
      PROVE  fresh + k \in DOMAIN ts2 /\ \E name : ts2[fresh + k] = Table(ts[text[s + k].id].kind, name, NoTable)
  <2>1. fresh + k \in D /\ fresh + k > fresh /\ (fresh + k) - fresh = k
    BY <1>4, <1>6
  <2>2. G(fresh + k) = Table(ts[body[k].id].kind, TableName(body[k]), NoTable)
    BY <2>1
  <2>3. ts2[fresh + k] = Table(ts[text[s + k].id].kind, TableName(body[k]), NoTable)
    BY <1>1, <1>5, <2>1, <2>2
  <2>. QED  BY <1>5, <2>1, <2>3
<1>7. ASSUME NEW t \in DOMAIN ts2
      PROVE  t \in DOMAIN ts \/ \E k \in 1 .. n : text[s + k].op \in OwnsTable /\ t = fresh + k
  BY <1>4, <1>5
<1>8. ASSUME NEW t \in DOMAIN ts
      PROVE  t \in DOMAIN ts2 /\ ts2[t] = d[t]
  <2>1. t \in D /\ ~(t > fresh)
    BY <1>4
  <2>. QED  BY <1>5, <2>1
<1>. QED  BY <1>5, <1>6, <1>7, <1>8 DEF Copies

\* An expansion.
LEMMA ExpandIs ==
  ASSUME Expand
  PROVE  /\ Visiting({"expand"}, {"expand"}) /\ Sought.is = "template"
         /\ UNCHANGED <<scopeOf, meaning, definedSymbols, errors, verdict>>
         /\ \E body, fresh, copy, params, f :
              /\ body = SubSeq(code, SoughtAt + 1, EndOf(code, SoughtAt) - 1)
              /\ fresh = Greatest(DOMAIN tables \union {code[i].id : i \in DOMAIN code})
              /\ Renumbers(body, fresh, copy)
              /\ params = code[SoughtAt].params
              /\ f = CHOOSE g : Fills(tables, Here.id, params, g, Len(params))
              /\ code' = SubSeq(code, 1, Frame.at) \o copy \o SubSeq(code, Frame.at + 1, Len(code))
              /\ TablesMade(tables, body, copy, fresh, f[Len(params)], tables')
              /\ Pushes(frames, Frame.at, Here.id, frames')
<1>1. /\ Visiting({"expand"}, {"expand"}) /\ Sought.is = "template"
      /\ UNCHANGED <<scopeOf, meaning, definedSymbols, errors, verdict>>
  BY DEF Expand, Expanding
<1>. DEFINE body == SubSeq(code, SoughtAt + 1, EndOf(code, SoughtAt) - 1)
            fresh == Greatest(DOMAIN tables \union {code[i].id : i \in DOMAIN code})
            copy == [i \in DOMAIN body |-> [body[i] EXCEPT !.id = fresh + i]]
            params == code[SoughtAt].params
            f == CHOOSE g : Fills(tables, Here.id, params, g, Len(params))
<1>2. code' = SubSeq(code, 1, Frame.at) \o copy \o SubSeq(code, Frame.at + 1, Len(code))
  BY Zenon DEF Expand
<1>3. TablesMade(tables, body, copy, fresh, f[Len(params)], tables')
  BY Zenon DEF Expand, TablesMade, Fills
<1>4. Pushes(frames, Frame.at, Here.id, frames')
  BY Zenon DEF Expand, Pushes, Behind
<1>5. PICK b : b = body
  OBVIOUS
<1>6. PICK fr : fr = fresh
  OBVIOUS
<1>7. PICK c : c = copy
  OBVIOUS
<1>8. PICK p : p = params
  OBVIOUS
<1>9. PICK h : h = f
  OBVIOUS
<1>10. /\ b = SubSeq(code, SoughtAt + 1, EndOf(code, SoughtAt) - 1)
       /\ fr = Greatest(DOMAIN tables \union {code[i].id : i \in DOMAIN code})
       /\ Renumbers(b, fr, c)
       /\ p = code[SoughtAt].params
       /\ h = CHOOSE g : Fills(tables, Here.id, p, g, Len(p))
  BY <1>5, <1>6, <1>7, <1>8, <1>9, Zenon DEF Renumbers
<1>. HIDE DEF body, fresh, copy, params, f
<1>11. /\ code' = SubSeq(code, 1, Frame.at) \o c \o SubSeq(code, Frame.at + 1, Len(code))
       /\ TablesMade(tables, b, c, fr, h[Len(p)], tables')
  BY <1>2, <1>3, <1>5, <1>6, <1>7, <1>8, <1>9
<1>. QED  BY <1>1, <1>4, <1>10, <1>11, Zenon

\* The expansion at work: its table has a parent and is empty, and its place is no template's.
LEMMA ExpandingHere ==
  ASSUME IInv, Visiting({"expand"}, {"expand"})
  PROVE  /\ Frame.at \in DOMAIN code /\ Here = code[Frame.at] /\ Here.op = "expand" /\ Live(code, Frame.at)
         /\ Frame.pass = "expand"
         /\ Here.id \in DOMAIN tables /\ tables[Here.id].kind = "TemplateParameter"
         /\ tables[Here.id].parent \in DOMAIN tables /\ tables[Here.id].parent # NoTable
         /\ tables[Here.id].symbols = {}
<1>1. /\ Frame.at \in DOMAIN code /\ Here = code[Frame.at] /\ Here.op = "expand" /\ Frame.pass = "expand"
      /\ Shape(tables) /\ Owned(code, tables) /\ FrameOK(code, tables, Frame) /\ Frame.at \in Nat
      /\ Inv(code, tables, frames, errorCount)
  <2>1. /\ Frame.at \in DOMAIN code /\ Here = code[Frame.at] /\ Here.op \in {"expand"} /\ Frame.pass \in {"expand"}
        /\ Shape(tables) /\ Owned(code, tables) /\ FrameOK(code, tables, Frame) /\ Frame.at \in Nat
        /\ Inv(code, tables, frames, errorCount)
    BY AtWork
  <2>. QED  BY <2>1
<1>2. PICK a \in Nat : a = Frame.at
  BY <1>1
<1>3. PICK first : first = Frame.first
  OBVIOUS
<1>4. Unset(code, tables, "expand", first, a, errorCount) /\ Unfilled(code, tables, "expand", first, a)
  BY <1>1, <1>2, <1>3 DEF Inv, Progress, Frame
<1>5. Standing(code, "expand", first, a, Len(Frame.open))
  BY <1>1, <1>2, <1>3, FrameFields
<1>6. first \in Nat \ {0} /\ first <= a /\ Live(code, a)
  BY <1>2, <1>5 DEF Standing, Within
<1>7. /\ code[a].op = "expand" /\ a \in DOMAIN code /\ code[a].op \in OwnsTable /\ code[a].id = Here.id
  BY <1>1, <1>2 DEF OwnsTable
<1>8. tables[code[a].id].parent # NoTable
  <2>1. ~(errorCount > 0 /\ a < a)
    BY <1>2
  <2>. QED  BY <1>4, <1>6, <1>7, <2>1 DEF Unset
<1>9. tables[code[a].id].symbols = {}
  <2>1. ~(a < first) /\ ~(a < a)
    BY <1>2, <1>6
  <2>. QED  BY <1>4, <1>7, <2>1 DEF Unfilled
<1>10. code[a].id \in DOMAIN tables /\ tables[code[a].id].kind = "TemplateParameter"
  BY <1>1, <1>7 DEF Owned
<1>11. tables[code[a].id].parent \in DOMAIN tables
  BY <1>1, <1>8, <1>10 DEF Shape
<1>. QED  BY <1>1, <1>2, <1>6, <1>7, <1>8, <1>9, <1>10, <1>11

\* The template that is found is in the tree.
LEMMA TemplateSought ==
  ASSUME IInv, Visiting({"expand"}, {"expand"}), Sought.is = "template"
  PROVE  SoughtAt \in DOMAIN code /\ code[SoughtAt].op = "template"
<1>1. /\ Frame.at \in DOMAIN code /\ Here = code[Frame.at] /\ Here.op = "expand"
      /\ tables[Here.id].parent \in DOMAIN tables
  BY ExpandingHere
<1>2. /\ TextInv(code) /\ TableInv(code, tables) /\ Here \in Node
  BY AtWork
<1>3. Here.name \in Seq(STRING) /\ Here.name # <<>>
  BY <1>1, <1>2, NodeFields DEF TextInv
<1>4. Shape(tables) /\ Ranked(tables) /\ Entries(code, tables)
  BY <1>2 DEF TableInv
<1>5. Known(tables) /\ Leads(tables)
  BY <1>4, EntriesKnown
<1>6. PICK t \in DOMAIN tables : t = tables[Here.id].parent
  BY <1>1
<1>7. PICK path : path = Here.name
  OBVIOUS
<1>8. FindQualified(t, path) \in Symbols(tables) \union {None}
  BY <1>3, <1>4, <1>5, <1>7, FindQualifiedIs
<1>9. Sought \in Symbols(tables) \union {None}
  BY <1>6, <1>7, <1>8 DEF Sought
<1>10. None.is = "none"
  BY DEF None, Symbol
<1>11. Sought \in Symbols(tables)
  BY <1>9, <1>10
<1>12. PICK u \in DOMAIN tables : Sought \in tables[u].symbols
  BY <1>11 DEF Symbols
<1>13. SymbolFits(code, tables, u, Sought)
  BY <1>4, <1>12 DEF Entries
<1>14. \E i \in DOMAIN code : code[i].op = "template" /\ code[i].id = Sought.of
  BY <1>13 DEF SymbolFits
<1>. QED  BY <1>14, Zenon DEF SoughtAt

\* That is what an expansion does.
LEMMA CopyInserted ==
  ASSUME IInv, Expand
  PROVE  \E s, n, fresh, params, k, d : Inserted(s, n, fresh, params, k, d)
<1>1. /\ Visiting({"expand"}, {"expand"}) /\ Sought.is = "template"
      /\ UNCHANGED <<scopeOf, meaning, definedSymbols, errors, verdict>>
  BY ExpandIs
<1>2. PICK body, fresh, copy, params, f :
        /\ body = SubSeq(code, SoughtAt + 1, EndOf(code, SoughtAt) - 1)
        /\ fresh = Greatest(DOMAIN tables \union {code[i].id : i \in DOMAIN code})
        /\ Renumbers(body, fresh, copy)
        /\ params = code[SoughtAt].params
        /\ f = CHOOSE g : Fills(tables, Here.id, params, g, Len(params))
        /\ code' = SubSeq(code, 1, Frame.at) \o copy \o SubSeq(code, Frame.at + 1, Len(code))
        /\ TablesMade(tables, body, copy, fresh, f[Len(params)], tables')
        /\ Pushes(frames, Frame.at, Here.id, frames')
  BY ExpandIs
<1>3. /\ Frame.at \in DOMAIN code /\ Here = code[Frame.at] /\ Here.op = "expand" /\ Live(code, Frame.at)
      /\ Frame.pass = "expand"
      /\ Here.id \in DOMAIN tables /\ tables[Here.id].kind = "TemplateParameter"
      /\ tables[Here.id].parent # NoTable /\ tables[Here.id].symbols = {}
  BY <1>1, ExpandingHere
<1>4. /\ TextInv(code) /\ code \in Seq(Node) /\ TableInv(code, tables) /\ Shape(tables)
      /\ Inv(code, tables, frames, errorCount) /\ Counted
  <2>1. TextInv(code) /\ TableInv(code, tables) /\ Shape(tables) /\ Inv(code, tables, frames, errorCount) /\ Counted
    BY <1>1, AtWork
  <2>. QED  BY <2>1 DEF TextInv
<1>5. PICK a : a = Frame.at
  OBVIOUS
<1>6. PICK u : u = Here.id
  OBVIOUS
<1>7. PICK s : s = SoughtAt
  OBVIOUS
<1>8. s \in DOMAIN code /\ code[s].op = "template" /\ code[s].op \in Opener
  BY <1>1, <1>7, TemplateSought DEF Opener
<1>9. PICK e : e = EndOf(code, s)
  OBVIOUS
<1>10. e \in (s + 1) .. Len(code)
  BY <1>4, <1>8, <1>9, EndOfIs
<1>11. PICK n : n = e - s - 1
  OBVIOUS
<1>12. DOMAIN code = 1 .. Len(code) /\ Len(code) \in Nat
  BY <1>4, LenProperties
<1>13. s \in Nat /\ e \in Nat /\ n \in Nat /\ e = s + n + 1
  BY <1>8, <1>10, <1>11, <1>12
<1>14. Above(code, tables, fresh)
  BY <1>2, <1>4, GreatestNumber
<1>15. fresh \in Nat /\ (\A t \in DOMAIN tables : t <= fresh) /\ (\A i \in DOMAIN code : code[i].id <= fresh)
  <2>1. fresh \in Nat /\ (\A t \in DOMAIN tables : t <= fresh) /\ (\A i \in DOMAIN code : code[i].id \in 0 .. fresh)
    BY <1>14 DEF Above
  <2>. QED  BY <2>1
<1>16. CopyOf(code, s, n, fresh, body, copy)
  <2>1. body = SubSeq(code, s + 1, e - 1)
    BY <1>2, <1>7, <1>9
  <2>2. CopyOf(code, s, e - s - 1, fresh, body, copy)
    BY <1>2, <1>4, <1>8, <1>10, <1>15, <2>1, BodyCopied
  <2>. QED  BY <1>11, <2>2
<1>17. /\ copy \in Seq(Node) /\ Len(copy) = n /\ \A k \in 1 .. n : copy[k] = [code[s + k] EXCEPT !.id = fresh + k]
  BY <1>16 DEF CopyOf
<1>18. PICK new : new = code'
  OBVIOUS
<1>19. Splices(code, a, copy, new)
  BY <1>2, <1>5, <1>18 DEF Splices
<1>20. Inserts(code, new, a, s, n, fresh)
  <2>1. a \in 1 .. Len(code)
    BY <1>3, <1>5, <1>12
  <2>2. copy \in Seq(Node)
    BY <1>17
  <2>3. /\ new \in Seq(Node) /\ Len(new) = Len(code) + Len(copy)
        /\ \A i \in 1 .. a : new[i] = code[i]
        /\ \A k \in 1 .. Len(copy) : new[a + k] = copy[k]
        /\ \A i \in (a + 1) .. Len(code) : new[i + Len(copy)] = code[i]
    BY <1>4, <1>19, <2>1, <2>2, InsertedSequence
  <2>4. ASSUME NEW k \in 1 .. n
        PROVE  new[a + k] = [code[s + k] EXCEPT !.id = fresh + k]
    BY <1>17, <2>3
  <2>5. /\ Len(new) = Len(code) + n /\ \A i \in (a + 1) .. Len(code) : new[i + n] = code[i]
    BY <1>17, <2>3
  <2>6. a \in DOMAIN code /\ code[a].op = "expand" /\ Live(code, a)
    BY <1>3, <1>5
  <2>7. EndOf(code, s) = s + n + 1
    BY <1>9, <1>13
  <2>. QED  BY <1>8, <1>13, <1>15, <2>3, <2>4, <2>5, <2>6, <2>7, Zenon DEF Inserts
<1>21. PICK m : m = Len(params)
  OBVIOUS
<1>22. m \in Nat /\ \A k, l \in 1 .. m : params[k] = params[l] => k = l
  <2>1. code[s] \in Node
    BY <1>4, <1>8
  <2>2. params = code[s].params
    BY <1>2, <1>7
  <2>3. m \in Nat /\ DOMAIN params = 1 .. m
    BY <1>21, <2>1, <2>2, NodeFields, LenProperties
  <2>4. \A k, l \in DOMAIN params : params[k] = params[l] => k = l
    BY <1>4, <1>8, <2>2 DEF TextInv
  <2>. QED  BY <2>3, <2>4
<1>23. Fills(tables, u, params, f, m)
  <2>1. \E g : Fills(tables, u, params, g, m)
    BY <1>22, FillsExists
  <2>2. f = CHOOSE g : Fills(tables, u, params, g, m)
    BY <1>2, <1>6, <1>21
  <2>. QED  BY <2>1, <2>2, Zenon
<1>24. u \in DOMAIN tables /\ tables[u].kind = "TemplateParameter" /\ tables[u].symbols = {} /\ tables[u].parent # NoTable
  BY <1>3, <1>6
<1>25. PICK d : d = f[m]
  OBVIOUS
<1>26. Filled(code, tables, u, params, m, d)
  <2>1. Filled(code, tables, u, params, m, f[m])
    BY <1>4, <1>22, <1>23, <1>24, FillsKeep
  <2>. QED  BY <1>25, <2>1
<1>27. Copies(code, s, n, fresh, tables, d, tables')
  <2>1. TablesMade(tables, body, copy, fresh, d, tables')
    BY <1>2, <1>21, <1>25
  <2>2. DOMAIN tables \in SUBSET Nat
    BY <1>4 DEF Shape
  <2>3. ASSUME NEW k \in 1 .. n
        PROVE  code[s + k] \in Node
    <3>1. s + k \in DOMAIN code
      BY <1>10, <1>12, <1>13
    <3>. QED  BY <1>4, <3>1
  <2>. QED  BY <1>4, <1>15, <1>16, <2>1, <2>2, <2>3, TablesCopied
<1>28. PICK fr : fr = frames[Len(frames)]
  OBVIOUS
<1>29. fr.pass = "expand" /\ fr.at = a /\ u = code[a].id /\ Pushes(frames, a, u, frames')
  BY <1>2, <1>3, <1>5, <1>6, <1>28 DEF Frame
<1>30. errorCount \in Nat
  BY <1>4 DEF Counted
<1>31. Inserted(s, n, fresh, params, m, d)
  BY <1>2, <1>3, <1>5, <1>6, <1>15, <1>18, <1>20, <1>26, <1>27 DEF Inserted
<1>. QED  BY <1>31

\* A template is expanded (NamedTemplateExpanderPass).
LEMMA ExpandKeeps ==
  ASSUME IInv, Expand
  PROVE  IInv'
<1>1. Visiting({"expand"}, {"expand"}) /\ UNCHANGED <<scopeOf, errorCount, firstError, verdict>>
  BY ExpandIs DEF errors
<1>2. /\ Here = code[Frame.at] /\ Frame.pass = "expand" /\ Inv(code, tables, frames, errorCount)
      /\ Counted /\ errorCount \in Nat
  BY <1>1, ExpandingHere, AtWork DEF Counted
<1>3. PICK s, n, fresh, params, k, d : Inserted(s, n, fresh, params, k, d)
  BY CopyInserted
<1>4. PICK a, new : a = Frame.at /\ new = code'
  OBVIOUS
<1>5. PICK u : u = Here.id
  OBVIOUS
<1>6. PICK fr : fr = frames[Len(frames)]
  OBVIOUS
<1>7. fr.pass = "expand" /\ fr.at = a /\ u = code[a].id
  BY <1>2, <1>4, <1>5, <1>6 DEF Frame
<1>8. /\ Inserts(code, new, a, s, n, fresh) /\ tables[u].parent # NoTable /\ \A t \in DOMAIN tables : t <= fresh
      /\ Filled(code, tables, u, params, k, d) /\ Copies(code, s, n, fresh, tables, d, tables')
      /\ Pushes(frames, a, u, frames')
  BY <1>3, <1>4, <1>5 DEF Inserted
<1>9. Inv(new, tables', frames', errorCount)
  BY <1>2, <1>6, <1>7, <1>8, InvPushes
<1>10. Inv(code, tables, frames, errorCount)'
  BY <1>1, <1>4, <1>9
<1>11. DOMAIN tables \subseteq DOMAIN tables'
  BY <1>8 DEF Copies
<1>. QED  BY <1>1, <1>2, <1>10, <1>11, IInvAgain DEF Counted, IInv

\* Every step.
LEMMA NextKeeps ==
  ASSUME IInv, [Next]_vars
  PROVE  IInv'
<1>1. CASE UNCHANGED vars
  BY <1>1, NothingKeeps
<1>2. CASE EnterBlock \/ EnterNamespace \/ EnterFunction \/ DeclareFunction \/ ResolveParameters \/ EnterExpansion \/ LeaveScope
  BY <1>2, EnterBlockKeeps, EnterNamespaceKeeps, EnterFunctionKeeps, DeclareFunctionKeeps, ResolveParametersKeeps,
     EnterExpansionKeeps, LeaveScopeKeeps
<1>3. CASE RecordTemplate \/ SkipTemplate \/ DeclareTemplate \/ DeclareVariableOrClass \/ ResolveVariableType
  BY <1>3, RecordTemplateKeeps, SkipTemplateKeeps, DeclareTemplateKeeps, DeclareVariableOrClassKeeps,
     ResolveVariableTypeKeeps
<1>4. CASE DefineVariable \/ ResolveUse \/ SkipLeaf \/ WalkInto \/ ExpandRefused \/ Expand
  BY <1>4, DefineVariableKeeps, ResolveUseKeeps, SkipLeafKeeps, WalkIntoKeeps, ExpandRefusedKeeps, ExpandKeeps
<1>5. CASE EndPass \/ EndExpansion \/ EndModule
  BY <1>5, EndPassKeeps, EndExpansionKeeps, EndModuleKeeps
<1>6. CASE Over
  BY <1>6, NothingKeeps DEF Over
<1>. QED  BY <1>1, <1>2, <1>3, <1>4, <1>5, <1>6 DEF Next

----
\* The beginning.

\* The tree is in order.
LEMMA TextAtFirst ==
  ASSUME NEW text \in Programs
  PROVE  TextInv(text) /\ \A i \in DOMAIN text : text[i].id = i /\ (text[i].op = "expand" => text[i + 1].op = "end")
<1>1. WellFormed(text)
  BY ProgramsAssumption
<1>2. /\ text \in Seq(Node) /\ text # <<>> /\ text[1].op = "module"
      /\ Height(text, Len(text)) = 0
      /\ \A j \in 1 .. (Len(text) - 1) : Height(text, j) > 0
      /\ \A i \in DOMAIN text : /\ text[i].id = i
                                /\ text[i].op # "end" => text[i].name # <<>>
                                /\ text[i].op = "expand" => text[i + 1].op = "end"
  BY <1>1 DEF WellFormed, Height
<1>3. \A i \in DOMAIN text : i \in Nat /\ i # 0
  BY <1>2, TextPlaces
<1>4. \A i \in DOMAIN text : text[i].op = "template" =>
        \A k, l \in DOMAIN text[i].params : text[i].params[k] = text[i].params[l] => k = l
  BY ParametersAssumption
<1>5. \A i \in DOMAIN text : text[i].id > 0
  <2>1. ASSUME NEW i \in DOMAIN text
        PROVE  text[i].id > 0
    <3>1. i > 0
      BY <1>3
    <3>. QED  BY <1>2, <3>1
  <2>. QED  BY <2>1
<1>6. \A i, j \in DOMAIN text : text[i].id = text[j].id => i = j
  BY <1>2
<1>. QED  BY <1>2, <1>4, <1>5, <1>6 DEF TextInv

\* The kinds of the tables of nodes.
LEMMA KindsOfNodes ==
  ASSUME NEW text, NEW i, text[i].op \in OwnsTable
  PROVE  TableKind(text, i) \in Kinds /\ (TableKind(text, i) = "TemplateParameter" <=> text[i].op = "expand")
<1>1. BlockKind(text, i) \in {"Global", "Local", "Instance"}
  BY DEF BlockKind
<1>. DEFINE b == BlockKind(text, i)
            o == text[i].op
<1>2. TableKind(text, i) =
        CASE o = "module" -> "Global" [] o = "func" -> "Argument" [] o = "expand" -> "TemplateParameter" [] o = "block" -> b
  BY DEF TableKind
<1>3. o \in {"module", "block", "func", "expand"}
  BY DEF OwnsTable
<1>4. b \in {"Global", "Local", "Instance"}
  BY <1>1
<1>. HIDE DEF b, o
<1>5. TableKind(text, i) \in Kinds /\ (TableKind(text, i) = "TemplateParameter" <=> o = "expand")
  BY <1>2, <1>3, <1>4 DEF Kinds
<1>. QED  BY <1>5 DEF o

\* What the first tables are.
LEMMA FirstTablesAre ==
  ASSUME NEW text, text \in Seq(Node), NEW ts, FirstTables(text, ts)
  PROVE  /\ ts = [t \in DOMAIN ts |-> ts[t]] /\ DOMAIN ts = {World} \union {i \in DOMAIN text : text[i].op \in OwnsTable}
         /\ \A t \in DOMAIN ts : IsTable(ts[t]) /\ ts[t].parent = NoTable
         /\ ts[World].kind = "Global"
         /\ \A s \in ts[World].symbols : \E n : s.name = n /\ s = [Symbol(n, "variable", 0, 1) EXCEPT !.storage = "Global"]
         /\ \A i \in DOMAIN text : text[i].op \in OwnsTable =>
              /\ i \in DOMAIN ts /\ i # World /\ ts[i].kind = TableKind(text, i) /\ ts[i].symbols = {}
<1>. DEFINE D == {World} \union {i \in DOMAIN text : text[i].op \in OwnsTable}
            first(n) == [Symbol(n, "variable", 0, 1) EXCEPT !.storage = "Global"]
            G == {first(n) : n \in Exported}
            W == [Table("Global", <<"::">>, NoTable) EXCEPT !.symbols = G]
            T(t) == Table(TableKind(text, t), TableName(text[t]), NoTable)
<1>1. ts = [t \in D |-> IF t = World THEN W ELSE T(t)]
  BY DEF FirstTables
<1>2. W = [kind |-> "Global", name |-> <<"::">>, parent |-> NoTable, symbols |-> G]
  <2>. HIDE DEF G
  <2>. QED  BY DEF Table
<1>3. \A t : T(t) = [kind |-> TableKind(text, t), name |-> TableName(text[t]), parent |-> NoTable, symbols |-> {}]
  BY DEF Table
<1>4. \A s \in G : \E n : s.name = n /\ s = first(n)
  <2>1. ASSUME NEW n
        PROVE  first(n).name = n
    BY DEF Symbol
  <2>. HIDE DEF first
  <2>. QED  BY <2>1
<1>5. \A i \in DOMAIN text : i # World
  <2>1. \A i \in DOMAIN text : i \in 1 .. Len(text) /\ Len(text) \in Nat
    BY LenProperties
  <2>. QED  BY <2>1 DEF World
<1>. HIDE DEF D, G, W, T, first
<1>6. DOMAIN ts = D /\ (\A t \in D : ts[t] = IF t = World THEN W ELSE T(t)) /\ ts = [t \in DOMAIN ts |-> ts[t]]
  BY <1>1
<1>7. D = {World} \union {i \in DOMAIN text : text[i].op \in OwnsTable}
  BY DEF D
<1>8. ts[World] = W /\ World \in D
  BY <1>6, <1>7
<1>9. ASSUME NEW t \in DOMAIN ts
      PROVE  IsTable(ts[t]) /\ ts[t].parent = NoTable
  <2>1. CASE t = World
    BY <1>2, <1>8, <2>1 DEF IsTable
  <2>2. CASE t # World
    <3>1. ts[t] = T(t)
      BY <1>6, <1>9, <2>2
    <3>. QED  BY <1>3, <3>1 DEF IsTable
  <2>. QED  BY <2>1, <2>2
<1>10. ASSUME NEW i \in DOMAIN text, text[i].op \in OwnsTable
       PROVE  i \in DOMAIN ts /\ i # World /\ ts[i].kind = TableKind(text, i) /\ ts[i].symbols = {}
  <2>1. i \in D /\ i # World
    BY <1>5, <1>7, <1>10
  <2>2. ts[i] = T(i)
    BY <1>6, <2>1
  <2>. QED  BY <1>3, <1>6, <2>1, <2>2
<1>11. ts[World].kind = "Global" /\ ts[World].symbols = G
  BY <1>2, <1>8
<1>12. \A s \in ts[World].symbols : \E n : s.name = n /\ s = [Symbol(n, "variable", 0, 1) EXCEPT !.storage = "Global"]
  BY <1>4, <1>11 DEF first
<1>. QED  BY <1>6, <1>7, <1>9, <1>10, <1>11, <1>12

\* The tables are in order.
LEMMA TablesAtFirst ==
  ASSUME NEW text \in Programs, NEW ts, FirstTables(text, ts)
  PROVE  TableInv(text, ts)
<1>1. TextInv(text) /\ \A i \in DOMAIN text : text[i].id = i /\ (text[i].op = "expand" => text[i + 1].op = "end")
  BY TextAtFirst
<1>2. text \in Seq(Node) /\ text # <<>>
  BY <1>1 DEF TextInv
<1>3. Len(text) \in Nat /\ DOMAIN text = 1 .. Len(text)
  BY <1>2, LenProperties
<1>4. /\ ts = [t \in DOMAIN ts |-> ts[t]] /\ DOMAIN ts = {World} \union {i \in DOMAIN text : text[i].op \in OwnsTable}
      /\ \A t \in DOMAIN ts : IsTable(ts[t]) /\ ts[t].parent = NoTable
      /\ ts[World].kind = "Global"
      /\ \A s \in ts[World].symbols : \E n : s.name = n /\ s = [Symbol(n, "variable", 0, 1) EXCEPT !.storage = "Global"]
      /\ \A i \in DOMAIN text : text[i].op \in OwnsTable =>
           /\ i \in DOMAIN ts /\ i # World /\ ts[i].kind = TableKind(text, i) /\ ts[i].symbols = {}
  BY <1>2, FirstTablesAre
<1>5. World = 0 /\ NoTable = -1
  BY DEF World, NoTable
<1>6. \A t \in DOMAIN ts : t \in 0 .. Len(text)
  BY <1>3, <1>4, <1>5
<1>7. ASSUME NEW t \in DOMAIN ts
      PROVE  ts[t].kind \in Kinds
  <2>1. CASE t = World
    BY <1>4, <2>1 DEF Kinds
  <2>2. CASE t # World
    <3>1. t \in DOMAIN text /\ text[t].op \in OwnsTable
      BY <1>4, <1>7, <2>2
    <3>. QED  BY <1>4, <3>1, KindsOfNodes
  <2>. QED  BY <2>1, <2>2
<1>8. Shape(ts)
  <2>1. DOMAIN ts \in SUBSET Nat /\ World \in DOMAIN ts /\ NoTable # World
    BY <1>3, <1>4, <1>5, <1>6
  <2>. QED  BY <1>4, <1>7, <2>1 DEF Shape
<1>9. Ranked(ts)
  <2>1. [t \in DOMAIN ts |-> 0] \in [DOMAIN ts -> 0 .. 0] /\ 0 \in Nat
    OBVIOUS
  <2>. QED  BY <1>4, <2>1 DEF Ranked
<1>10. Numbered(text, ts)
  <2>1. \A i \in DOMAIN text : text[i].id \in 0 .. Len(text)
    BY <1>1, <1>3
  <2>. QED  BY <1>3, <1>6, <2>1 DEF Numbered
<1>11. Owned(text, ts)
  <2>1. ASSUME NEW i \in DOMAIN text, text[i].op \in OwnsTable
        PROVE  /\ text[i].id \in DOMAIN ts \ {World}
               /\ ts[text[i].id].kind = "TemplateParameter" <=> text[i].op = "expand"
               /\ ts[text[i].id].parent # NoTable => Rooted(ts, text[i].id)
               /\ text[i].op = "expand" /\ text[i + 1].op # "end" => ts[text[i].id].parent # NoTable
    <3>1. text[i].id = i /\ (text[i].op = "expand" => text[i + 1].op = "end")
      BY <1>1
    <3>2. i \in DOMAIN ts /\ i # World /\ ts[i].kind = TableKind(text, i)
      BY <1>4, <2>1
    <3>3. TableKind(text, i) = "TemplateParameter" <=> text[i].op = "expand"
      BY <2>1, KindsOfNodes
    <3>. QED  BY <1>4, <3>1, <3>2, <3>3
  <2>. QED  BY <2>1 DEF Owned
<1>12. Entries(text, ts)
  <2>1. ASSUME NEW t \in DOMAIN ts, NEW s \in ts[t].symbols
        PROVE  t = World
    BY <1>4
  <2>2. ASSUME NEW s \in ts[World].symbols
        PROVE  s.storage = "Global" /\ s.is = "variable"
    <3>1. PICK n : s = [Symbol(n, "variable", 0, 1) EXCEPT !.storage = "Global"]
      BY <1>4
    <3>. QED  BY <3>1 DEF Symbol
  <2>3. ASSUME NEW t \in DOMAIN ts, NEW s \in ts[t].symbols
        PROVE  SymbolFits(text, ts, t, s)
    <3>1. t = World
      BY <2>1
    <3>2. s.storage = "Global" /\ s.is = "variable"
      BY <2>2, <3>1
    <3>. QED  BY <1>4, <3>1, <3>2 DEF SymbolFits, SymbolKinds
  <2>4. ASSUME NEW t \in DOMAIN ts, NEW s \in ts[t].symbols, NEW r \in ts[t].symbols, s.name = r.name
        PROVE  s = r
    <3>1. t = World
      BY <2>1
    <3>. QED  BY <1>4, <2>4, <3>1
  <2>. QED  BY <2>3, <2>4 DEF Entries
<1>. QED  BY <1>8, <1>9, <1>10, <1>11, <1>12 DEF TableInv

\* The invariant holds at first.
LEMMA InitHolds ==
  ASSUME Init
  PROVE  IInv
<1>1. /\ code \in Programs /\ FirstTables(code, tables) /\ frames = <<NewFrame(1, <<>>)>>
      /\ scopeOf = <<>> /\ errorCount = 0 /\ firstError = "NoError" /\ verdict = "running"
  BY DEF Init, FirstTables
<1>2. TextInv(code)
  BY <1>1, TextAtFirst
<1>3. TableInv(code, tables) /\ Shape(tables)
  BY <1>1, TablesAtFirst DEF TableInv
<1>4. code \in Seq(Node) /\ code # <<>> /\ Len(code) \in Nat /\ DOMAIN code = 1 .. Len(code)
  BY <1>2, LenProperties DEF TextInv
<1>5. PICK fr : fr = [pass |-> "record", first |-> 1, at |-> 1, base |-> <<>>, scopes |-> <<>>, open |-> <<>>]
  OBVIOUS
<1>6. fr = NewFrame(1, <<>>)
  BY <1>5 DEF NewFrame
<1>7. FrameOK(code, tables, fr)
  <2>1. 1 \in 1 .. (Len(code) + 1) /\ "record" \in Passes
    BY <1>4 DEF Passes
  <2>2. PICK b : b = <<>>
    OBVIOUS
  <2>3. b \in Seq(Nat) /\ DOMAIN b = {}
    BY <2>2
  <2>4. Based(tables, b)
    BY <2>3 DEF Based
  <2>5. FrameOK(code, tables, [pass |-> "record", first |-> 1, at |-> 1, base |-> b, scopes |-> b, open |-> <<>>])
    BY <1>3, <1>4, <2>1, <2>3, <2>4, FrameSetsOut
  <2>. QED  BY <1>5, <2>2, <2>5
<1>8. frames = <<fr>>
  BY <1>1, <1>6
<1>9. /\ DOMAIN frames = {1} /\ Len(frames) = 1 /\ frames[1] = fr /\ frames # <<>>
  BY <1>8
<1>10. fr \in FrameSet
  BY <1>7, FrameFields
<1>11. Frames(code, tables, frames)
  <2>1. frames \in Seq(FrameSet)
    BY <1>8, <1>10
  <2>2. frames[1].first = 1 /\ frames[1].base = <<>>
    BY <1>5, <1>9
  <2>3. \A f \in DOMAIN frames : f + 1 \notin DOMAIN frames
    BY <1>9
  <2>4. \A f, g \in DOMAIN frames : ~(f < g)
    BY <1>9
  <2>5. Chain(code, frames)
    BY <1>9, <2>1, <2>2, <2>3, <2>4 DEF Chain
  <2>. QED  BY <1>7, <1>9, <2>5 DEF Frames
<1>12. ASSUME NEW i \in DOMAIN code
       PROVE  Within(code, 0, i)
  <2>1. i \in Nat /\ 0 < i /\ i <= Len(code)
    BY <1>4
  <2>2. Height(code, 0) = 0
    BY HeightStep
  <2>3. \A k \in 0 .. (i - 1) : k \in 0 .. Len(code)
    BY <1>4, <2>1
  <2>4. \A k \in 0 .. (i - 1) : Height(code, k) >= Height(code, 0)
    BY <1>2, <2>2, <2>3, HeightsPositive
  <2>. QED  BY <2>1, <2>4 DEF Within
<1>13. Unset(code, tables, "record", 1, 1, 0)
  <2>1. 1 - 1 = 0
    OBVIOUS
  <2>. QED  BY <1>12, <2>1 DEF Unset
<1>14. Unfilled(code, tables, "record", 1, 1)
  <2>1. ASSUME NEW i \in DOMAIN code, code[i].op = "expand"
        PROVE  tables[code[i].id].symbols = {}
    <3>1. code[i].op \in OwnsTable
      BY <2>1 DEF OwnsTable
    <3>2. tables[i].symbols = {}
      BY <1>1, <1>4, <3>1, FirstTablesAre
    <3>3. code[i].id = i
      BY <1>1, TextAtFirst
    <3>. QED  BY <3>2, <3>3
  <2>. QED  BY <2>1 DEF Unfilled
<1>15. Progress(code, tables, frames[Len(frames)], errorCount)
  BY <1>1, <1>5, <1>9, <1>13, <1>14 DEF Progress
<1>16. Inv(code, tables, frames, errorCount)
  BY <1>2, <1>3, <1>11, <1>15 DEF Inv
<1>17. ScopesKnown
  BY <1>1 DEF ScopesKnown
<1>. QED  BY <1>1, <1>16, <1>17 DEF IInv, Counted, Verdicts

-----------------------------------------------------------------------------
(***************************************************************************)
(* What the invariant says of the state.                                   *)
(***************************************************************************)

\* What Climbs says is so of a function, by induction over n.
LEMMA ClimbsExists ==
  ASSUME NEW ts, NEW n \in Nat
  PROVE  \E f : Climbs(ts, n, f)
<1>. DEFINE S == {m \in Nat : \E f : Climbs(ts, m, f)}
<1>1. 0 \in S
  <2>. DEFINE f == [i \in 0 .. 0 |-> [u \in DOMAIN ts |-> {}]]
  <2>1. \A i \in 0 .. 0 : \A u \in DOMAIN ts : AboveStep(ts, f, i, u) = {}
    BY DEF AboveStep
  <2>2. f = [i \in 0 .. 0 |-> [u \in DOMAIN ts |-> AboveStep(ts, f, i, u)]]
    BY <2>1
  <2>. QED  BY <2>2 DEF Climbs
<1>2. ASSUME NEW m \in S
      PROVE  m + 1 \in S
  <2>1. m \in Nat
    OBVIOUS
  <2>2. PICK f : Climbs(ts, m, f)
    OBVIOUS
  <2>. HIDE DEF S
  <2>. DEFINE g == [i \in 0 .. m + 1 |-> [u \in DOMAIN ts |-> AboveStep(ts, f, i, u)]]
  <2>3. \A i \in 0 .. m : i \in 0 .. m + 1 /\ g[i] = [u \in DOMAIN ts |-> AboveStep(ts, f, i, u)]
    BY <2>1
  <2>4. \A i \in 0 .. m : f[i] = [u \in DOMAIN ts |-> AboveStep(ts, f, i, u)]
    BY <2>2 DEF Climbs
  <2>5. \A i \in 0 .. m : g[i] = f[i]
    BY <2>3, <2>4, Zenon
  <2>. HIDE DEF g
  <2>6. ASSUME NEW i \in 0 .. m + 1
        PROVE  [u \in DOMAIN ts |-> AboveStep(ts, f, i, u)] = [u \in DOMAIN ts |-> AboveStep(ts, g, i, u)]
    <3>1. i # 0 => i - 1 \in 0 .. m
      BY <2>1
    <3>2. i # 0 => g[i - 1] = f[i - 1]
      BY <2>5, <3>1
    <3>3. \A u \in DOMAIN ts : AboveStep(ts, f, i, u) = AboveStep(ts, g, i, u)
      BY <3>2 DEF AboveStep
    <3>. QED  BY <3>3
  <2>7. g = [i \in 0 .. m + 1 |-> [u \in DOMAIN ts |-> AboveStep(ts, g, i, u)]]
    <3>1. g = [i \in 0 .. m + 1 |-> [u \in DOMAIN ts |-> AboveStep(ts, f, i, u)]]
      BY DEF g
    <3>. QED  BY <2>6, <3>1
  <2>8. Climbs(ts, m + 1, g)
    BY <2>7 DEF Climbs
  <2>. QED  BY <2>1, <2>8 DEF S
<1>3. S \in SUBSET Nat
  OBVIOUS
<1>. HIDE DEF S
<1>4. n \in S
  BY <1>1, <1>2, <1>3, Induction
<1>. QED  BY <1>4 DEF S

\* What is above a table is of a lower rank.
LEMMA AboveIsLower ==
  ASSUME NEW ts, Shape(ts), Ranked(ts), NEW n \in Nat, NEW f, Climbs(ts, n, f), NEW t \in DOMAIN ts
  PROVE  t \notin f[n][t]
<1>1. PICK k \in Nat : \E rank \in [DOMAIN ts -> 0 .. k] :
        \A u \in DOMAIN ts : ts[u].parent # NoTable => rank[ts[u].parent] < rank[u]
  BY DEF Ranked
<1>2. PICK rank \in [DOMAIN ts -> 0 .. k] :
        \A u \in DOMAIN ts : ts[u].parent # NoTable => rank[ts[u].parent] < rank[u]
  BY <1>1
<1>3. \A u \in DOMAIN ts : ts[u].parent # NoTable => ts[u].parent \in DOMAIN ts
  BY DEF Shape
<1>4. \A u \in DOMAIN ts : rank[u] \in Nat
  BY <1>1
<1>5. \A i \in 0 .. n : \A u \in DOMAIN ts : f[i][u] = AboveStep(ts, f, i, u)
  <2>1. \A i \in 0 .. n : f[i] = [u \in DOMAIN ts |-> AboveStep(ts, f, i, u)]
    BY DEF Climbs
  <2>. QED  BY <2>1
<1>. DEFINE S == {m \in Nat : m <= n => \A u \in DOMAIN ts : \A v \in f[m][u] : v \in DOMAIN ts /\ rank[v] < rank[u]}
<1>6. 0 \in S
  <2>1. 0 \in 0 .. n
    OBVIOUS
  <2>2. \A u \in DOMAIN ts : f[0][u] = {}
    BY <1>5, <2>1 DEF AboveStep
  <2>. QED  BY <2>2
<1>7. ASSUME NEW m \in S
      PROVE  m + 1 \in S
  <2>1. m \in Nat
    OBVIOUS
  <2>2. ASSUME m + 1 <= n, NEW u \in DOMAIN ts, NEW v \in f[m + 1][u]
        PROVE  v \in DOMAIN ts /\ rank[v] < rank[u]
    <3>1. m + 1 \in 0 .. n /\ m + 1 # 0 /\ (m + 1) - 1 = m /\ m <= n
      BY <2>1, <2>2
    <3>2. v \in AboveStep(ts, f, m + 1, u)
      BY <1>5, <2>2, <3>1
    <3>3. ts[u].parent # NoTable /\ v \in {ts[u].parent} \union f[m][ts[u].parent]
      BY <3>1, <3>2 DEF AboveStep
    <3>4. PICK p \in DOMAIN ts : p = ts[u].parent /\ rank[p] < rank[u]
      BY <1>2, <1>3, <3>3
    <3>5. v \in f[m][p] => v \in DOMAIN ts /\ rank[v] < rank[p]
      BY <3>1, <3>4
    <3>6. v = p \/ v \in f[m][p]
      BY <3>3, <3>4
    <3>7. CASE v \in f[m][p]
      <4>1. rank[v] \in Nat /\ rank[p] \in Nat /\ rank[u] \in Nat /\ rank[v] < rank[p]
        BY <1>4, <3>4, <3>5, <3>7
      <4>. QED  BY <3>4, <3>5, <3>7, <4>1
    <3>. QED  BY <3>4, <3>6, <3>7
  <2>. QED  BY <2>1, <2>2
<1>8. S \in SUBSET Nat
  OBVIOUS
<1>. HIDE DEF S
<1>9. n \in S
  BY <1>6, <1>7, <1>8, Induction
<1>10. t \in f[n][t] => rank[t] < rank[t]
  BY <1>9 DEF S
<1>. QED  BY <1>4, <1>10

\* So no table is above itself.
LEMMA NoneAboveItself ==
  ASSUME TableInv(code, tables), NEW t \in DOMAIN tables
  PROVE  t \notin Ancestors(t, Cardinality(DOMAIN tables))
<1>1. Shape(tables) /\ Ranked(tables) /\ Numbered(code, tables)
  BY DEF TableInv
<1>2. PICK c \in Nat : c = Cardinality(DOMAIN tables)
  <2>1. PICK k \in Nat : \A u \in DOMAIN tables : u \in 0 .. k
    BY <1>1 DEF Numbered
  <2>2. IsFiniteSet(0 .. k)
    BY FS_Interval
  <2>3. IsFiniteSet(DOMAIN tables)
    BY <2>1, <2>2, FS_Subset
  <2>. QED  BY <2>3, FS_CardinalityType
<1>3. \E f : Climbs(tables, c, f)
  BY ClimbsExists
<1>. DEFINE A == CHOOSE f : Climbs(tables, c, f)
<1>4. Climbs(tables, c, A)
  BY <1>3
<1>5. Ancestors(t, c) = A[c][t]
  BY DEF Ancestors, Climbs, AboveStep
<1>. HIDE DEF A
<1>6. t \notin A[c][t]
  BY <1>1, <1>4, AboveIsLower
<1>. QED  BY <1>2, <1>5, <1>6

\* The stack is as high as the open nodes made it.
LEMMA StackHeaped ==
  ASSUME NEW base, NEW scopes, NEW open, base \in Seq(Nat), open \in Seq(Nat), NEW m, Sums(base, scopes, open, m)
  PROVE  Heaped(base, open) = Len(scopes)
<1>1. PICK n \in Nat : n = Len(open)
  BY LenProperties
<1>2. /\ m \in [0 .. n -> Nat] /\ m[0] = Len(base) /\ m[n] = Len(scopes)
      /\ \A k \in 1 .. n : m[k] = m[k - 1] + open[k]
  BY <1>1 DEF Sums
<1>. DEFINE Sum(f) == f = [i \in 0 .. n |-> IF i = 0 THEN Len(base) ELSE f[i - 1] + open[i]]
            h == CHOOSE f : Sum(f)
<1>3. Sum(m)
  <2>1. \A i \in 0 .. n : i # 0 => i \in 1 .. n
    OBVIOUS
  <2>2. \A i \in 0 .. n : m[i] = IF i = 0 THEN Len(base) ELSE m[i - 1] + open[i]
    BY <1>2, <2>1
  <2>. QED  BY <1>2, <2>2
<1>4. Sum(h)
  <2>. HIDE DEF Sum
  <2>. QED  BY <1>3
<1>5. Heaped(base, open) = h[n]
  BY <1>1 DEF Heaped
<1>6. \A i \in 0 .. n : h[i] = IF i = 0 THEN Len(base) ELSE h[i - 1] + open[i]
  <2>. HIDE DEF h
  <2>. QED  BY <1>4
<1>. HIDE DEF h, Sum
<1>. DEFINE S == {i \in Nat : i <= n => h[i] = m[i]}
<1>7. 0 \in S
  <2>1. 0 \in 0 .. n
    OBVIOUS
  <2>. QED  BY <1>2, <1>6, <2>1
<1>8. ASSUME NEW i \in S
      PROVE  i + 1 \in S
  <2>1. i \in Nat /\ (i <= n => h[i] = m[i])
    OBVIOUS
  <2>. HIDE DEF S
  <2>2. ASSUME i + 1 <= n
        PROVE  h[i + 1] = m[i + 1]
    <3>1. i + 1 \in 0 .. n /\ i + 1 \in 1 .. n /\ i + 1 # 0 /\ (i + 1) - 1 = i /\ i <= n
      BY <2>1, <2>2
    <3>2. h[i + 1] = h[i] + open[i + 1] /\ m[i + 1] = m[i] + open[i + 1]
      BY <1>2, <1>6, <3>1
    <3>3. h[i] = m[i]
      BY <2>1, <3>1
    <3>. QED  BY <3>2, <3>3
  <2>. QED  BY <2>1, <2>2 DEF S
<1>9. S \in SUBSET Nat
  OBVIOUS
<1>. HIDE DEF S
<1>10. n \in S
  BY <1>7, <1>8, <1>9, Induction
<1>11. h[n] = m[n]
  BY <1>10 DEF S
<1>. QED  BY <1>2, <1>5, <1>11

\* What the invariant says of it all.
LEMMA IInvTyped ==
  ASSUME IInv
  PROVE  TypeOK
<1>1. /\ TextInv(code) /\ TableInv(code, tables) /\ Frames(code, tables, frames) /\ ScopesKnown /\ Counted
      /\ verdict \in Verdicts
  BY DEF IInv, Inv
<1>2. \A i, j \in DOMAIN code : code[i].id = code[j].id => i = j
  BY <1>1 DEF TextInv
<1>3. Shape(tables) /\ Ranked(tables) /\ Entries(code, tables)
  BY <1>1 DEF TableInv
<1>4. ASSUME NEW t \in DOMAIN tables
      PROVE  /\ tables[t].kind \in {"Global", "Argument", "TemplateParameter", "Local", "Instance"}
             /\ tables[t].parent \in {NoTable} \union DOMAIN tables /\ t \notin Ancestors(t, Cardinality(DOMAIN tables))
             /\ \A s, r \in tables[t].symbols : s.name = r.name => s = r
             /\ \A s \in tables[t].symbols :
                  /\ s.storage = tables[t].kind
                  /\ s.is = "namespace" => tables[s.of].parent = t
                  /\ tables[t].kind = "TemplateParameter" <=> s.is = "type"
  <2>1. tables[t].kind \in Kinds /\ tables[t].parent \in DOMAIN tables \union {NoTable}
    BY <1>3 DEF Shape
  <2>2. t \notin Ancestors(t, Cardinality(DOMAIN tables))
    BY <1>1, NoneAboveItself
  <2>3. \A s, r \in tables[t].symbols : s.name = r.name => s = r
    BY <1>3 DEF Entries
  <2>4. ASSUME NEW s \in tables[t].symbols
        PROVE  /\ s.storage = tables[t].kind
               /\ s.is = "namespace" => tables[s.of].parent = t
               /\ tables[t].kind = "TemplateParameter" <=> s.is = "type"
    <3>1. SymbolFits(code, tables, t, s)
      BY <1>3 DEF Entries
    <3>. QED  BY <3>1 DEF SymbolFits
  <2>. QED  BY <2>1, <2>2, <2>3, <2>4 DEF Kinds
<1>5. ASSUME NEW f \in DOMAIN frames
      PROVE  /\ frames[f].pass \in DOMAIN NextPass
             /\ \A i \in DOMAIN frames[f].scopes : frames[f].scopes[i] \in DOMAIN tables \ {World}
             /\ Len(frames[f].open) = Depth(code, frames[f].first, frames[f].at - 1)
             /\ Len(frames[f].scopes) = Heaped(frames[f].base, frames[f].open)
  <2>1. PICK fr : fr = frames[f]
    OBVIOUS
  <2>2. FrameOK(code, tables, fr)
    BY <1>1, <2>1 DEF Frames
  <2>3. /\ fr.pass \in Passes /\ Stacked(fr.pass, fr.first, fr.base, fr.scopes, fr.open)
        /\ Bound(code, tables, fr.pass, fr.at, fr.scopes, fr.open)
    BY <2>2, FrameFields
  <2>4. fr.pass \in DOMAIN NextPass
    BY <2>3 DEF Passes, NextPass
  <2>5. \A i \in DOMAIN fr.scopes : fr.scopes[i] \in DOMAIN tables \ {World}
    BY <2>3 DEF Bound
  <2>6. Len(fr.scopes) = Heaped(fr.base, fr.open)
    <3>1. fr.base \in Seq(Nat) /\ fr.open \in Seq(Nat)
      BY <2>3 DEF Stacked
    <3>2. PICK m : Sums(fr.base, fr.scopes, fr.open, m)
      BY <2>3 DEF Stacked
    <3>. QED  BY <3>1, <3>2, StackHeaped
  <2>7. Len(fr.open) = Depth(code, fr.first, fr.at - 1)
    <3>1. /\ fr.first \in Nat \ {0} /\ fr.at \in Nat /\ fr.first - 1 < fr.at
          /\ Len(fr.open) = Height(code, fr.at - 1) - Height(code, fr.first - 1)
      BY <2>2, FrameFields DEF Standing, Within
    <3>2. PICK k \in Nat : k = fr.at - fr.first
      BY <3>1
    <3>3. fr.first - 1 + k = fr.at - 1
      BY <3>1, <3>2
    <3>4. Depth(code, fr.first, fr.first - 1 + k) = Height(code, fr.first - 1 + k) - Height(code, fr.first - 1)
      BY <3>1, DepthIsHeight
    <3>. QED  BY <3>1, <3>3, <3>4
  <2>. QED  BY <2>1, <2>4, <2>5, <2>6, <2>7
<1>6. \A n \in DOMAIN scopeOf : scopeOf[n] \in DOMAIN tables
  BY <1>1 DEF ScopesKnown
<1>7. (errorCount = 0 <=> firstError = "NoError") /\ verdict \in {"running", "accepted", "rejected", "asserted"}
  BY <1>1 DEF Counted, Verdicts
<1>. QED  BY <1>2, <1>4, <1>5, <1>6, <1>7 DEF TypeOK

(***************************************************************************)
(* Whatever modules are compiled, the tables stay a forest, in which no    *)
(* table is above itself and no name is entered twice; what a namespace's  *)
(* name stands for is a table in the table that names it; and the visitor  *)
(* at work is as deep in the tree as it has nodes open and has on its      *)
(* stack as many tables as those pushed, never the global one              *)
(* (ScopeFollowingAstVisitor, SymbolTable::setParent, addSymbol).          *)
(***************************************************************************)
THEOREM TypeIsOK == Spec => []TypeOK
<1>1. Init => IInv
  BY InitHolds
<1>2. IInv /\ [Next]_vars => IInv'
  BY NextKeeps
<1>3. IInv => TypeOK
  BY IInvTyped
<1>. QED  BY <1>1, <1>2, <1>3, PTL DEF Spec

----
\* The ways into the namespaces.

\* What is around a place is not higher than the place.
LEMMA EncloserHeight ==
  ASSUME NEW text, text \in Seq(Node), NEW i \in Nat, NEW j, Encloses(text, j, i)
  PROVE  Height(text, j) <= Height(text, i - 1)
<1>1. j \in Nat /\ j < i /\ \A k \in j .. (i - 1) : Height(text, k) >= Height(text, j)
  BY DEF Encloses, Within
<1>2. i - 1 \in j .. (i - 1) /\ i - 1 \in Nat
  BY <1>1
<1>3. Height(text, j) \in Int /\ Height(text, i - 1) \in Int /\ Height(text, i - 1) >= Height(text, j)
  BY <1>1, <1>2, HeightStep
<1>. QED  BY <1>3

\* So the nearest of all is the nearest one up to there.
LEMMA TopIsUnder ==
  ASSUME NEW text, text \in Seq(Node), NEW so, NEW i \in Nat, NEW x
  PROVE  Top(text, so, i, x) <=> Under(text, so, i, Height(text, i - 1), x)
<1>1. \A j : Encloses(text, j, i) => Height(text, j) <= Height(text, i - 1)
  BY EncloserHeight
<1>2. \A j : Nearest(text, j, i) <=> Upto(text, j, i, Height(text, i - 1))
  BY <1>1 DEF Nearest, Upto
<1>. QED  BY <1>2 DEF Top, Under

\* There is one.
LEMMA TopIsOne ==
  ASSUME NEW text, text \in Seq(Node), NEW so, NEW i, NEW x, NEW y, Top(text, so, i, x), Top(text, so, i, y)
  PROVE  x = y
<1>1. PICK j : Nearest(text, j, i) /\ StandsFor(text, so, j, x)
  BY DEF Top
<1>2. PICK k : Nearest(text, k, i) /\ StandsFor(text, so, k, y)
  BY DEF Top
<1>3. j = k
  BY <1>1, <1>2, NearestIsOne
<1>. QED  BY <1>1, <1>2, <1>3 DEF StandsFor

\* It is the same where the same nodes are around.
LEMMA UnderSame ==
  ASSUME NEW text, NEW so, NEW i, NEW h, NEW i2, NEW h2, NEW x, Under(text, so, i, h, x),
         \A j : (Encloses(text, j, i) /\ Height(text, j) <= h) <=> (Encloses(text, j, i2) /\ Height(text, j) <= h2)
  PROVE  Under(text, so, i2, h2, x)
BY DEF Under, Upto

\* Nor for the nearest table.
LEMMA UnderAgrees ==
  ASSUME NEW text, NEW so, NEW so2, Agrees(so, so2), NEW i, NEW x
  PROVE  /\ Top(text, so, i, x) => Top(text, so2, i, x)
         /\ \A h : Under(text, so, i, h, x) => Under(text, so2, i, h, x)
<1>1. \A j : StandsFor(text, so, j, x) => StandsFor(text, so2, j, x)
  BY DEF StandsFor, Agrees
<1>. QED  BY <1>1 DEF Top, Under

\* The scope around expansions stays the same.
LEMMA OutsideStays ==
  ASSUME NEW ts, Shape(ts), Ranked(ts), NEW ts2, Shape(ts2), Ranked(ts2), Grows(ts, ts2), NEW t \in DOMAIN ts,
         ts[OutsideExpansions(ts, t)].kind # "TemplateParameter"
  PROVE  OutsideExpansions(ts2, t) = OutsideExpansions(ts, t)
<1>. DEFINE G == {u \in DOMAIN ts : ts[OutsideExpansions(ts, u)].kind # "TemplateParameter" =>
                                      OutsideExpansions(ts2, u) = OutsideExpansions(ts, u)}
<1>1. ASSUME NEW u \in DOMAIN ts, ts[u].parent # NoTable => ts[u].parent \in G
      PROVE  u \in G
  <2>1. u \in DOMAIN ts2 /\ ts2[u].kind = ts[u].kind /\ (ts[u].parent # NoTable => ts2[u].parent = ts[u].parent)
    BY DEF Grows
  <2>2. OutsideExpansions(ts, u) = IF ts[u].kind # "TemplateParameter" \/ ts[u].parent = NoTable THEN u
                                   ELSE OutsideExpansions(ts, ts[u].parent)
    BY OutsideStep
  <2>3. OutsideExpansions(ts2, u) = IF ts2[u].kind # "TemplateParameter" \/ ts2[u].parent = NoTable THEN u
                                    ELSE OutsideExpansions(ts2, ts2[u].parent)
    BY <2>1, OutsideStep
  <2>4. CASE ts[u].kind # "TemplateParameter"
    BY <2>1, <2>2, <2>3, <2>4
  <2>5. CASE ts[u].kind = "TemplateParameter" /\ ts[u].parent = NoTable
    BY <2>2, <2>5
  <2>6. CASE ts[u].kind = "TemplateParameter" /\ ts[u].parent # NoTable
    BY <1>1, <2>1, <2>2, <2>3, <2>6
  <2>. QED  BY <2>4, <2>5, <2>6
<1>. HIDE DEF G
<1>2. \A u \in DOMAIN ts : u \in G
  BY <1>1, FromTheTop
<1>. QED  BY <1>2 DEF G

\* It is still there when the tables have grown.
LEMMA WayGrows ==
  ASSUME NEW ts, NEW ts2, Grows(ts, ts2), NEW path \in Seq(DOMAIN ts), NEW names, WayDown(ts, path, names)
  PROVE  path \in Seq(DOMAIN ts2) /\ WayDown(ts2, path, names)
<1>1. Len(path) \in Nat /\ DOMAIN path = 1 .. Len(path)
  BY LenProperties
<1>2. path \in Seq(DOMAIN ts2)
  <2>1. DOMAIN ts \subseteq DOMAIN ts2
    BY DEF Grows
  <2>. QED  BY <2>1
<1>3. ASSUME NEW k \in 1 .. (Len(path) - 1)
      PROVE  \E s \in ts2[path[k]].symbols : s.name = names[k] /\ s.is = "namespace" /\ s.of = path[k + 1]
  <2>1. k \in DOMAIN path
    BY <1>1
  <2>2. path[k] \in DOMAIN ts
    BY <2>1
  <2>3. ts[path[k]].symbols \subseteq ts2[path[k]].symbols
    BY <2>2 DEF Grows
  <2>. QED  BY <2>3 DEF WayDown
<1>. QED  BY <1>2, <1>3 DEF WayDown

\* So is the way from a table.
LEMMA LeadingGrows ==
  ASSUME NEW ts, Shape(ts), Ranked(ts), NEW ts2, Shape(ts2), Ranked(ts2), Grows(ts, ts2), NEW x \in DOMAIN ts,
         NEW names, NEW y, Leading(ts, x, names, y)
  PROVE  Leading(ts2, x, names, y)
<1>1. PICK path \in Seq(DOMAIN ts) : /\ Len(path) = Len(names) + 1 /\ path[1] = OutsideExpansions(ts, x)
                                     /\ path[Len(path)] = y /\ WayDown(ts, path, names)
  BY DEF Leading
<1>2. PICK t : t = OutsideExpansions(ts, x)
  OBVIOUS
<1>3. t \in DOMAIN ts /\ ts[t].kind # "TemplateParameter"
  BY <1>2 DEF Leading
<1>4. t = OutsideExpansions(ts2, x)
  BY <1>2, <1>3, OutsideStays
<1>5. t \in DOMAIN ts2 /\ ts2[t].kind # "TemplateParameter"
  BY <1>3 DEF Grows
<1>6. path \in Seq(DOMAIN ts2) /\ WayDown(ts2, path, names)
  BY <1>1, WayGrows
<1>. QED  BY <1>1, <1>2, <1>4, <1>5, <1>6 DEF Leading

\* Two ways of the same names from one table pass through the same tables.
LEMMA OneWay ==
  ASSUME NEW text, NEW ts, Entries(text, ts), NEW names, NEW p \in Seq(DOMAIN ts), NEW q \in Seq(DOMAIN ts),
         WayDown(ts, p, names), WayDown(ts, q, names), p # <<>>, q # <<>>, p[1] = q[1]
  PROVE  \A k \in DOMAIN p \cap DOMAIN q : p[k] = q[k]
<1>1. /\ Len(p) \in Nat /\ Len(q) \in Nat /\ DOMAIN p = 1 .. Len(p) /\ DOMAIN q = 1 .. Len(q)
  BY LenProperties
<1>. DEFINE S == {m \in Nat : m + 1 \in DOMAIN p \cap DOMAIN q => p[m + 1] = q[m + 1]}
<1>2. 0 \in S
  OBVIOUS
<1>3. ASSUME NEW m \in S
      PROVE  m + 1 \in S
  <2>1. ASSUME (m + 1) + 1 \in DOMAIN p \cap DOMAIN q
        PROVE  p[(m + 1) + 1] = q[(m + 1) + 1]
    <3>1. /\ m \in Nat /\ m + 1 \in DOMAIN p \cap DOMAIN q
          /\ m + 1 \in 1 .. (Len(p) - 1) /\ m + 1 \in 1 .. (Len(q) - 1)
      BY <1>1, <2>1
    <3>2. p[m + 1] = q[m + 1] /\ p[m + 1] \in DOMAIN ts
      BY <3>1
    <3>3. PICK s \in ts[p[m + 1]].symbols : s.name = names[m + 1] /\ s.of = p[(m + 1) + 1]
      BY <3>1 DEF WayDown
    <3>4. PICK r \in ts[q[m + 1]].symbols : r.name = names[m + 1] /\ r.of = q[(m + 1) + 1]
      BY <3>1 DEF WayDown
    <3>5. s = r
      BY <3>2, <3>3, <3>4 DEF Entries
    <3>. QED  BY <3>3, <3>4, <3>5
  <2>. QED  BY <2>1
<1>4. S \in SUBSET Nat
  OBVIOUS
<1>. HIDE DEF S
<1>5. \A m \in Nat : m \in S
  BY <1>2, <1>3, <1>4, Induction
<1>6. ASSUME NEW k \in DOMAIN p \cap DOMAIN q
      PROVE  p[k] = q[k]
  <2>1. PICK m \in Nat : k = m + 1
    <3>1. k - 1 \in Nat /\ k = (k - 1) + 1
      BY <1>1
    <3>. QED  BY <3>1
  <2>2. m \in S
    BY <1>5
  <2>. QED  BY <2>1, <2>2 DEF S
<1>. QED  BY <1>6

\* So the table on top is that of the nearest node.
LEMMA FollowsTop ==
  ASSUME NEW text, text \in Seq(Node), NEW so, NEW pass, NEW first, NEW at, NEW base, NEW scopes, NEW open \in Seq(Nat),
         Standing(text, pass, first, at, Len(open)), Follows(text, so, first, at, base, scopes, open), Len(scopes) > 0
  PROVE  Top(text, so, at, scopes[Len(scopes)])
<1>1. PICK m : /\ Sums(base, scopes, open, m)
               /\ \A k \in 0 .. Len(open) : m[k] > 0 => Under(text, so, at, Height(text, first - 1) + k, scopes[m[k]])
  BY DEF Follows
<1>2. PICK n \in Nat : n = Len(open)
  BY LenProperties
<1>3. m[n] = Len(scopes) /\ n \in 0 .. n
  BY <1>1, <1>2 DEF Sums
<1>4. Under(text, so, at, Height(text, first - 1) + n, scopes[Len(scopes)])
  BY <1>1, <1>2, <1>3
<1>5. at \in Nat /\ first - 1 \in Nat /\ at - 1 \in Nat /\ n = Height(text, at - 1) - Height(text, first - 1)
  BY <1>2 DEF Standing
<1>6. Height(text, at - 1) = Height(text, first - 1) + n
  <2>1. Height(text, at - 1) \in Int /\ Height(text, first - 1) \in Int
    BY <1>5, HeightStep
  <2>. QED  BY <1>5, <2>1
<1>. QED  BY <1>4, <1>5, <1>6, TopIsUnder

\* A visitor that jumps.
LEMMA FollowsJumps ==
  ASSUME NEW text, text \in Seq(Node), NEW so, NEW first, NEW at, NEW base, NEW scopes, NEW open,
         Follows(text, so, first, at, base, scopes, open), NEW c, Jump(text, at, c)
  PROVE  Follows(text, so, first, c, base, scopes, open)
<1>1. PICK m : /\ Sums(base, scopes, open, m)
               /\ \A k \in 0 .. Len(open) : m[k] > 0 => Under(text, so, at, Height(text, first - 1) + k, scopes[m[k]])
  BY DEF Follows
<1>2. \A j : Encloses(text, j, c) <=> Encloses(text, j, at)
  BY JumpEncloses
<1>3. ASSUME NEW h, NEW x, Under(text, so, at, h, x)
      PROVE  Under(text, so, c, h, x)
  BY <1>2, <1>3, UnderSame
<1>. QED  BY <1>1, <1>3 DEF Follows

\* What stands for a node is what is on top inside of it.
LEMMA UnderEntered ==
  ASSUME NEW text, text \in Seq(Node), NEW so, NEW a \in DOMAIN text, text[a].op \in Opener, NEW x,
         IF text[a].op = "template" THEN Under(text, so, a, Height(text, a - 1), x) ELSE StandsFor(text, so, a, x)
  PROVE  Under(text, so, a + 1, Height(text, a), x)
<1>1. a \in Nat /\ a - 1 \in Nat
  OBVIOUS
<1>2. \A j : Encloses(text, j, a + 1) <=> (Encloses(text, j, a) \/ j = a)
  BY EnterEncloses
<1>3. Height(text, a) = Height(text, a - 1) + 1 /\ Height(text, a - 1) \in Int
  <2>1. /\ Height(text, (a - 1) + 1) = Height(text, a - 1) + Lift(text[(a - 1) + 1].op)
        /\ Height(text, a - 1) \in Int
    BY <1>1, HeightStep
  <2>2. (a - 1) + 1 = a /\ Lift(text[a].op) = 1
    BY <1>1 DEF Lift
  <2>. QED  BY <2>1, <2>2
<1>4. \A j : Encloses(text, j, a) => j \in Nat /\ j < a
  BY DEF Encloses, Within
<1>5. \A j : Encloses(text, j, a) => Height(text, j) <= Height(text, a - 1)
  BY <1>1, EncloserHeight
<1>6. \A j : Encloses(text, j, a) => Height(text, j) \in Int
  BY <1>4, HeightStep
<1>7. CASE text[a].op = "template"
  <2>1. PICK j : Upto(text, j, a, Height(text, a - 1)) /\ StandsFor(text, so, j, x)
    BY <1>7 DEF Under
  <2>2. Encloses(text, j, a + 1) /\ Height(text, j) <= Height(text, a) /\ text[j].op # "template"
    BY <1>2, <1>3, <1>5, <1>6, <2>1 DEF Upto
  <2>3. ASSUME NEW k \in DOMAIN text, k > j, Encloses(text, k, a + 1)
        PROVE  text[k].op = "template"
    BY <1>2, <1>5, <1>7, <2>1, <2>3 DEF Upto
  <2>. QED  BY <2>1, <2>2, <2>3 DEF Under, Upto
<1>8. CASE text[a].op # "template"
  <2>1. Encloses(text, a, a + 1) /\ Height(text, a) <= Height(text, a)
    BY <1>2, <1>3
  <2>2. \A k \in DOMAIN text : Encloses(text, k, a + 1) => ~(k > a)
    BY <1>1, <1>2, <1>4
  <2>. QED  BY <1>8, <2>1, <2>2 DEF Under, Upto
<1>. QED  BY <1>7, <1>8

\* A visitor that enters a node.
LEMMA FollowsEnters ==
  ASSUME NEW text, text \in Seq(Node), NEW so, NEW pass, NEW first, NEW at, NEW base,
         NEW scopes \in Seq(Nat), NEW open \in Seq(Nat),
         Standing(text, pass, first, at, Len(open)), Follows(text, so, first, at, base, scopes, open),
         at \in DOMAIN text, text[at].op \in Opener, NEW p \in Seq(Nat),
         IF text[at].op = "template" THEN p = <<>> ELSE p # <<>> /\ StandsFor(text, so, at, p[Len(p)])
  PROVE  Follows(text, so, first, at + 1, base, scopes \o p, Append(open, Len(p)))
<1>1. PICK m : /\ Sums(base, scopes, open, m)
               /\ \A k \in 0 .. Len(open) : m[k] > 0 => Under(text, so, at, Height(text, first - 1) + k, scopes[m[k]])
  BY DEF Follows
<1>2. PICK l \in Nat : l = Len(p)
  BY LenProperties
<1>3. PICK s2, o2 : s2 = scopes \o p /\ o2 = Append(open, l)
  OBVIOUS
<1>4. PICK ls \in Nat : ls = Len(scopes)
  BY LenProperties
<1>5. PICK n \in Nat : n = Len(open)
  BY LenProperties
<1>6. Len(o2) = n + 1
  BY <1>3, <1>5, SeqPush
<1>7. Len(s2) = ls + l /\ \A k \in 1 .. (ls + l) : s2[k] = IF k <= ls THEN scopes[k] ELSE p[k - ls]
  <2>1. Pushed(scopes, open, p, scopes \o p, Append(open, Len(p)))
    BY PushedBoth
  <2>2. Pushed(scopes, open, p, s2, Append(open, Len(p)))
    BY <1>3, <2>1
  <2>. QED  BY <1>2, <1>4, <2>2 DEF Pushed
<1>8. PICK m2 : Sums(base, s2, o2, m2) /\ \A k \in 0 .. n : m2[k] = m[k]
  <2>1. Len(s2) = Len(scopes) + l /\ o2 = Append(open, l) /\ Sums(base, scopes, open, m)
    BY <1>1, <1>3, <1>4, <1>7
  <2>2. PICK m2 : SumsFrom(base, s2, o2, m2, Len(open), m)
    BY <2>1, SumsPush
  <2>. QED  BY <1>5, <2>2 DEF SumsFrom
<1>9. PICK hf \in Int : hf = Height(text, first - 1)
  <2>1. first - 1 \in Nat
    BY DEF Standing
  <2>. QED  BY <2>1, HeightStep
<1>10. /\ at \in Nat /\ at - 1 \in Nat /\ Height(text, at - 1) = hf + n /\ Height(text, at) = hf + (n + 1)
  <2>1. at \in Nat /\ at - 1 \in Nat /\ n = Height(text, at - 1) - hf
    BY <1>5, <1>9 DEF Standing
  <2>2. /\ Height(text, (at - 1) + 1) = Height(text, at - 1) + Lift(text[(at - 1) + 1].op)
        /\ Height(text, at - 1) \in Int
    BY <2>1, HeightStep
  <2>3. (at - 1) + 1 = at /\ Lift(text[at].op) = 1
    BY <2>1 DEF Lift
  <2>. QED  BY <2>1, <2>2, <2>3
<1>11. \A j : Encloses(text, j, at + 1) <=> (Encloses(text, j, at) \/ j = at)
  BY EnterEncloses
<1>12. ASSUME NEW k \in 0 .. n, m[k] > 0
       PROVE  Under(text, so, at + 1, hf + k, s2[m[k]])
  <2>1. m[k] \in Nat /\ m[k] <= ls /\ k \in Nat
    <3>1. Sums(base, scopes, open, m)
      BY <1>1
    <3>2. m[k] \in Nat /\ m[k] <= Len(scopes)
      BY <1>5, <3>1, SumsBound
    <3>. QED  BY <1>4, <3>2
  <2>2. s2[m[k]] = scopes[m[k]]
    BY <1>7, <1>12, <2>1
  <2>3. Under(text, so, at, hf + k, scopes[m[k]])
    BY <1>1, <1>5, <1>9, <1>12
  <2>4. ~(Height(text, at) <= hf + k)
    BY <1>10, <2>1
  <2>5. \A j : (Encloses(text, j, at) /\ Height(text, j) <= hf + k)
               <=> (Encloses(text, j, at + 1) /\ Height(text, j) <= hf + k)
    BY <1>11, <2>4
  <2>. QED  BY <2>2, <2>3, <2>5, UnderSame
<1>13. ASSUME m2[n + 1] > 0
       PROVE  Under(text, so, at + 1, hf + (n + 1), s2[m2[n + 1]])
  <2>1. m2[n + 1] = ls + l
    BY <1>6, <1>7, <1>8 DEF Sums
  <2>2. CASE text[at].op = "template"
    <3>1. l = 0
      BY <1>2, <2>2
    <3>2. m[n] = ls
      BY <1>1, <1>4, <1>5 DEF Sums
    <3>3. ls > 0 /\ m2[n + 1] = ls
      BY <1>13, <2>1, <3>1
    <3>4. s2[ls] = scopes[ls]
      BY <1>7, <3>1, <3>3
    <3>5. Under(text, so, at, hf + n, scopes[ls])
      <4>1. n \in 0 .. n
        OBVIOUS
      <4>. QED  BY <1>1, <1>5, <1>9, <3>2, <3>3, <4>1
    <3>6. Under(text, so, at + 1, Height(text, at), scopes[ls])
      BY <1>10, <2>2, <3>5, UnderEntered
    <3>. QED  BY <1>10, <3>3, <3>4, <3>6
  <2>3. CASE text[at].op # "template"
    <3>1. l # 0
      BY <1>2, <2>3, EmptySeq
    <3>2. s2[ls + l] = p[l]
      <4>1. ls + l \in 1 .. (ls + l) /\ ~(ls + l <= ls) /\ (ls + l) - ls = l
        BY <3>1
      <4>. QED  BY <1>7, <4>1
    <3>3. StandsFor(text, so, at, p[l])
      BY <1>2, <2>3
    <3>4. Under(text, so, at + 1, Height(text, at), p[l])
      BY <2>3, <3>3, UnderEntered
    <3>. QED  BY <1>10, <2>1, <3>2, <3>4
  <2>. QED  BY <2>2, <2>3
<1>14. ASSUME NEW k \in 0 .. (n + 1), m2[k] > 0
       PROVE  Under(text, so, at + 1, hf + k, s2[m2[k]])
  <2>1. CASE k = n + 1
    BY <1>13, <1>14, <2>1
  <2>2. CASE k # n + 1
    <3>1. k \in 0 .. n
      BY <2>2
    <3>. QED  BY <1>8, <1>12, <1>14, <3>1
  <2>. QED  BY <2>1, <2>2
<1>15. Follows(text, so, first, at + 1, base, s2, o2)
  BY <1>6, <1>8, <1>9, <1>14 DEF Follows
<1>. QED  BY <1>2, <1>3, <1>15

\* A visitor that leaves one.
LEMMA FollowsLeaves ==
  ASSUME NEW text, text \in Seq(Node), NEW so, NEW pass, NEW first, NEW at, NEW base,
         NEW scopes, NEW open \in Seq(Nat), open # <<>>,
         Standing(text, pass, first, at, Len(open)), Follows(text, so, first, at, base, scopes, open),
         at \in DOMAIN text, text[at].op = "end",
         NEW s2, NEW o2, Popped(scopes, open, s2, o2), s2 \in Seq(Nat), o2 = SubSeq(open, 1, Len(open) - 1)
  PROVE  Follows(text, so, first, at + 1, base, s2, o2)
<1>1. PICK m : /\ Sums(base, scopes, open, m)
               /\ \A k \in 0 .. Len(open) : m[k] > 0 => Under(text, so, at, Height(text, first - 1) + k, scopes[m[k]])
  BY DEF Follows
<1>2. PICK n \in Nat : Len(open) = n + 1
  <2>1. Len(open) \in Nat /\ Len(open) # 0
    BY LenProperties, EmptySeq
  <2>2. Len(open) - 1 \in Nat /\ Len(open) = (Len(open) - 1) + 1
    BY <2>1
  <2>. QED  BY <2>2
<1>3. /\ Len(o2) = n /\ Len(s2) = Len(scopes) - open[Len(open)]
      /\ \A k \in DOMAIN s2 : s2[k] = scopes[k]
  <2>1. Len(o2) = Len(open) - 1
    BY DEF Popped
  <2>2. Len(o2) = n
    BY <1>2, <2>1
  <2>. QED  BY <2>2 DEF Popped
<1>4. PICK m2 : Sums(base, s2, o2, m2) /\ \A k \in 0 .. n : m2[k] = m[k]
  <2>1. \A k \in 0 .. n : k \in 0 .. (Len(open) - 1)
    BY <1>2
  <2>2. PICK m2 : SumsFrom(base, s2, o2, m2, Len(open) - 1, m)
    <3>1. Sums(base, scopes, open, m) /\ Len(s2) = Len(scopes) - open[Len(open)]
      BY <1>1, <1>3
    <3>. QED  BY <3>1, SumsPop
  <2>. QED  BY <2>1, <2>2 DEF SumsFrom
<1>5. PICK hf \in Int : hf = Height(text, first - 1)
  <2>1. first - 1 \in Nat
    BY DEF Standing
  <2>. QED  BY <2>1, HeightStep
<1>6. Height(text, at - 1) = hf + (n + 1)
  <2>1. at - 1 \in Nat /\ n + 1 = Height(text, at - 1) - hf
    BY <1>2, <1>5 DEF Standing
  <2>2. PICK x \in Int : x = Height(text, at - 1)
    BY <2>1, HeightStep
  <2>3. n + 1 = x - hf
    BY <2>1, <2>2
  <2>4. x = hf + (n + 1)
    BY <2>3
  <2>. QED  BY <2>2, <2>4
<1>7. \A j : Encloses(text, j, at + 1) <=> (Encloses(text, j, at) /\ Height(text, j) < Height(text, at - 1))
  BY LeaveEncloses
<1>8. ASSUME NEW k \in 0 .. n, m2[k] > 0
      PROVE  Under(text, so, at + 1, hf + k, s2[m2[k]])
  <2>1. m2[k] \in Nat /\ m2[k] <= Len(s2) /\ k \in Nat
    <3>1. Sums(base, s2, o2, m2) /\ n = Len(o2)
      BY <1>3, <1>4
    <3>2. \A i \in 0 .. n : m2[i] \in Nat /\ m2[i] <= Len(s2)
      BY <3>1, SumsBound
    <3>. QED  BY <3>2
  <2>2. m2[k] \in DOMAIN s2
    <3>1. Len(s2) \in Nat /\ DOMAIN s2 = 1 .. Len(s2)
      BY LenProperties
    <3>. QED  BY <1>8, <2>1, <3>1
  <2>3. s2[m2[k]] = scopes[m[k]] /\ m[k] > 0
    BY <1>3, <1>4, <1>8, <2>2
  <2>4. Under(text, so, at, hf + k, scopes[m[k]])
    <3>1. k \in 0 .. Len(open)
      BY <1>2
    <3>. QED  BY <1>1, <1>5, <2>3, <3>1
  <2>5. ASSUME NEW j, Encloses(text, j, at), Height(text, j) <= hf + k
        PROVE  Height(text, j) < Height(text, at - 1)
    <3>1. j \in Nat
      BY <2>5 DEF Encloses
    <3>2. Height(text, j) \in Int
      BY <3>1, HeightStep
    <3>. QED  BY <1>6, <2>1, <2>5, <3>2
  <2>6. \A j : (Encloses(text, j, at) /\ Height(text, j) <= hf + k)
               <=> (Encloses(text, j, at + 1) /\ Height(text, j) <= hf + k)
    BY <1>7, <2>5
  <2>. QED  BY <2>3, <2>4, <2>6, UnderSame
<1>. QED  BY <1>3, <1>4, <1>5, <1>8 DEF Follows

\* A visitor that sets out.
LEMMA FollowsBegins ==
  ASSUME NEW text, text \in Seq(Node), NEW so, NEW first \in Nat \ {0}, NEW base \in Seq(Nat),
         base # <<>> => Top(text, so, first, base[Len(base)])
  PROVE  Follows(text, so, first, first, base, base, <<>>)
<1>1. PICK l \in Nat : l = Len(base)
  BY LenProperties
<1>. DEFINE m == [k \in 0 .. 0 |-> l]
<1>2. PICK none : none = <<>> /\ Len(none) = 0
  OBVIOUS
<1>3. m[0] = l /\ m \in [0 .. 0 -> Nat] /\ \A k \in 0 .. 0 : k = 0
  OBVIOUS
<1>. HIDE DEF m
<1>4. Sums(base, base, none, m)
  <2>1. \A k : k \notin 1 .. 0
    OBVIOUS
  <2>2. \A j, k \in 0 .. 0 : m[j] <= m[k]
    BY <1>3
  <2>. QED  BY <1>1, <1>2, <1>3, <2>1, <2>2 DEF Sums
<1>5. PICK h \in Int : h = Height(text, first - 1)
  <2>1. first - 1 \in Nat
    OBVIOUS
  <2>. QED  BY <2>1, HeightStep
<1>6. ASSUME NEW k \in 0 .. 0, m[k] > 0
      PROVE  Under(text, so, first, h + k, base[m[k]])
  <2>1. m[k] = l /\ h + k = h /\ base # <<>>
    BY <1>1, <1>3, <1>6
  <2>2. Under(text, so, first, h, base[l])
    BY <1>1, <1>5, <2>1, TopIsUnder
  <2>. QED  BY <2>1, <2>2
<1>7. Follows(text, so, first, first, base, base, none)
  BY <1>2, <1>4, <1>5, <1>6 DEF Follows
<1>. QED  BY <1>2, <1>7

\* Namespaces that are entered do not matter.
LEMMA FollowsAgrees ==
  ASSUME NEW text, NEW so, NEW so2, Agrees(so, so2), NEW first, NEW at, NEW base, NEW scopes, NEW open,
         Follows(text, so, first, at, base, scopes, open)
  PROVE  Follows(text, so2, first, at, base, scopes, open)
<1>1. \A i, h, x : Under(text, so, i, h, x) => Under(text, so2, i, h, x)
  BY UnderAgrees
<1>. QED  BY <1>1 DEF Follows

\* The tables grow.
LEMMA LedGrows ==
  ASSUME NEW text, NEW ts, Shape(ts), Ranked(ts), NEW ts2, Shape(ts2), Ranked(ts2), Grows(ts, ts2), NEW so,
         Led(text, ts, so)
  PROVE  Led(text, ts2, so)
<1>1. ASSUME NEW i \in DOMAIN text, text[i].op = "namespace", text[i].id \in DOMAIN so
      PROVE  \E x \in DOMAIN ts2 : Top(text, so, i, x) /\ Leading(ts2, x, text[i].name, so[text[i].id])
  <2>1. PICK x \in DOMAIN ts : Top(text, so, i, x) /\ Leading(ts, x, text[i].name, so[text[i].id])
    BY <1>1 DEF Led
  <2>2. PICK names, y : names = text[i].name /\ y = so[text[i].id]
    OBVIOUS
  <2>3. Leading(ts2, x, names, y)
    BY <2>1, <2>2, LeadingGrows
  <2>4. x \in DOMAIN ts2
    BY DEF Grows
  <2>. QED  BY <2>1, <2>2, <2>3, <2>4
<1>. QED  BY <1>1 DEF Led

\* A namespace more has been entered.
LEMMA LedMore ==
  ASSUME NEW text, NEW ts, NEW so, NEW so2, Led(text, ts, so), Agrees(so, so2), NEW a \in DOMAIN text,
         DOMAIN so2 = DOMAIN so \union {text[a].id}, \A i, j \in DOMAIN text : text[i].id = text[j].id => i = j,
         NEW x \in DOMAIN ts, Top(text, so, a, x), Leading(ts, x, text[a].name, so2[text[a].id])
  PROVE  Led(text, ts, so2)
<1>1. \A i, y : Top(text, so, i, y) => Top(text, so2, i, y)
  BY UnderAgrees
<1>2. ASSUME NEW i \in DOMAIN text, text[i].op = "namespace", text[i].id \in DOMAIN so2
      PROVE  \E y \in DOMAIN ts : Top(text, so2, i, y) /\ Leading(ts, y, text[i].name, so2[text[i].id])
  <2>1. CASE i = a
    BY <1>1, <2>1
  <2>2. CASE i # a
    <3>1. text[i].id \in DOMAIN so
      BY <1>2, <2>2
    <3>2. so2[text[i].id] = so[text[i].id]
      BY <3>1 DEF Agrees
    <3>. QED  BY <1>1, <1>2, <3>1, <3>2 DEF Led
  <2>. QED  BY <2>1, <2>2
<1>. QED  BY <1>2 DEF Led

\* The nearest table is the same when a copy has been inserted.
LEMMA TopInserted ==
  ASSUME NEW text, NEW new, NEW a, NEW s, NEW n, NEW fresh, TextInv(text), Inserts(text, new, a, s, n, fresh),
         NEW so, NEW i \in DOMAIN text, NEW x, Top(text, so, i, x)
  PROVE  Top(new, so, Moved(a, n, i), x)
<1>1. PICK j : Nearest(text, j, i) /\ StandsFor(text, so, j, x)
  BY DEF Top
<1>2. /\ a \in Nat /\ n \in Nat /\ DOMAIN text = 1 .. Len(text) /\ Len(text) \in Nat
      /\ \A o \in DOMAIN text : Moved(a, n, o) \in DOMAIN new /\ new[Moved(a, n, o)] = text[o]
      /\ \A k \in DOMAIN new : (\E o \in DOMAIN text : k = Moved(a, n, o)) \/ (\E l \in 1 .. n : k = a + l)
  <2>1. a \in Nat /\ n \in Nat /\ DOMAIN text = 1 .. Len(text) /\ Len(text) \in Nat
    BY InsertedSizes
  <2>2. \A o \in DOMAIN text : Moved(a, n, o) \in DOMAIN new /\ new[Moved(a, n, o)] = text[o]
    BY InsertedPlaces
  <2>3. \A k \in DOMAIN new : (\E o \in DOMAIN text : k = Moved(a, n, o)) \/ (\E l \in 1 .. n : k = a + l)
    BY InsertedPlaces
  <2>. QED  BY <2>1, <2>2, <2>3
<1>3. j \in DOMAIN text /\ text[j].op # "template" /\ Encloses(text, j, i)
  BY <1>1 DEF Nearest, Encloses
<1>4. PICK j2, i2 : j2 = Moved(a, n, j) /\ i2 = Moved(a, n, i)
  OBVIOUS
<1>5. j2 \in DOMAIN new /\ new[j2] = text[j]
  BY <1>2, <1>3, <1>4
<1>6. Encloses(new, j2, i2)
  BY <1>3, <1>4, InsertedEncloses
<1>7. ASSUME NEW k \in DOMAIN new, k > j2, Encloses(new, k, i2)
      PROVE  new[k].op = "template"
  <2>1. CASE \E o \in DOMAIN text : k = Moved(a, n, o)
    <3>1. PICK o \in DOMAIN text : k = Moved(a, n, o)
      BY <2>1
    <3>2. Encloses(text, o, i)
      BY <1>4, <1>7, <3>1, InsertedEncloses
    <3>3. o > j
      <4>1. o \in Nat /\ j \in Nat /\ Moved(a, n, o) > Moved(a, n, j)
        BY <1>2, <1>3, <1>4, <1>7, <3>1
      <4>. QED  BY <1>2, <4>1 DEF Moved
    <3>4. text[o].op = "template"
      BY <1>1, <3>2, <3>3 DEF Nearest
    <3>. QED  BY <1>2, <3>1, <3>4
  <2>2. CASE \E l \in 1 .. n : k = a + l
    <3>1. PICK l \in 1 .. n : k = a + l
      BY <2>2
    <3>. QED  BY <1>4, <1>7, <3>1, CopyEnclosesCopy
  <2>. QED  BY <1>2, <2>1, <2>2
<1>8. Nearest(new, j2, i2)
  BY <1>3, <1>5, <1>6, <1>7 DEF Nearest
<1>9. StandsFor(new, so, j2, x)
  BY <1>1, <1>5 DEF StandsFor
<1>. QED  BY <1>4, <1>8, <1>9 DEF Top

\* So are the ways; nothing in the copy has been entered.
LEMMA LedInserted ==
  ASSUME NEW text, NEW new, NEW a, NEW s, NEW n, NEW fresh, TextInv(text), Inserts(text, new, a, s, n, fresh),
         NEW so, Recorded(text, so), NEW ts, Led(text, ts, so)
  PROVE  /\ Led(new, ts, so) /\ Recorded(new, so)
         /\ \A k \in 1 .. n : new[a + k].id \notin DOMAIN so
<1>1. /\ \A o \in DOMAIN text : Moved(a, n, o) \in DOMAIN new /\ new[Moved(a, n, o)] = text[o]
      /\ \A k \in DOMAIN new : (\E o \in DOMAIN text : k = Moved(a, n, o)) \/ (\E l \in 1 .. n : k = a + l)
  BY InsertedPlaces
<1>2. ASSUME NEW k \in 1 .. n
      PROVE  new[a + k].id \notin DOMAIN so
  <2>1. new[a + k].id = fresh + k
    BY CopyFields
  <2>2. fresh \in Nat /\ (\A i \in DOMAIN text : text[i].id <= fresh) /\ n \in Nat
    BY DEF Inserts
  <2>3. ASSUME NEW i \in DOMAIN text
        PROVE  text[i].id # fresh + k
    <3>1. text[i].id <= fresh
      BY <2>2
    <3>2. text[i] \in Node
      BY DEF TextInv
    <3>3. text[i].id \in Nat
      BY <3>2, NodeFields
    <3>. QED  BY <2>2, <3>1, <3>3
  <2>. QED  BY <2>1, <2>3 DEF Recorded
<1>3. ASSUME NEW i \in DOMAIN new, new[i].op = "namespace", new[i].id \in DOMAIN so
      PROVE  \E x \in DOMAIN ts : Top(new, so, i, x) /\ Leading(ts, x, new[i].name, so[new[i].id])
  <2>1. PICK o \in DOMAIN text : i = Moved(a, n, o)
    BY <1>1, <1>2, <1>3
  <2>2. new[i] = text[o]
    BY <1>1, <2>1
  <2>3. PICK x \in DOMAIN ts : Top(text, so, o, x) /\ Leading(ts, x, text[o].name, so[text[o].id])
    BY <1>3, <2>2 DEF Led
  <2>4. Top(new, so, i, x)
    BY <2>1, <2>3, TopInserted
  <2>. QED  BY <2>2, <2>3, <2>4
<1>4. Recorded(new, so)
  BY <1>1 DEF Recorded
<1>. QED  BY <1>2, <1>3, <1>4 DEF Led

\* Behind an expansion its table is the nearest.
LEMMA TopBehind ==
  ASSUME NEW text, text \in Seq(Node), NEW so, NEW a \in DOMAIN text, text[a].op = "expand"
  PROVE  Top(text, so, a + 1, text[a].id)
<1>1. \A j : Encloses(text, j, a + 1) <=> (Encloses(text, j, a) \/ j = a)
  BY EnterEncloses DEF Opener
<1>2. \A j : Encloses(text, j, a) => j \in Nat /\ j < a
  BY DEF Encloses, Within
<1>3. Nearest(text, a, a + 1)
  BY <1>1, <1>2 DEF Nearest
<1>. QED  BY <1>3 DEF Top, StandsFor

\* The visitor jumps.
LEMMA ScopedGoes ==
  ASSUME NEW text, text \in Seq(Node), NEW ts, TableInv(text, ts), NEW ts2, Grown(text, ts, ts2), NEW so,
         NEW fr, FrameOK(text, ts, fr), Scoped(text, ts, so, fr), NEW c, Jump(text, fr.at, c),
         fr.pass = "record" => c = fr.at + 1 /\ text[fr.at].op # "namespace"
  PROVE  Scoped(text, ts2, so, GoneTo(fr, c))
<1>1. fr \in FrameSet /\ fr.at \in Nat
  BY FrameFields
<1>2. PICK f2 : f2 = GoneTo(fr, c)
  OBVIOUS
<1>3. /\ f2.pass = fr.pass /\ f2.first = fr.first /\ f2.at = c /\ f2.base = fr.base /\ f2.scopes = fr.scopes
      /\ f2.open = fr.open
  BY <1>1, <1>2 DEF GoneTo, FrameSet
<1>4. Led(text, ts2, so)
  BY LedGrows DEF Grown, TableInv, Scoped
<1>5. ASSUME NEW i \in DOMAIN text, text[i].op = "namespace", text[i].id \notin DOMAIN so
      PROVE  fr.pass = "record" /\ i >= c /\ Within(text, fr.first - 1, i)
  <2>1. fr.pass = "record" /\ i >= fr.at /\ Within(text, fr.first - 1, i)
    BY <1>5 DEF Scoped, Unrecorded
  <2>2. i \in Nat /\ i # fr.at
    BY <1>5, <2>1
  <2>. QED  BY <1>1, <2>1, <2>2
<1>6. Unrecorded(text, so, f2.pass, f2.first, f2.at)
  BY <1>3, <1>5 DEF Unrecorded
<1>7. ASSUME f2.pass # "expand"
      PROVE  /\ Follows(text, so, f2.first, f2.at, f2.base, f2.scopes, f2.open)
             /\ f2.base # <<>> => Top(text, so, f2.first, f2.base[Len(f2.base)])
  <2>1. PICK first, at, base, scopes, open :
          first = fr.first /\ at = fr.at /\ base = fr.base /\ scopes = fr.scopes /\ open = fr.open
    OBVIOUS
  <2>2. Follows(text, so, first, at, base, scopes, open) /\ Jump(text, at, c)
    BY <1>3, <1>7, <2>1 DEF Scoped
  <2>3. Follows(text, so, first, c, base, scopes, open)
    BY <2>2, FollowsJumps
  <2>4. base # <<>> => Top(text, so, first, base[Len(base)])
    BY <1>3, <1>7, <2>1 DEF Scoped
  <2>. QED  BY <1>3, <2>1, <2>3, <2>4
<1>8. Recorded(text, so)
  BY DEF Scoped
<1>9. Scoped(text, ts2, so, f2)
  BY <1>4, <1>6, <1>7, <1>8 DEF Scoped
<1>. QED  BY <1>2, <1>9

\* The visitor enters a node.
LEMMA ScopedEnters ==
  ASSUME NEW text, text \in Seq(Node), NEW ts, NEW so, NEW fr, FrameOK(text, ts, fr), Scoped(text, ts, so, fr),
         fr.at \in DOMAIN text, text[fr.at].op \in Opener,
         NEW ts2, NEW so2, Agrees(so, so2), Recorded(text, so2), Led(text, ts2, so2),
         text[fr.at].op = "namespace" => text[fr.at].id \in DOMAIN so2, NEW p \in Seq(Nat),
         fr.pass # "expand" => IF text[fr.at].op = "template" THEN p = <<>>
                               ELSE p # <<>> /\ StandsFor(text, so2, fr.at, p[Len(p)])
  PROVE  Scoped(text, ts2, so2, Entering(fr, p))
<1>1. fr \in FrameSet /\ fr.at \in Nat /\ fr.scopes \in Seq(Nat) /\ fr.open \in Seq(Nat)
      /\ Standing(text, fr.pass, fr.first, fr.at, Len(fr.open))
  BY FrameFields
<1>2. PICK f2 : f2 = Entering(fr, p)
  OBVIOUS
<1>3. PICK pass, first, at, base, scopes, open :
        /\ pass = fr.pass /\ first = fr.first /\ at = fr.at /\ base = fr.base /\ scopes = fr.scopes /\ open = fr.open
  OBVIOUS
<1>4. /\ f2.pass = pass /\ f2.first = first /\ f2.at = at + 1 /\ f2.base = base /\ f2.scopes = scopes \o p
      /\ f2.open = Append(open, Len(p))
  BY <1>1, <1>2, <1>3 DEF Entering, FrameSet
<1>5. ASSUME NEW i \in DOMAIN text, text[i].op = "namespace", text[i].id \notin DOMAIN so2
      PROVE  pass = "record" /\ i >= at + 1 /\ Within(text, first - 1, i)
  <2>1. text[i].id \notin DOMAIN so
    BY <1>5 DEF Agrees
  <2>2. pass = "record" /\ i >= at /\ Within(text, first - 1, i)
    BY <1>3, <1>5, <2>1 DEF Scoped, Unrecorded
  <2>3. i \in Nat /\ i # at
    BY <1>3, <1>5
  <2>. QED  BY <1>1, <1>3, <2>2, <2>3
<1>6. Unrecorded(text, so2, f2.pass, f2.first, f2.at)
  BY <1>4, <1>5 DEF Unrecorded
<1>7. ASSUME f2.pass # "expand"
      PROVE  /\ Follows(text, so2, f2.first, f2.at, f2.base, f2.scopes, f2.open)
             /\ f2.base # <<>> => Top(text, so2, f2.first, f2.base[Len(f2.base)])
  <2>1. Follows(text, so, first, at, base, scopes, open)
    BY <1>3, <1>4, <1>7 DEF Scoped
  <2>2. Follows(text, so2, first, at, base, scopes, open)
    BY <2>1, FollowsAgrees
  <2>3. IF text[at].op = "template" THEN p = <<>> ELSE p # <<>> /\ StandsFor(text, so2, at, p[Len(p)])
    BY <1>3, <1>4, <1>7
  <2>4. Standing(text, pass, first, at, Len(open)) /\ scopes \in Seq(Nat) /\ open \in Seq(Nat)
        /\ at \in DOMAIN text /\ text[at].op \in Opener
    BY <1>1, <1>3
  <2>5. Follows(text, so2, first, at + 1, base, scopes \o p, Append(open, Len(p)))
    BY <2>2, <2>3, <2>4, FollowsEnters
  <2>6. base # <<>> => Top(text, so, first, base[Len(base)])
    BY <1>3, <1>4, <1>7 DEF Scoped
  <2>7. base # <<>> => Top(text, so2, first, base[Len(base)])
    BY <2>6, UnderAgrees
  <2>. QED  BY <1>4, <2>5, <2>7
<1>8. Scoped(text, ts2, so2, f2)
  BY <1>6, <1>7 DEF Scoped
<1>. QED  BY <1>2, <1>8

\* The visitor leaves one.
LEMMA ScopedLeaves ==
  ASSUME NEW text, text \in Seq(Node), NEW ts, NEW so, NEW fr, FrameOK(text, ts, fr), Scoped(text, ts, so, fr),
         fr.at \in DOMAIN text, text[fr.at].op = "end", fr.open # <<>>
  PROVE  Scoped(text, ts, so, Leaving(fr))
<1>1. fr \in FrameSet /\ fr.at \in Nat /\ fr.scopes \in Seq(Nat) /\ fr.open \in Seq(Nat)
      /\ Standing(text, fr.pass, fr.first, fr.at, Len(fr.open))
      /\ Stacked(fr.pass, fr.first, fr.base, fr.scopes, fr.open)
  BY FrameFields
<1>2. PICK f2 : f2 = Leaving(fr)
  OBVIOUS
<1>3. PICK pass, first, at, base, scopes, open :
        /\ pass = fr.pass /\ first = fr.first /\ at = fr.at /\ base = fr.base /\ scopes = fr.scopes /\ open = fr.open
  OBVIOUS
<1>4. PICK s2, o2 : /\ s2 = SubSeq(scopes, 1, Len(scopes) - open[Len(open)])
                    /\ o2 = SubSeq(open, 1, Len(open) - 1)
  OBVIOUS
<1>5. f2.pass = pass /\ f2.first = first /\ f2.at = at + 1 /\ f2.base = base /\ f2.scopes = s2 /\ f2.open = o2
  BY <1>1, <1>2, <1>3, <1>4 DEF Leaving, FrameSet
<1>6. ASSUME NEW i \in DOMAIN text, text[i].op = "namespace", text[i].id \notin DOMAIN so
      PROVE  pass = "record" /\ i >= at + 1 /\ Within(text, first - 1, i)
  <2>1. pass = "record" /\ i >= at /\ Within(text, first - 1, i)
    BY <1>3, <1>6 DEF Scoped, Unrecorded
  <2>2. i \in Nat /\ i # at
    BY <1>3, <1>6
  <2>. QED  BY <1>1, <1>3, <2>1, <2>2
<1>7. Unrecorded(text, so, f2.pass, f2.first, f2.at)
  BY <1>5, <1>6 DEF Unrecorded
<1>8. ASSUME f2.pass # "expand"
      PROVE  /\ Follows(text, so, f2.first, f2.at, f2.base, f2.scopes, f2.open)
             /\ f2.base # <<>> => Top(text, so, f2.first, f2.base[Len(f2.base)])
  <2>1. Follows(text, so, first, at, base, scopes, open)
    BY <1>3, <1>5, <1>8 DEF Scoped
  <2>2. /\ Standing(text, pass, first, at, Len(open)) /\ Stacked(pass, first, base, scopes, open)
        /\ scopes \in Seq(Nat) /\ open \in Seq(Nat) /\ open # <<>> /\ at \in DOMAIN text /\ text[at].op = "end"
    BY <1>1, <1>3
  <2>3. Stacked(pass, first, base, s2, o2) /\ Popped(scopes, open, s2, o2)
    BY <1>4, <2>2, LeaveStacked
  <2>4. s2 \in Seq(Nat)
    BY <2>3 DEF Stacked
  <2>5. Follows(text, so, first, at + 1, base, s2, o2)
    BY <1>4, <2>1, <2>2, <2>3, <2>4, FollowsLeaves
  <2>6. base # <<>> => Top(text, so, first, base[Len(base)])
    BY <1>3, <1>5, <1>8 DEF Scoped
  <2>. QED  BY <1>5, <2>5, <2>6
<1>9. Scoped(text, ts, so, f2)
  BY <1>7, <1>8 DEF Scoped
<1>. QED  BY <1>2, <1>9

\* Once a recorder has seen everything there is no namespace that has not been entered.
LEMMA AllRecorded ==
  ASSUME NEW text, TextInv(text), NEW ts, NEW so, NEW fr, FrameOK(text, ts, fr), Scoped(text, ts, so, fr),
         Done(text, fr) \/ fr.pass # "record"
  PROVE  \A i \in DOMAIN text : text[i].op = "namespace" => text[i].id \in DOMAIN so
<1>1. ASSUME NEW i \in DOMAIN text, text[i].op = "namespace", text[i].id \notin DOMAIN so
      PROVE  FALSE
  <2>1. fr.pass = "record" /\ i >= fr.at /\ Within(text, fr.first - 1, i)
    BY <1>1 DEF Scoped, Unrecorded
  <2>2. Done(text, fr) /\ i <= fr.at
    BY <1>1, <2>1, DoneIs
  <2>3. i \in Nat /\ fr.at \in Nat
    BY <1>1, FrameFields DEF TextInv
  <2>4. i = fr.at
    BY <2>1, <2>2, <2>3
  <2>. QED  BY <1>1, <2>2, <2>4 DEF Done
<1>. QED  BY <1>1

\* The next pass sets out.
LEMMA ScopedSetsOut ==
  ASSUME NEW text, TextInv(text), NEW ts, NEW so, NEW fr, FrameOK(text, ts, fr), Scoped(text, ts, so, fr),
         Done(text, fr), NEW pass, fr.pass = "expand" => fr.base = <<>>
  PROVE  Scoped(text, ts, so, SetsOut(fr, pass))
<1>1. /\ fr \in FrameSet /\ fr.first \in Nat /\ fr.base \in Seq(Nat) /\ fr.first \in Nat \ {0}
  BY FrameFields DEF Standing
<1>2. PICK f2 : f2 = SetsOut(fr, pass)
  OBVIOUS
<1>3. PICK first, base : first = fr.first /\ base = fr.base
  OBVIOUS
<1>4. PICK none : none = <<>>
  OBVIOUS
<1>5. fr.open = none
  BY <1>4, DoneIs
<1>6. f2.pass = pass /\ f2.first = first /\ f2.at = first /\ f2.base = base /\ f2.scopes = base /\ f2.open = none
  BY <1>1, <1>2, <1>3, <1>5 DEF SetsOut, FrameSet
<1>7. Unrecorded(text, so, f2.pass, f2.first, f2.at)
  BY AllRecorded DEF Unrecorded
<1>8. base # <<>> => Top(text, so, first, base[Len(base)])
  BY <1>3 DEF Scoped
<1>9. text \in Seq(Node) /\ first \in Nat \ {0} /\ base \in Seq(Nat)
  BY <1>1, <1>3 DEF TextInv
<1>10. Follows(text, so, first, first, base, base, none)
  BY <1>4, <1>8, <1>9, FollowsBegins
<1>11. Scoped(text, ts, so, f2)
  BY <1>6, <1>7, <1>8, <1>10 DEF Scoped
<1>. QED  BY <1>2, <1>11

\* The expander goes on behind a copy.
LEMMA ScopedPops ==
  ASSUME NEW text, TextInv(text), NEW ts, NEW so, NEW fr, FrameOK(text, ts, fr), Scoped(text, ts, so, fr),
         Done(text, fr), NEW f2, f2.pass = "expand"
  PROVE  Scoped(text, ts, so, f2)
<1>1. Unrecorded(text, so, f2.pass, f2.first, f2.at)
  BY AllRecorded DEF Unrecorded
<1>. QED  BY <1>1 DEF Scoped

\* The passes over a copy set out.
LEMMA ScopedPushes ==
  ASSUME NEW text, NEW new, NEW a, NEW s, NEW n, NEW fresh, TextInv(text), Inserts(text, new, a, s, n, fresh),
         NEW ts, Shape(ts), Ranked(ts), NEW ts2, Shape(ts2), Ranked(ts2), Grows(ts, ts2), NEW so,
         NEW fr, FrameOK(text, ts, fr), Scoped(text, ts, so, fr), fr.pass = "expand",
         NEW u \in Nat, u = text[a].id
  PROVE  Scoped(new, ts2, so, Behind(a, u))
<1>1. Recorded(text, so) /\ Led(text, ts, so)
  BY DEF Scoped
<1>2. /\ Led(new, ts, so) /\ Recorded(new, so)
  BY <1>1, LedInserted
<1>3. Led(new, ts2, so)
  BY <1>2, LedGrows
<1>4. PICK base, none : base = <<u>> /\ none = <<>>
  OBVIOUS
<1>5. base \in Seq(Nat) /\ Len(base) = 1 /\ base[Len(base)] = u
  BY <1>4
<1>6. PICK f2 : f2 = Behind(a, u)
  OBVIOUS
<1>7. a \in Nat /\ n \in Nat /\ a \in DOMAIN new /\ new[a] = text[a] /\ text[a].op = "expand" /\ new \in Seq(Node)
  <2>1. /\ a \in Nat /\ n \in Nat /\ Len(text) \in Nat /\ a < Len(text) /\ a # 0 /\ DOMAIN new = 1 .. (Len(text) + n)
        /\ (\A i \in 1 .. a : new[i] = text[i]) /\ text[a].op = "expand"
    BY InsertedSizes
  <2>2. new \in Seq(Node)
    BY DEF Inserts
  <2>. QED  BY <2>1, <2>2
<1>8. PICK first \in Nat \ {0} : first = a + 1 /\ first - 1 = a
  BY <1>7
<1>9. /\ f2.pass = "record" /\ f2.first = first /\ f2.at = first /\ f2.base = base /\ f2.scopes = base
      /\ f2.open = none
  BY <1>4, <1>6, <1>8 DEF Behind, NewFrame
<1>10. Top(new, so, first, base[Len(base)])
  BY <1>5, <1>7, <1>8, TopBehind
<1>11. Follows(new, so, first, first, base, base, none)
  BY <1>4, <1>5, <1>7, <1>10, FollowsBegins
<1>12. ASSUME NEW i \in DOMAIN new, new[i].op = "namespace", new[i].id \notin DOMAIN so
       PROVE  i >= first /\ Within(new, first - 1, i)
  <2>1. CASE \E o \in DOMAIN text : i = Moved(a, n, o)
    <3>1. PICK o \in DOMAIN text : i = Moved(a, n, o)
      BY <2>1
    <3>2. new[i] = text[o]
      BY <3>1, InsertedPlaces
    <3>. QED  BY <1>12, <3>2, AllRecorded
  <2>2. CASE \E k \in 1 .. n : i = a + k
    <3>1. PICK k \in 1 .. n : i = a + k
      BY <2>2
    <3>2. k \in 1 .. (n + 1)
      BY <1>7
    <3>3. Within(new, a, a + k)
      BY <3>2, CopyWithin
    <3>. QED  BY <1>7, <1>8, <3>1, <3>3
  <2>3. Sources(text, new, a, n)
    BY InsertedSources
  <2>. QED  BY <2>1, <2>2, <2>3 DEF Sources
<1>13. Unrecorded(new, so, f2.pass, f2.first, f2.at)
  BY <1>9, <1>12 DEF Unrecorded
<1>14. Scoped(new, ts2, so, f2)
  BY <1>2, <1>3, <1>9, <1>10, <1>11, <1>13 DEF Scoped
<1>. QED  BY <1>6, <1>14

----
\* What the passes know of namespaces.

\* The visitor at work, after a move of it.
LEMMA FrameAfter ==
  ASSUME IInv, NEW f2 \in FrameSet, Replaces(frames, f2, frames')
  PROVE  Frame' = f2 /\ Len(frames') = Len(frames)
<1>1. frames \in Seq(FrameSet) /\ frames # <<>>
  BY DEF IInv, Inv, Frames, Chain
<1>2. Len(frames') = Len(frames) /\ frames'[Len(frames')] = f2
  BY <1>1, SeqReplaceLast DEF Replaces
<1>. QED  BY <1>2 DEF Frame

\* The visitor moves.
LEMMA NInvMoves ==
  ASSUME IInv, NInv, verdict = "running", UNCHANGED verdict, NEW f2 \in FrameSet, Replaces(frames, f2, frames'),
         f2.pass = Frame.pass, Scoped(code', tables', scopeOf', f2),
         Frame.pass = "record" => OnlyNamespaces(tables, tables')
  PROVE  NInv'
<1>1. Frame' = f2 /\ Len(frames') = Len(frames)
  BY FrameAfter
<1>2. Scoped(code, tables, scopeOf, Frame)'
  BY <1>1
<1>3. ASSUME Len(frames') = 1, f2.pass = "record", NEW t \in DOMAIN tables' \ {World}, NEW s \in tables'[t].symbols
      PROVE  s.is = "namespace"
  <2>1. (t \in DOMAIN tables /\ s \in tables[t].symbols) \/ s.is = "namespace"
    BY <1>3 DEF OnlyNamespaces
  <2>. QED  BY <1>1, <1>3, <2>1 DEF NInv, Plain
<1>4. Plain(tables, Len(frames), Frame)'
  BY <1>1, <1>3 DEF Plain
<1>5. AssertedInCopyOnly'
  BY DEF AssertedInCopyOnly
<1>. QED  BY <1>2, <1>4, <1>5 DEF NInv

\* Where nothing is entered, nothing but namespaces is.
LEMMA SameOnly ==
  ASSUME NEW ts
  PROVE  OnlyNamespaces(ts, ts)
BY DEF OnlyNamespaces

\* A leaf is passed.
LEMMA ScopedSteps ==
  ASSUME IInv, NInv, NEW passes, NEW ops, Visiting(passes, ops), Here.op \in Leaf, Step,
         Grown(code, tables, tables'), Frame.pass = "record" => tables' = tables, UNCHANGED <<code, scopeOf, verdict>>
  PROVE  NInv'
<1>1. /\ Frame.at \in DOMAIN code /\ Here = code[Frame.at] /\ Frame.at \in Nat /\ TextInv(code)
      /\ TableInv(code, tables) /\ FrameOK(code, tables, Frame) /\ verdict = "running"
  BY AtWork DEF Visiting
<1>2. PICK fr, c : fr = Frame /\ c = fr.at + 1
  OBVIOUS
<1>3. PICK so : so = scopeOf
  OBVIOUS
<1>4. Jump(code, fr.at, c) /\ code \in Seq(Node) /\ code[fr.at].op # "namespace"
  <2>1. code \in Seq(Node) /\ code[fr.at].op \in Leaf /\ fr.at \in DOMAIN code
    BY <1>1, <1>2 DEF TextInv
  <2>. QED  BY <1>2, <2>1, LeafJump DEF Leaf
<1>5. Scoped(code, tables, so, fr)
  BY <1>2, <1>3 DEF NInv
<1>6. PICK f2 : f2 = GoneTo(fr, c)
  OBVIOUS
<1>7. Scoped(code, tables', so, f2)
  BY <1>1, <1>2, <1>4, <1>5, <1>6, ScopedGoes
<1>8. f2 \in FrameSet /\ f2.pass = Frame.pass
  <2>1. fr \in FrameSet /\ c \in Nat
    BY <1>1, <1>2, FrameFields
  <2>. QED  BY <1>2, <1>6, <2>1 DEF GoneTo, FrameSet
<1>9. Replaces(frames, f2, frames')
  BY <1>2, <1>6 DEF Step, GoTo, Replaces, GoneTo, Frame
<1>10. Frame.pass = "record" => OnlyNamespaces(tables, tables')
  BY SameOnly
<1>11. Scoped(code', tables', scopeOf', f2)
  BY <1>3, <1>7
<1>. QED  BY <1>1, <1>8, <1>9, <1>10, <1>11, NInvMoves

\* A node is passed with all that is in it.
LEMMA ScopedSkips ==
  ASSUME IInv, NInv, NEW passes, NEW ops, Visiting(passes, ops), Here.op \in Opener, SkipChildren,
         Frame.pass # "record", Grown(code, tables, tables'), UNCHANGED <<code, scopeOf, verdict>>
  PROVE  NInv'
<1>1. /\ Frame.at \in DOMAIN code /\ Here = code[Frame.at] /\ Frame.at \in Nat /\ TextInv(code)
      /\ TableInv(code, tables) /\ FrameOK(code, tables, Frame) /\ verdict = "running"
  BY AtWork DEF Visiting
<1>2. PICK fr, c : fr = Frame /\ c = EndOf(code, fr.at) + 1
  OBVIOUS
<1>3. PICK so : so = scopeOf
  OBVIOUS
<1>4. Jump(code, fr.at, c) /\ code \in Seq(Node) /\ c \in Nat
  <2>1. code \in Seq(Node) /\ code[fr.at].op \in Opener /\ fr.at \in DOMAIN code
    BY <1>1, <1>2 DEF TextInv
  <2>2. EndOf(code, fr.at) \in (fr.at + 1) .. Len(code) /\ Jump(code, fr.at, c)
    BY <1>1, <1>2, <2>1, EndOfIs
  <2>. QED  BY <1>1, <1>2, <2>1, <2>2
<1>5. Scoped(code, tables, so, fr)
  BY <1>2, <1>3 DEF NInv
<1>6. PICK f2 : f2 = GoneTo(fr, c)
  OBVIOUS
<1>7. Scoped(code, tables', so, f2)
  BY <1>1, <1>2, <1>4, <1>5, <1>6, ScopedGoes
<1>8. f2 \in FrameSet /\ f2.pass = Frame.pass
  <2>1. fr \in FrameSet /\ c \in Nat
    BY <1>1, <1>2, <1>4, FrameFields
  <2>. QED  BY <1>2, <1>6, <2>1 DEF GoneTo, FrameSet
<1>9. Replaces(frames, f2, frames')
  BY <1>2, <1>6 DEF SkipChildren, GoTo, Replaces, GoneTo, Frame
<1>10. Scoped(code', tables', scopeOf', f2)
  BY <1>3, <1>7
<1>. QED  BY <1>1, <1>8, <1>9, <1>10, NInvMoves

\* A node is entered.
LEMMA ScopedEntersOn ==
  ASSUME IInv, NInv, NEW passes, NEW ops, Visiting(passes, ops), Here.op \in Opener, NEW p \in Seq(Nat), Enter(p),
         UNCHANGED <<code, verdict>>, Agrees(scopeOf, scopeOf'), Recorded(code, scopeOf'),
         Led(code, tables', scopeOf'), Here.op = "namespace" => Here.id \in DOMAIN scopeOf',
         Frame.pass # "expand" => IF Here.op = "template" THEN p = <<>>
                                  ELSE p # <<>> /\ StandsFor(code, scopeOf', Frame.at, p[Len(p)]),
         Frame.pass = "record" => OnlyNamespaces(tables, tables')
  PROVE  NInv'
<1>1. /\ Frame.at \in DOMAIN code /\ Here = code[Frame.at] /\ Frame.at \in Nat /\ TextInv(code)
      /\ TableInv(code, tables) /\ FrameOK(code, tables, Frame) /\ verdict = "running" /\ code \in Seq(Node)
  BY AtWork DEF Visiting, TextInv
<1>2. PICK fr, so, so2, ts2 : fr = Frame /\ so = scopeOf /\ so2 = scopeOf' /\ ts2 = tables'
  OBVIOUS
<1>3. Scoped(code, tables, so, fr)
  BY <1>2 DEF NInv
<1>4. PICK f2 : f2 = Entering(fr, p)
  OBVIOUS
<1>5. /\ fr.at \in DOMAIN code /\ code[fr.at].op \in Opener /\ FrameOK(code, tables, fr)
      /\ code[fr.at].op = "namespace" => code[fr.at].id \in DOMAIN so2
      /\ fr.pass # "expand" => IF code[fr.at].op = "template" THEN p = <<>>
                               ELSE p # <<>> /\ StandsFor(code, so2, fr.at, p[Len(p)])
  BY <1>1, <1>2
<1>6. Agrees(so, so2) /\ Recorded(code, so2) /\ Led(code, ts2, so2)
  BY <1>2
<1>7. Scoped(code, ts2, so2, f2)
  BY <1>1, <1>3, <1>4, <1>5, <1>6, ScopedEnters
<1>8. f2 \in FrameSet /\ f2.pass = Frame.pass
  <2>1. fr \in FrameSet /\ fr.at \in Nat /\ fr.scopes \in Seq(Nat) /\ fr.open \in Seq(Nat) /\ Len(p) \in Nat
    BY <1>1, <1>2, FrameFields, LenProperties
  <2>2. fr.at + 1 \in Nat /\ fr.scopes \o p \in Seq(Nat) /\ Append(fr.open, Len(p)) \in Seq(Nat)
    BY <2>1
  <2>. QED  BY <1>2, <1>4, <2>1, <2>2 DEF Entering, FrameSet
<1>9. Replaces(frames, f2, frames')
  <2>1. Entering(Frame, p) = [Frame EXCEPT !.at = Frame.at + 1, !.scopes = Frame.scopes \o p,
                                           !.open = Append(Frame.open, Len(p))]
    BY Zenon DEF Entering
  <2>2. frames' = [frames EXCEPT ![Len(frames)] = Entering(Frame, p)]
    BY <2>1, Zenon DEF Enter
  <2>. QED  BY <1>2, <1>4, <2>2 DEF Replaces
<1>10. Scoped(code', tables', scopeOf', f2)
  BY <1>2, <1>7
<1>. QED  BY <1>1, <1>8, <1>9, <1>10, NInvMoves

\* A node with a table of its own is entered.
LEMMA ScopedEntersOwn ==
  ASSUME IInv, NInv, NEW passes, NEW ops, Visiting(passes, ops), Here.op \in OwnsTable, Enter(<<Here.id>>),
         Grown(code, tables, tables'), Frame.pass = "record" => tables' = tables, UNCHANGED <<code, scopeOf, verdict>>
  PROVE  NInv'
<1>1. /\ Frame.at \in DOMAIN code /\ Here = code[Frame.at] /\ Here \in Node /\ TableInv(code, tables)
  BY AtWork
<1>2. PICK u \in Nat : u = Here.id
  BY <1>1, NodeFields
<1>3. PICK p : p = <<u>>
  OBVIOUS
<1>4. p \in Seq(Nat) /\ p # <<>> /\ p[Len(p)] = u
  BY <1>3
<1>5. Here.op \in Opener /\ Here.op # "template" /\ Here.op # "namespace"
  BY DEF OwnsTable, Opener
<1>6. PICK so, ts2 : so = scopeOf /\ ts2 = tables'
  OBVIOUS
<1>7. Recorded(code, so) /\ Led(code, tables, so)
  BY <1>6 DEF NInv, Scoped
<1>8. Led(code, ts2, so)
  BY <1>1, <1>6, <1>7, LedGrows DEF Grown, TableInv
<1>9. Agrees(so, so) /\ scopeOf' = so
  BY <1>6 DEF Agrees
<1>10. StandsFor(code, scopeOf', Frame.at, p[Len(p)])
  BY <1>1, <1>2, <1>4, <1>5 DEF StandsFor
<1>11. Enter(p) /\ (Frame.pass = "record" => OnlyNamespaces(tables, tables'))
  BY <1>2, <1>3, SameOnly
<1>12. Agrees(scopeOf, scopeOf') /\ Recorded(code, scopeOf') /\ Led(code, tables', scopeOf')
  BY <1>6, <1>7, <1>8, <1>9
<1>. QED  BY <1>4, <1>5, <1>10, <1>11, <1>12, ScopedEntersOn

\* A node is entered without a table.
LEMMA ScopedEntersBare ==
  ASSUME IInv, NInv, NEW passes, NEW ops, Visiting(passes, ops), Here.op \in Opener, Enter(<<>>),
         Here.op = "template" \/ Frame.pass = "expand", UNCHANGED <<code, tables, scopeOf, verdict>>
  PROVE  NInv'
<1>1. /\ Frame.at \in DOMAIN code /\ Here = code[Frame.at] /\ FrameOK(code, tables, Frame) /\ TextInv(code)
  BY AtWork
<1>2. PICK p : p = <<>>
  OBVIOUS
<1>3. p \in Seq(Nat) /\ Enter(p)
  BY <1>2
<1>4. PICK so : so = scopeOf
  OBVIOUS
<1>5. Scoped(code, tables, so, Frame)
  BY <1>4 DEF NInv
<1>6. Recorded(code, so) /\ Led(code, tables, so) /\ Agrees(so, so)
  BY <1>5 DEF Scoped, Agrees
<1>7. Here.op = "namespace" => Here.id \in DOMAIN so
  <2>1. ASSUME Here.op = "namespace"
        PROVE  Here.id \in DOMAIN so
    <3>1. Frame.pass = "expand"
      BY <2>1
    <3>2. Done(code, Frame) \/ Frame.pass # "record"
      BY <3>1
    <3>3. \A i \in DOMAIN code : code[i].op = "namespace" => code[i].id \in DOMAIN so
      BY <1>1, <1>5, <3>2, AllRecorded
    <3>. QED  BY <1>1, <2>1, <3>3
  <2>. QED  BY <2>1
<1>8. Frame.pass = "record" => OnlyNamespaces(tables, tables')
  BY SameOnly
<1>9. Agrees(scopeOf, scopeOf') /\ Recorded(code, scopeOf') /\ Led(code, tables', scopeOf')
  BY <1>4, <1>6
<1>10. /\ Here.op = "namespace" => Here.id \in DOMAIN scopeOf'
       /\ Frame.pass # "expand" => IF Here.op = "template" THEN p = <<>>
                                   ELSE p # <<>> /\ StandsFor(code, scopeOf', Frame.at, p[Len(p)])
  BY <1>2, <1>4, <1>7
<1>. QED  BY <1>3, <1>8, <1>9, <1>10, ScopedEntersOn

\* The actions that pass a leaf.
LEMMA LeavesScoped ==
  ASSUME IInv, NInv, SkipLeaf \/ DefineVariable \/ ResolveVariableType \/ ResolveUse
  PROVE  NInv'
<1>1. PICK passes, ops : Visiting(passes, ops) /\ ops \subseteq Leaf
  BY DEF SkipLeaf, DefineVariable, ResolveVariableType, ResolveUse, Leaf
<1>2. Step /\ UNCHANGED <<code, tables, scopeOf, verdict>>
  BY DEF SkipLeaf, DefineVariable, ResolveVariableType, ResolveUse
<1>3. Here.op \in Leaf /\ TableInv(code, tables)
  BY <1>1, AtWork
<1>4. Grown(code, tables, tables')
  BY <1>2, <1>3, SameGrown
<1>. QED  BY <1>1, <1>2, <1>3, <1>4, ScopedSteps

\* A variable or a class is declared.
LEMMA DeclareVariableOrClassScoped ==
  ASSUME IInv, NInv, DeclareVariableOrClass
  PROVE  NInv'
<1>. DEFINE passes == {"populate"}
            ops == {"var", "class"}
            is == IF Here.op = "var" THEN "variable" ELSE "class"
            arg == IF is = "variable" THEN 1 ELSE 0
<1>1. /\ Visiting(passes, ops) /\ DeclareIn(CurrentScope, Symbol(Here.name[1], is, Here.id, arg))
      /\ Step /\ UNCHANGED <<code, scopeOf, verdict>>
  BY DEF DeclareVariableOrClass
<1>2. Here.op \in ops /\ Frame.pass \in passes
  BY <1>1, AtWork
<1>3. Here.op \in Leaf /\ "expand" \notin passes /\ Here.op \notin {"module", "end"} /\ Frame.pass # "record"
  BY <1>2 DEF Leaf
<1>4. is \in SymbolKinds \ {"namespace", "type"} /\ is # "template"
  BY DEF SymbolKinds
<1>. HIDE DEF passes, ops, is, arg
<1>5. PICK n : n = Here.name[1]
  OBVIOUS
<1>6. Grown(code, tables, tables')
  BY <1>1, <1>3, <1>4, <1>5, DeclaredHere
<1>. QED  BY <1>1, <1>3, <1>6, ScopedSteps

\* The actions that pass a node with what is in it.
LEMMA SkipsScoped ==
  ASSUME IInv, NInv, SkipTemplate \/ ExpandRefused
  PROVE  NInv'
<1>1. PICK passes, ops : Visiting(passes, ops) /\ ops \subseteq Opener /\ "record" \notin passes
  BY DEF SkipTemplate, ExpandRefused, Expanding, Opener
<1>2. SkipChildren /\ UNCHANGED <<code, tables, scopeOf, verdict>>
  BY DEF SkipTemplate, ExpandRefused
<1>3. Here.op \in Opener /\ TableInv(code, tables) /\ Frame.pass # "record"
  BY <1>1, AtWork
<1>4. Grown(code, tables, tables')
  BY <1>2, <1>3, SameGrown
<1>. QED  BY <1>1, <1>2, <1>3, <1>4, ScopedSkips

\* A template is declared.
LEMMA DeclareTemplateScoped ==
  ASSUME IInv, NInv, DeclareTemplate
  PROVE  NInv'
<1>. DEFINE passes == {"populate"}
            ops == {"template"}
<1>1. /\ Visiting(passes, ops) /\ DeclareIn(CurrentScope, Symbol(Here.name[1], "template", Here.id, 0))
      /\ SkipChildren /\ UNCHANGED <<code, scopeOf, verdict>>
  BY DEF DeclareTemplate
<1>2. Here.op \in ops /\ Frame.pass \in passes
  BY <1>1, AtWork
<1>3. /\ Here.op = "template" /\ Here.op \in Opener /\ "expand" \notin passes /\ Here.op \notin {"module", "end"}
      /\ Frame.pass # "record"
  BY <1>2 DEF Opener
<1>. HIDE DEF passes, ops
<1>4. PICK n : n = Here.name[1]
  OBVIOUS
<1>5. "template" \in SymbolKinds \ {"namespace", "type"}
  BY DEF SymbolKinds
<1>6. Grown(code, tables, tables')
  BY <1>1, <1>3, <1>4, <1>5, DeclaredHere
<1>. QED  BY <1>1, <1>3, <1>6, ScopedSkips

\* The actions that enter a node with a table of its own and may hang it up.
LEMMA HangsScoped ==
  ASSUME IInv, NInv, EnterBlock \/ EnterFunction \/ EnterExpansion
  PROVE  NInv'
<1>1. PICK passes, ops : Visiting(passes, ops) /\ ops \subseteq OwnsTable /\ "expand" \notin passes
                         /\ (~EnterBlock => "module" \notin ops)
  BY DEF EnterBlock, EnterFunction, EnterExpansion, OwnsTable, FollowScopes
<1>2. Enter(<<Here.id>>) /\ UNCHANGED <<code, scopeOf, verdict>>
  BY DEF EnterBlock, EnterFunction, EnterExpansion
<1>3. Here.op \in OwnsTable /\ (~EnterBlock => Here.op # "module")
  BY <1>1, AtWork
<1>4. tables' = IF Frame.pass = "parents" THEN WithParent(Here.id, IF Here.op = "module" THEN World ELSE TopScope)
                                          ELSE tables
  <2>1. CASE EnterBlock
    BY <2>1 DEF EnterBlock
  <2>2. CASE ~EnterBlock
    <3>1. tables' = IF Frame.pass = "parents" THEN WithParent(Here.id, TopScope) ELSE tables
      BY <2>2 DEF EnterFunction, EnterExpansion
    <3>2. Here.op # "module"
      BY <1>3, <2>2
    <3>. QED  BY <3>1, <3>2
  <2>. QED  BY <2>1, <2>2
<1>5. Grown(code, tables, tables')
  BY <1>1, <1>3, <1>4, ParentsGiven
<1>6. Frame.pass = "record" => tables' = tables
  BY <1>4
<1>. QED  BY <1>1, <1>2, <1>3, <1>5, <1>6, ScopedEntersOwn

\* A function is entered with its parameters declared, or their types looked up.
LEMMA FunctionsScoped ==
  ASSUME IInv, NInv, DeclareFunction \/ ResolveParameters
  PROVE  NInv'
<1>1. PICK passes, ops : Visiting(passes, ops) /\ ops \subseteq OwnsTable /\ "record" \notin passes
  BY DEF DeclareFunction, ResolveParameters, OwnsTable
<1>2. Enter(<<Here.id>>) /\ UNCHANGED <<code, scopeOf, verdict>>
  BY DEF DeclareFunction, ResolveParameters
<1>3. Here.op \in OwnsTable /\ Frame.pass # "record" /\ TableInv(code, tables)
  BY <1>1, AtWork
<1>4. Grown(code, tables, tables')
  <2>1. CASE DeclareFunction
    BY <2>1, FunctionDeclared
  <2>2. CASE ResolveParameters
    <3>1. tables' = tables
      BY <2>2 DEF ResolveParameters
    <3>. QED  BY <1>3, <3>1, SameGrown
  <2>. QED  BY <2>1, <2>2
<1>. QED  BY <1>1, <1>2, <1>3, <1>4, ScopedEntersOwn

\* The actions that enter a node without a table.
LEMMA BareScoped ==
  ASSUME IInv, NInv, RecordTemplate \/ WalkInto
  PROVE  NInv'
<1>1. PICK passes, ops : Visiting(passes, ops) /\ ops \subseteq Opener
                         /\ (ops \subseteq {"template"} \/ passes \subseteq {"expand"})
  BY DEF RecordTemplate, WalkInto, Opener
<1>2. Enter(<<>>) /\ UNCHANGED <<code, tables, scopeOf, verdict>>
  BY DEF RecordTemplate, WalkInto
<1>3. Here.op \in Opener /\ (Here.op = "template" \/ Frame.pass = "expand")
  BY <1>1, AtWork
<1>. QED  BY <1>1, <1>2, <1>3, ScopedEntersBare

\* A node is left.
LEMMA LeaveScopeScoped ==
  ASSUME IInv, NInv, LeaveScope
  PROVE  NInv'
<1>1. /\ ~Walked /\ Here.op = "end" /\ UNCHANGED <<code, tables, scopeOf, verdict>> /\ verdict = "running"
      /\ Frame.at \in DOMAIN code /\ Here = code[Frame.at] /\ Frame.open # <<>>
  BY DEF LeaveScope, Walked, Here
<1>2. PICK fr : fr = frames[Len(frames)]
  OBVIOUS
<1>3. fr = Frame
  BY <1>2 DEF Frame
<1>4. TextInv(code) /\ code \in Seq(Node) /\ FrameOK(code, tables, fr) /\ fr \in FrameSet
  BY <1>2, InvFrame DEF IInv
<1>5. PICK so, f2 : so = scopeOf /\ f2 = Leaving(fr)
  OBVIOUS
<1>6. Scoped(code, tables, so, fr) /\ fr.at \in DOMAIN code /\ code[fr.at].op = "end" /\ fr.open # <<>>
  BY <1>1, <1>3, <1>5 DEF NInv
<1>7. Scoped(code, tables, so, f2)
  BY <1>4, <1>5, <1>6, ScopedLeaves
<1>8. FrameOK(code, tables, f2) /\ f2 \in FrameSet
  <2>1. FrameOK(code, tables, f2)
    BY <1>4, <1>5, <1>6, FrameLeaves
  <2>. QED  BY <2>1, FrameFields
<1>9. f2.pass = Frame.pass
  BY <1>3, <1>4, <1>5 DEF Leaving, FrameSet
<1>10. Leaving(Frame) = [Frame EXCEPT !.at = Frame.at + 1,
                                      !.open = SubSeq(Frame.open, 1, Len(Frame.open) - 1),
                                      !.scopes = SubSeq(Frame.scopes, 1, Len(Frame.scopes) - Frame.open[Len(Frame.open)])]
  BY Zenon DEF Leaving
<1>11. frames' = [frames EXCEPT ![Len(frames)] = Leaving(Frame)]
  BY <1>10, Zenon DEF LeaveScope
<1>12. Replaces(frames, f2, frames')
  BY <1>3, <1>5, <1>11 DEF Replaces
<1>13. Scoped(code', tables', scopeOf', f2) /\ OnlyNamespaces(tables, tables')
  BY <1>1, <1>5, <1>7, SameOnly
<1>. QED  BY <1>1, <1>8, <1>9, <1>12, <1>13, NInvMoves

\* The next pass sets out.
LEMMA EndPassScoped ==
  ASSUME IInv, NInv, EndPass
  PROVE  NInv'
<1>1. /\ Walked /\ Frame.pass # LastPass /\ UNCHANGED <<code, tables, scopeOf, verdict>> /\ verdict = "running"
  BY DEF EndPass
<1>2. PICK fr : fr = frames[Len(frames)]
  OBVIOUS
<1>3. fr = Frame
  BY <1>2 DEF Frame
<1>4. Done(code, fr)
  BY <1>1, <1>3, WalkedDone
<1>5. Frames(code, tables, frames) /\ TextInv(code) /\ Shape(tables)
  BY DEF IInv, Inv, TableInv
<1>6. /\ FrameOK(code, tables, fr) /\ fr \in FrameSet /\ fr.pass \in Passes
      /\ Len(frames) \in Nat \ {0} /\ (Len(frames) = 1 => fr.base = <<>>)
      /\ Len(frames) > 1 => fr.pass \notin {"types", "symbols"}
  BY <1>2, <1>5, LastFrame, FrameFields
<1>7. fr.pass # "symbols" /\ (fr.pass = "expand" => Len(frames) = 1)
  <2>1. fr.pass # LastPass
    BY <1>1, <1>3
  <2>2. CASE Len(frames) > 1
    BY <1>6, <2>1, <2>2 DEF LastPass
  <2>3. CASE ~(Len(frames) > 1)
    <3>1. PICK l \in Nat \ {0} : l = Len(frames)
      BY <1>6
    <3>2. ~(l > 1)
      BY <2>3, <3>1
    <3>3. l = 1
      BY <3>2
    <3>. QED  BY <2>1, <2>3, <3>1, <3>3 DEF LastPass
  <2>. QED  BY <2>2, <2>3
<1>8. PICK pass \in Passes : pass = NextPass[fr.pass] /\ pass # "record"
  BY <1>6, <1>7 DEF NextPass, Passes
<1>9. PICK so, f2 : so = scopeOf /\ f2 = SetsOut(fr, pass)
  OBVIOUS
<1>10. Scoped(code, tables, so, fr) /\ (fr.pass = "expand" => fr.base = <<>>)
  BY <1>3, <1>6, <1>7, <1>9 DEF NInv
<1>11. Scoped(code, tables, so, f2)
  BY <1>4, <1>5, <1>6, <1>9, <1>10, ScopedSetsOut
<1>12. f2 \in FrameSet /\ f2.pass # "record"
  <2>1. fr.first \in Nat /\ fr.base \in Seq(Nat)
    BY <1>6, FrameFields
  <2>. QED  BY <1>6, <1>8, <1>9, <2>1 DEF SetsOut, FrameSet
<1>13. Replaces(frames, f2, frames')
  <2>1. SetsOut(Frame, NextPass[Frame.pass]) =
          [Frame EXCEPT !.pass = NextPass[Frame.pass], !.at = Frame.first, !.scopes = Frame.base]
    BY Zenon DEF SetsOut
  <2>2. frames' = [frames EXCEPT ![Len(frames)] = SetsOut(Frame, NextPass[Frame.pass])]
    BY <2>1, Zenon DEF EndPass
  <2>. QED  BY <1>3, <1>8, <1>9, <2>2 DEF Replaces
<1>14. Frame' = f2
  BY <1>12, <1>13, FrameAfter
<1>15. Scoped(code, tables, scopeOf, Frame)' /\ Plain(tables, Len(frames), Frame)' /\ AssertedInCopyOnly'
  BY <1>1, <1>9, <1>11, <1>12, <1>14 DEF Plain, AssertedInCopyOnly
<1>. QED  BY <1>15 DEF NInv

\* The expander goes on behind a copy.
LEMMA EndExpansionScoped ==
  ASSUME IInv, NInv, EndExpansion
  PROVE  NInv'
<1>1. Walked /\ Len(frames) > 1 /\ UNCHANGED <<code, tables, scopeOf, verdict>> /\ verdict = "running"
  BY DEF EndExpansion, PassesOver
<1>2. PICK fr : fr = frames[Len(frames)]
  OBVIOUS
<1>3. fr = Frame
  BY <1>2 DEF Frame
<1>4. Done(code, fr)
  BY <1>1, <1>3, WalkedDone
<1>5. Frames(code, tables, frames) /\ TextInv(code) /\ Owned(code, tables)
  BY DEF IInv, Inv, TableInv
<1>6. FrameOK(code, tables, fr)
  BY <1>2, <1>5, LastFrame
<1>7. Pops(frames, frames')
  BY Zenon DEF EndExpansion, Pops, Frame
<1>8. frames'[Len(frames')].pass = "expand"
  <2>1. Done(code, frames[Len(frames)])
    BY <1>2, <1>4
  <2>2. PICK frs, frs2 : frs = frames /\ frs2 = frames'
    OBVIOUS
  <2>3. Frames(code, tables, frs) /\ Len(frs) > 1 /\ Done(code, frs[Len(frs)]) /\ Pops(frs, frs2)
    BY <1>1, <1>5, <1>7, <2>1, <2>2
  <2>4. frs2[Len(frs2)].pass = "expand"
    BY <1>5, <2>3, FramesPopped
  <2>. QED  BY <2>2, <2>4
<1>9. PICK so, f2 : so = scopeOf /\ f2 = Frame'
  OBVIOUS
<1>10. f2.pass = "expand"
  BY <1>8, <1>9 DEF Frame
<1>11. Scoped(code, tables, so, fr)
  BY <1>3, <1>9 DEF NInv
<1>12. Scoped(code, tables, so, f2)
  BY <1>4, <1>5, <1>6, <1>10, <1>11, ScopedPops
<1>13. Scoped(code, tables, scopeOf, Frame)' /\ Plain(tables, Len(frames), Frame)' /\ AssertedInCopyOnly'
  BY <1>1, <1>9, <1>10, <1>12 DEF Plain, AssertedInCopyOnly
<1>. QED  BY <1>13 DEF NInv

\* A template is expanded.
LEMMA ExpandScoped ==
  ASSUME IInv, NInv, Expand
  PROVE  NInv'
<1>1. Visiting({"expand"}, {"expand"}) /\ UNCHANGED <<scopeOf, verdict>>
  BY ExpandIs
<1>2. /\ Here = code[Frame.at] /\ Frame.pass = "expand" /\ TextInv(code) /\ TableInv(code, tables) /\ Here \in Node
      /\ FrameOK(code, tables, Frame) /\ verdict = "running"
  BY <1>1, ExpandingHere, AtWork DEF Visiting
<1>3. PICK s, n, fresh, params, k, d : Inserted(s, n, fresh, params, k, d)
  BY CopyInserted
<1>4. PICK a, new : a = Frame.at /\ new = code'
  OBVIOUS
<1>5. PICK u \in Nat : u = Here.id
  BY <1>2, NodeFields
<1>6. PICK fr, so, ts2 : fr = Frame /\ so = scopeOf /\ ts2 = tables'
  OBVIOUS
<1>7. /\ Inserts(code, new, a, s, n, fresh) /\ tables[u].parent # NoTable /\ \A t \in DOMAIN tables : t <= fresh
      /\ Filled(code, tables, u, params, k, d) /\ Copies(code, s, n, fresh, tables, d, ts2)
      /\ Pushes(frames, a, u, frames')
  BY <1>3, <1>4, <1>5, <1>6 DEF Inserted
<1>8. Grows(tables, ts2)
  <2>1. Grows(tables, d)
    BY <1>7 DEF Filled
  <2>2. /\ \A t \in DOMAIN tables : t \in DOMAIN ts2 /\ ts2[t] = d[t]
    BY <1>7 DEF Copies
  <2>. QED  BY <2>1, <2>2 DEF Grows
<1>9. IInv'
  BY ExpandKeeps
<1>10. Shape(tables) /\ Ranked(tables) /\ Shape(ts2) /\ Ranked(ts2)
  <2>1. TableInv(code, tables)'
    BY <1>9 DEF IInv, Inv
  <2>. QED  BY <1>2, <1>6, <2>1 DEF TableInv
<1>11. FrameOK(code, tables, fr) /\ Scoped(code, tables, so, fr) /\ fr.pass = "expand" /\ u = code[a].id
  BY <1>2, <1>4, <1>5, <1>6 DEF NInv
<1>12. Scoped(new, ts2, so, Behind(a, u))
  BY <1>2, <1>7, <1>8, <1>10, <1>11, ScopedPushes
<1>13. Frame' = Behind(a, u) /\ Len(frames') # 1
  <2>1. PICK f2 : f2 = Behind(a, u)
    OBVIOUS
  <2>2. frames \in Seq(FrameSet) /\ frames # <<>>
    BY DEF IInv, Inv, Frames, Chain
  <2>3. frames' = Append(frames, f2)
    BY <1>7, <2>1 DEF Pushes
  <2>4. f2 \in {f2} \union FrameSet /\ frames \in Seq({f2} \union FrameSet)
    BY <2>2
  <2>5. Len(frames') = Len(frames) + 1 /\ frames'[Len(frames')] = f2 /\ Len(frames) \in Nat \ {0}
    <3>1. Len(frames) \in Nat \ {0}
      BY <2>2, EmptySeq, LenProperties
    <3>. QED  BY <2>3, <2>4, <3>1, SeqPush
  <2>. QED  BY <2>1, <2>5 DEF Frame
<1>14. Scoped(code, tables, scopeOf, Frame)' /\ Plain(tables, Len(frames), Frame)' /\ AssertedInCopyOnly'
  BY <1>1, <1>2, <1>4, <1>6, <1>12, <1>13 DEF Plain, AssertedInCopyOnly
<1>. QED  BY <1>14 DEF NInv

\* The way into a namespace that has been entered before is the one taken then.
LEMMA WayAgain ==
  ASSUME NEW text, NEW ts, NEW x \in DOMAIN ts, NEW scope, scope = OutsideExpansions(ts, x), NEW names, NEW y,
         Leading(ts, x, names, y), NEW n \in Nat, n = Len(names),
         NEW fresh, NEW d, Descent(text, ts, scope, names, fresh, d, n)
  PROVE  d.found /\ d.path[Len(d.path)] = y
<1>1. PICK path \in Seq(DOMAIN ts) : /\ Len(path) = n + 1 /\ path[1] = scope /\ path[Len(path)] = y
                                     /\ WayDown(ts, path, names)
  BY DEF Leading
<1>2. PICK ts2, q : ts2 = d.tables /\ q = d.path
  OBVIOUS
<1>3. /\ TableInv(text, ts2) /\ Keeps(ts, ts2) /\ q \in Seq(Nat) /\ q # <<>> /\ Len(q) <= n + 1 /\ q[1] = scope
      /\ d.found => Len(q) = n + 1
      /\ ~d.found => /\ Len(q) <= n
                     /\ \E s \in ts2[q[Len(q)]].symbols : s.name = names[Len(q)] /\ s.is # "namespace"
      /\ \A k \in DOMAIN q : q[k] \in DOMAIN ts2
      /\ WayDown(ts2, q, names) /\ d.found \in BOOLEAN
  BY <1>2 DEF Descent
<1>4. Entries(text, ts2) /\ Grows(ts, ts2)
  BY <1>3 DEF TableInv, Keeps
<1>5. path \in Seq(DOMAIN ts2) /\ WayDown(ts2, path, names)
  BY <1>1, <1>4, WayGrows
<1>6. PICK l \in Nat \ {0}, m \in Nat \ {0} :
        l = Len(q) /\ m = Len(path) /\ m = n + 1 /\ DOMAIN q = 1 .. l /\ DOMAIN path = 1 .. m
  <2>1. q \in Seq(Nat) /\ q # <<>>
    BY <1>3
  <2>2. Len(q) \in Nat \ {0} /\ DOMAIN q = 1 .. Len(q)
    BY <2>1, EmptySeq, LenProperties
  <2>3. Len(path) = n + 1 /\ n + 1 \in Nat \ {0} /\ DOMAIN path = 1 .. Len(path)
    BY <1>1, LenProperties
  <2>. QED  BY <2>2, <2>3
<1>7. q \in Seq(DOMAIN ts2) /\ q # <<>> /\ path # <<>>
  <2>1. DOMAIN q = 1 .. Len(q) /\ \A k \in DOMAIN q : q[k] \in DOMAIN ts2
    BY <1>3, <1>6
  <2>2. q \in Seq(Nat) /\ q # <<>>
    BY <1>3
  <2>3. q \in Seq(DOMAIN ts2)
    BY <2>1, <2>2
  <2>4. path # <<>>
    <3>1. 1 \in DOMAIN path
      BY <1>6
    <3>. QED  BY <3>1
  <2>. QED  BY <2>2, <2>3, <2>4
<1>8. \A k \in DOMAIN path \cap DOMAIN q : path[k] = q[k]
  <2>1. Entries(text, ts2)
    BY <1>4
  <2>2. WayDown(ts2, path, names) /\ WayDown(ts2, q, names) /\ path \in Seq(DOMAIN ts2) /\ q \in Seq(DOMAIN ts2)
    BY <1>3, <1>5, <1>7
  <2>3. path # <<>> /\ q # <<>> /\ path[1] = q[1]
    BY <1>1, <1>3, <1>7
  <2>. QED  BY <2>1, <2>2, <2>3, OneWay
<1>9. (d.found => l = m) /\ (~d.found => l <= m - 1)
  BY <1>3, <1>6
<1>10. d.found
  <2>1. ASSUME ~d.found
        PROVE  FALSE
    <3>1. PICK s \in ts2[q[l]].symbols : s.name = names[l] /\ s.is # "namespace"
      BY <1>3, <1>6, <2>1
    <3>2. l \in 1 .. (Len(path) - 1) /\ l \in DOMAIN path \cap DOMAIN q
      <4>1. l <= m - 1 /\ l >= 1 /\ l <= m
        BY <1>9, <2>1
      <4>. QED  BY <1>6, <4>1
    <3>3. PICK r \in ts2[path[l]].symbols : r.name = names[l] /\ r.is = "namespace"
      BY <1>5, <3>2 DEF WayDown
    <3>4. path[l] = q[l] /\ q[l] \in DOMAIN ts2
      BY <1>3, <1>8, <3>2
    <3>5. s = r
      BY <1>4, <3>1, <3>3, <3>4 DEF Entries
    <3>. QED  BY <3>1, <3>3, <3>5
  <2>. QED  BY <2>1
<1>11. q[l] = y
  <2>1. l = Len(path) /\ l \in DOMAIN path \cap DOMAIN q
    BY <1>6, <1>9, <1>10
  <2>. QED  BY <1>1, <1>8, <2>1
<1>. QED  BY <1>2, <1>6, <1>10, <1>11

\* The way into another one.
LEMMA WayNew ==
  ASSUME NEW text, NEW ts, TableInv(text, ts), NEW x \in DOMAIN ts, NEW scope \in DOMAIN ts,
         scope = OutsideExpansions(ts, x), ts[scope].kind # "TemplateParameter",
         NEW names, NEW n \in Nat, n = Len(names),
         NEW fresh, NEW d, Descent(text, ts, scope, names, fresh, d, n), d.found
  PROVE  Leading(d.tables, x, names, d.path[Len(d.path)])
<1>1. PICK ts2, q : ts2 = d.tables /\ q = d.path
  OBVIOUS
<1>2. /\ TableInv(text, ts2) /\ Keeps(ts, ts2) /\ q \in Seq(Nat) /\ q[1] = scope /\ Len(q) = n + 1
      /\ \A k \in DOMAIN q : q[k] \in DOMAIN ts2
      /\ WayDown(ts2, q, names)
  BY <1>1 DEF Descent
<1>3. DOMAIN q = 1 .. Len(q) /\ Len(q) \in Nat
  BY <1>2, LenProperties
<1>4. q \in Seq(DOMAIN ts2)
  BY <1>2, <1>3
<1>5. Shape(ts) /\ Ranked(ts) /\ Shape(ts2) /\ Ranked(ts2) /\ Grows(ts, ts2)
  BY <1>2 DEF TableInv, Keeps
<1>6. OutsideExpansions(ts2, x) = scope
  <2>1. ts[OutsideExpansions(ts, x)].kind # "TemplateParameter"
    OBVIOUS
  <2>2. OutsideExpansions(ts2, x) = OutsideExpansions(ts, x)
    BY <1>5, <2>1, OutsideStays
  <2>. QED  BY <2>2
<1>7. scope \in DOMAIN ts2 /\ ts2[scope].kind # "TemplateParameter"
  BY <1>5 DEF Grows
<1>8. PICK y : y = q[Len(q)]
  OBVIOUS
<1>9. PICK out : out = OutsideExpansions(ts2, x)
  OBVIOUS
<1>10. \E path \in Seq(DOMAIN ts2) :
         /\ Len(path) = Len(names) + 1 /\ path[1] = out /\ path[Len(path)] = y /\ WayDown(ts2, path, names)
  BY <1>2, <1>4, <1>6, <1>8, <1>9
<1>11. Leading(ts2, x, names, y)
  BY <1>6, <1>7, <1>9, <1>10 DEF Leading
<1>. QED  BY <1>1, <1>8, <1>11

\* Where all that is declared are namespaces, a way never ends too early.
LEMMA WayIsFound ==
  ASSUME NEW text, NEW ts, \A t \in DOMAIN ts \ {World} : \A s \in ts[t].symbols : s.is = "namespace",
         NEW scope, scope # World, NEW names, NEW n \in Nat,
         NEW fresh, NEW d, Descent(text, ts, scope, names, fresh, d, n)
  PROVE  d.found
<1>1. PICK ts2, q : ts2 = d.tables /\ q = d.path
  OBVIOUS
<1>2. /\ OnlyNamespaces(ts, ts2) /\ q \in Seq(Nat) /\ q # <<>> /\ q[1] = scope
      /\ ~d.found => \E s \in ts2[q[Len(q)]].symbols : s.is # "namespace"
      /\ \A k \in DOMAIN q : q[k] \in DOMAIN ts2 /\ (k > 1 => q[k] # World)
  BY <1>1 DEF Descent
<1>3. PICK l \in Nat \ {0} : l = Len(q) /\ l \in DOMAIN q
  <2>1. Len(q) \in Nat \ {0} /\ DOMAIN q = 1 .. Len(q)
    BY <1>2, EmptySeq, LenProperties
  <2>. QED  BY <2>1
<1>4. q[l] # World /\ q[l] \in DOMAIN ts2
  BY <1>2, <1>3
<1>5. \A s \in ts2[q[l]].symbols : s.is = "namespace"
  BY <1>2, <1>4 DEF OnlyNamespaces
<1>. QED  BY <1>2, <1>3, <1>5

\* Where the namespace stands, and the tables there.
LEMMA NamespaceHere ==
  ASSUME IInv, NInv, EnterNamespace
  PROVE  /\ Frame.at \in DOMAIN code /\ Here = code[Frame.at] /\ Here.op = "namespace" /\ verdict = "running"
         /\ Frame.pass # "expand" /\ TextInv(code) /\ TableInv(code, tables) /\ Here.name # <<>> /\ Len(Here.name) \in Nat
         /\ TopScope \in DOMAIN tables /\ CurrentScope \in DOMAIN tables \ {World}
         /\ tables[CurrentScope].kind # "TemplateParameter"
         /\ Top(code, scopeOf, Frame.at, TopScope)
<1>. DEFINE ops == {"namespace"}
<1>1. Visiting(FollowScopes, ops)
  BY NamespaceFound
<1>2. /\ Frame.at \in DOMAIN code /\ Here = code[Frame.at] /\ Here.op \in ops /\ Frame.pass \in FollowScopes
      /\ TextInv(code) /\ TableInv(code, tables) /\ FrameOK(code, tables, Frame) /\ Here \in Node
      /\ (Frame.first = 1 \/ Frame.base # <<>>) /\ verdict = "running"
  BY <1>1, AtWork DEF Visiting
<1>3. Here.op = "namespace" /\ Frame.pass # "expand" /\ "expand" \notin FollowScopes
  BY <1>2 DEF FollowScopes
<1>. HIDE DEF ops
<1>4. Here.name # <<>> /\ Len(Here.name) \in Nat
  BY <1>2, <1>3, NodeFields, LenProperties DEF TextInv
<1>5. /\ TopScope \in DOMAIN tables /\ CurrentScope \in DOMAIN tables \ {World}
      /\ tables[CurrentScope].kind # "TemplateParameter"
  BY <1>1, <1>3, ScopesHere
<1>6. PICK fr, so : fr = Frame /\ so = scopeOf
  OBVIOUS
<1>7. /\ FrameOK(code, tables, fr) /\ (fr.first = 1 \/ fr.base # <<>>) /\ fr.at \in DOMAIN code
      /\ code[fr.at].op # "module" /\ fr.pass # "expand" /\ Scoped(code, tables, so, fr)
  BY <1>2, <1>3, <1>6 DEF NInv
<1>8. fr.scopes # <<>> /\ fr.scopes \in Seq(Nat) /\ fr.open \in Seq(Nat)
      /\ Standing(code, fr.pass, fr.first, fr.at, Len(fr.open))
  BY <1>2, <1>7, SomethingOnTop, FrameFields
<1>9. Len(fr.scopes) > 0
  <2>1. Len(fr.scopes) \in Nat /\ Len(fr.scopes) # 0
    BY <1>8, EmptySeq, LenProperties
  <2>. QED  BY <2>1
<1>10. PICK pass, first, at, base, scopes, open :
         /\ pass = fr.pass /\ first = fr.first /\ at = fr.at /\ base = fr.base /\ scopes = fr.scopes /\ open = fr.open
  OBVIOUS
<1>11. Follows(code, so, first, at, base, scopes, open)
  BY <1>7, <1>10 DEF Scoped
<1>12. code \in Seq(Node) /\ open \in Seq(Nat) /\ Standing(code, pass, first, at, Len(open)) /\ Len(scopes) > 0
  BY <1>2, <1>8, <1>9, <1>10 DEF TextInv
<1>13. Top(code, so, at, scopes[Len(scopes)])
  BY <1>11, <1>12, FollowsTop
<1>14. Top(code, scopeOf, Frame.at, TopScope)
  BY <1>6, <1>10, <1>13 DEF TopScope
<1>. QED  BY <1>2, <1>3, <1>4, <1>5, <1>14

\* The tables that the way leads to.
LEMMA WayLeads ==
  ASSUME IInv, NInv, EnterNamespace, NEW last, NEW fresh, WayTaken(last, fresh)
  PROVE  /\ Here.id \in DOMAIN scopeOf => last.found /\ last.path[Len(last.path)] = scopeOf[Here.id]
         /\ last.found => Leading(last.tables, TopScope, Here.name, last.path[Len(last.path)])
         /\ ~last.found => Len(frames) > 1 /\ Frame.pass = "record"
<1>1. /\ Frame.at \in DOMAIN code /\ Here = code[Frame.at] /\ Here.op = "namespace"
      /\ TextInv(code) /\ TableInv(code, tables) /\ Len(Here.name) \in Nat
      /\ TopScope \in DOMAIN tables /\ CurrentScope \in DOMAIN tables \ {World}
      /\ tables[CurrentScope].kind # "TemplateParameter" /\ Top(code, scopeOf, Frame.at, TopScope)
  BY NamespaceHere
<1>2. PICK names, n, scope, top, so :
        /\ names = Here.name /\ n = Len(names) /\ scope = CurrentScope /\ top = TopScope /\ so = scopeOf
  OBVIOUS
<1>3. /\ Descent(code, tables, scope, names, fresh, last, n) /\ n \in Nat
      /\ scope \in DOMAIN tables \ {World} /\ top \in DOMAIN tables /\ tables[scope].kind # "TemplateParameter"
  BY <1>1, <1>2 DEF WayTaken
<1>4. scope = OutsideExpansions(tables, top)
  BY <1>2 DEF CurrentScope
<1>5. code \in Seq(Node) /\ Scoped(code, tables, so, Frame)
  BY <1>1, <1>2 DEF TextInv, NInv
<1>6. ASSUME Here.id \in DOMAIN so
      PROVE  last.found /\ last.path[Len(last.path)] = so[Here.id]
  <2>1. PICK x \in DOMAIN tables : /\ Top(code, so, Frame.at, x)
                                   /\ Leading(tables, x, code[Frame.at].name, so[code[Frame.at].id])
    BY <1>1, <1>5, <1>6 DEF Scoped, Led
  <2>2. x = top
    BY <1>1, <1>2, <1>5, <2>1, TopIsOne
  <2>3. PICK y : y = so[Here.id]
    OBVIOUS
  <2>4. Leading(tables, top, names, y)
    BY <1>1, <1>2, <2>1, <2>2, <2>3
  <2>5. last.found /\ last.path[Len(last.path)] = y
    BY <1>2, <1>3, <1>4, <2>4, WayAgain
  <2>. QED  BY <2>3, <2>5
<1>7. ASSUME last.found
      PROVE  Leading(last.tables, top, names, last.path[Len(last.path)])
  BY <1>1, <1>2, <1>3, <1>4, <1>7, WayNew
<1>8. ASSUME ~last.found
      PROVE  Len(frames) > 1 /\ Frame.pass = "record"
  <2>1. Here.id \notin DOMAIN so
    BY <1>6, <1>8
  <2>2. Frame.pass = "record"
    BY <1>1, <1>5, <2>1 DEF Scoped, Unrecorded
  <2>3. Len(frames) # 1
    <3>1. ASSUME Len(frames) = 1
          PROVE  FALSE
      <4>1. \A t \in DOMAIN tables \ {World} : \A s \in tables[t].symbols : s.is = "namespace"
        BY <2>2, <3>1 DEF NInv, Plain
      <4>2. last.found
        BY <1>3, <4>1, WayIsFound
      <4>. QED  BY <1>8, <4>2
    <3>. QED  BY <3>1
  <2>4. Len(frames) \in Nat \ {0}
    <3>1. Frames(code, tables, frames)
      BY DEF IInv, Inv
    <3>. QED  BY <3>1, LastFrame
  <2>5. PICK l \in Nat \ {0} : l = Len(frames)
    BY <2>4
  <2>6. l > 1
    BY <2>3, <2>5
  <2>. QED  BY <2>2, <2>5, <2>6
<1>. QED  BY <1>2, <1>6, <1>7, <1>8

\* Entering a namespace leaves the table of those that have been entered.
LEMMA NamespaceAgrees ==
  ASSUME IInv, NInv, EnterNamespace
  PROVE  Agrees(scopeOf, scopeOf')
<1>1. PICK last, fresh : WayTaken(last, fresh)
  BY NamespaceWay
<1>2. CASE ~last.found
  <2>1. scopeOf' = scopeOf
    BY <1>1, <1>2 DEF WayTaken
  <2>. QED  BY <2>1 DEF Agrees
<1>3. CASE last.found
  <2>1. scopeOf' = [n \in DOMAIN scopeOf \union {Here.id} |->
                      IF n = Here.id THEN last.path[Len(last.path)] ELSE scopeOf[n]]
    BY <1>1, <1>3 DEF WayTaken
  <2>2. PICK y, id : y = last.path[Len(last.path)] /\ id = Here.id
    OBVIOUS
  <2>3. id \in DOMAIN scopeOf => y = scopeOf[id]
    BY <1>1, <2>2, WayLeads
  <2>4. scopeOf' = [n \in DOMAIN scopeOf \union {id} |-> IF n = id THEN y ELSE scopeOf[n]]
    BY <2>1, <2>2
  <2>. QED  BY <2>3, <2>4 DEF Agrees
<1>. QED  BY <1>2, <1>3

\* A namespace is entered, or the recorder asserts.
LEMMA EnterNamespaceScoped ==
  ASSUME IInv, NInv, EnterNamespace
  PROVE  NInv'
<1>1. PICK last, fresh : WayTaken(last, fresh)
  BY NamespaceWay
<1>2. /\ Frame.at \in DOMAIN code /\ Here = code[Frame.at] /\ Here.op = "namespace" /\ verdict = "running"
      /\ TextInv(code) /\ TableInv(code, tables) /\ TopScope \in DOMAIN tables /\ Here.name # <<>>
      /\ Len(Here.name) \in Nat /\ Top(code, scopeOf, Frame.at, TopScope)
  BY NamespaceHere
<1>3. Visiting(FollowScopes, {"namespace"})
  BY NamespaceFound
<1>4. PICK ts2, q, names, n, scope, so :
        /\ ts2 = last.tables /\ q = last.path /\ names = Here.name /\ n = Len(names) /\ scope = CurrentScope
        /\ so = scopeOf
  OBVIOUS
<1>5. Descent(code, tables, scope, names, fresh, last, n) /\ tables' = ts2 /\ code' = code
  BY <1>1, <1>4 DEF WayTaken
<1>6. /\ TableInv(code, ts2) /\ Keeps(tables, ts2) /\ OnlyNamespaces(tables, ts2) /\ q \in Seq(Nat)
      /\ last.found => Len(q) = n + 1
  BY <1>4, <1>5 DEF Descent
<1>7. /\ Shape(tables) /\ Ranked(tables) /\ Shape(ts2) /\ Ranked(ts2) /\ Grows(tables, ts2)
      /\ DOMAIN tables \subseteq DOMAIN ts2
  BY <1>2, <1>6 DEF TableInv, Keeps, Grows
<1>8. Scoped(code, tables, so, Frame) /\ Led(code, tables, so) /\ Recorded(code, so)
  BY <1>4 DEF NInv, Scoped
<1>9. Led(code, ts2, so)
  BY <1>7, <1>8, LedGrows
<1>10. CASE ~last.found
  <2>1. verdict' = "asserted" /\ UNCHANGED <<frames, scopeOf>>
    BY <1>1, <1>10 DEF WayTaken
  <2>2. Len(frames) > 1 /\ Frame.pass = "record"
    BY <1>1, <1>10, WayLeads
  <2>3. Frame' = Frame /\ Len(frames') = Len(frames) /\ Len(frames) # 1
    BY <2>1, <2>2 DEF Frame
  <2>4. Scoped(code, ts2, so, Frame)
    BY <1>8, <1>9 DEF Scoped
  <2>5. Scoped(code, tables, scopeOf, Frame)'
    BY <1>4, <1>5, <2>1, <2>3, <2>4
  <2>6. Plain(tables, Len(frames), Frame)'
    BY <2>3 DEF Plain
  <2>7. AssertedInCopyOnly'
    BY <2>1, <2>2, <2>3 DEF AssertedInCopyOnly
  <2>. QED  BY <2>5, <2>6, <2>7 DEF NInv
<1>11. CASE last.found
  <2>1. PICK p, y, id : p = Tail(q) /\ y = q[Len(q)] /\ id = Here.id
    OBVIOUS
  <2>2. Enter(p) /\ UNCHANGED verdict
    BY <1>1, <1>4, <1>11, <2>1 DEF WayTaken
  <2>3. scopeOf' = [k \in DOMAIN so \union {id} |-> IF k = id THEN y ELSE so[k]]
    BY <1>1, <1>4, <1>11, <2>1 DEF WayTaken
  <2>4. PICK so2 : so2 = scopeOf'
    OBVIOUS
  <2>5. DOMAIN so2 = DOMAIN so \union {id} /\ so2[id] = y
    BY <2>3, <2>4
  <2>6. Agrees(so, so2)
    BY <1>4, <2>4, NamespaceAgrees
  <2>7. Recorded(code, so2)
    BY <1>2, <1>8, <2>1, <2>5 DEF Recorded
  <2>8. Leading(ts2, TopScope, names, y)
    BY <1>1, <1>4, <1>11, <2>1, WayLeads
  <2>9. Led(code, ts2, so2)
    <3>1. PICK a, top : a = Frame.at /\ top = TopScope
      OBVIOUS
    <3>2. /\ a \in DOMAIN code /\ code[a].id = id /\ code[a].name = names /\ top \in DOMAIN ts2
          /\ Top(code, so, a, top)
      BY <1>2, <1>4, <1>7, <2>1, <3>1
    <3>3. Leading(ts2, top, code[a].name, so2[code[a].id])
      BY <2>5, <2>8, <3>1, <3>2
    <3>4. \A i, j \in DOMAIN code : code[i].id = code[j].id => i = j
      BY <1>2 DEF TextInv
    <3>. QED  BY <1>9, <2>5, <2>6, <3>2, <3>3, <3>4, LedMore
  <2>10. p \in Seq(Nat) /\ p # <<>> /\ p[Len(p)] = y
    <3>1. n \in Nat \ {0}
      <4>1. names \in Seq(STRING)
        <5>1. Here \in Node
          BY <1>3, AtWork
        <5>. QED  BY <1>4, <5>1, NodeFields
      <4>. QED  BY <1>2, <1>4, <4>1, EmptySeq
    <3>2. Len(q) = n + 1 /\ q # <<>>
      BY <1>6, <1>11, <3>1
    <3>3. p \in Seq(Nat) /\ Len(p) = n /\ \A k \in 1 .. n : p[k] = q[k + 1]
      BY <1>6, <2>1, <3>1, <3>2
    <3>4. n \in 1 .. n
      BY <3>1
    <3>. QED  BY <2>1, <3>1, <3>2, <3>3, <3>4
  <2>11. StandsFor(code, so2, Frame.at, p[Len(p)])
    BY <1>2, <2>1, <2>5, <2>10 DEF StandsFor
  <2>12. Here.op \in Opener /\ Here.op # "template"
    BY <1>2 DEF Opener
  <2>13. /\ UNCHANGED <<code, verdict>> /\ Agrees(scopeOf, scopeOf') /\ Recorded(code, scopeOf')
         /\ Led(code, tables', scopeOf') /\ Here.id \in DOMAIN scopeOf'
         /\ StandsFor(code, scopeOf', Frame.at, p[Len(p)]) /\ OnlyNamespaces(tables, tables')
    BY <1>4, <1>5, <1>6, <2>1, <2>2, <2>4, <2>5, <2>6, <2>7, <2>9, <2>11
  <2>. QED  BY <1>3, <2>2, <2>10, <2>12, <2>13, ScopedEntersOn
<1>. QED  BY <1>10, <1>11

\* Nothing changes but the verdict.
LEMMA StaysScoped ==
  ASSUME NInv, UNCHANGED <<code, tables, frames, scopeOf>>, UNCHANGED verdict \/ verdict' # "asserted"
  PROVE  NInv'
<1>1. Frame' = Frame
  BY DEF Frame
<1>2. Scoped(code, tables, scopeOf, Frame)' /\ Plain(tables, Len(frames), Frame)'
  BY <1>1 DEF NInv
<1>3. AssertedInCopyOnly'
  BY <1>1 DEF NInv, AssertedInCopyOnly
<1>. QED  BY <1>2, <1>3 DEF NInv

\* Every step.
LEMMA NextScoped ==
  ASSUME IInv, NInv, [Next]_vars
  PROVE  NInv'
<1>1. CASE UNCHANGED vars
  BY <1>1, StaysScoped DEF vars
<1>2. CASE EnterBlock \/ EnterNamespace \/ EnterFunction \/ DeclareFunction \/ ResolveParameters \/ EnterExpansion \/ LeaveScope
  BY <1>2, HangsScoped, EnterNamespaceScoped, FunctionsScoped, LeaveScopeScoped
<1>3. CASE RecordTemplate \/ SkipTemplate \/ DeclareTemplate \/ DeclareVariableOrClass \/ ResolveVariableType
  BY <1>3, BareScoped, SkipsScoped, DeclareTemplateScoped, DeclareVariableOrClassScoped, LeavesScoped
<1>4. CASE DefineVariable \/ ResolveUse \/ SkipLeaf \/ WalkInto \/ ExpandRefused \/ Expand
  BY <1>4, LeavesScoped, BareScoped, SkipsScoped, ExpandScoped
<1>5. CASE EndPass \/ EndExpansion
  BY <1>5, EndPassScoped, EndExpansionScoped
<1>6. CASE EndModule
  <2>1. UNCHANGED <<code, tables, frames, scopeOf>> /\ verdict' # "asserted"
    BY <1>6 DEF EndModule
  <2>. QED  BY <2>1, StaysScoped
<1>7. CASE Over
  BY <1>7, StaysScoped DEF Over, vars
<1>. QED  BY <1>1, <1>2, <1>3, <1>4, <1>5, <1>6, <1>7 DEF Next

\* What has been entered is left, whatever the step.
LEMMA NextAgrees ==
  ASSUME IInv, NInv, [Next]_vars
  PROVE  \A n \in DOMAIN scopeOf : scopeOf'[n] = scopeOf[n]
<1>1. CASE EnterNamespace
  BY <1>1, NamespaceAgrees DEF Agrees
<1>2. CASE ~EnterNamespace
  <2>1. CASE UNCHANGED vars
    BY <2>1 DEF vars
  <2>2. CASE EnterBlock \/ EnterFunction \/ DeclareFunction \/ ResolveParameters \/ EnterExpansion \/ LeaveScope
    BY <2>2 DEF EnterBlock, EnterFunction, DeclareFunction, ResolveParameters, EnterExpansion, LeaveScope
  <2>3. CASE RecordTemplate \/ SkipTemplate \/ DeclareTemplate \/ DeclareVariableOrClass \/ ResolveVariableType
    BY <2>3 DEF RecordTemplate, SkipTemplate, DeclareTemplate, DeclareVariableOrClass, ResolveVariableType
  <2>4. CASE DefineVariable \/ ResolveUse \/ SkipLeaf \/ WalkInto \/ ExpandRefused
    BY <2>4 DEF DefineVariable, ResolveUse, SkipLeaf, WalkInto, ExpandRefused
  <2>5. CASE Expand
    BY <2>5, ExpandIs
  <2>6. CASE EndPass \/ EndExpansion \/ EndModule
    BY <2>6 DEF EndPass, EndExpansion, EndModule
  <2>7. CASE Over
    BY <2>7 DEF Over, vars
  <2>. QED  BY <1>2, <2>1, <2>2, <2>3, <2>4, <2>5, <2>6, <2>7 DEF Next
<1>. QED  BY <1>1, <1>2

\* At first no namespace has been entered.
LEMMA ScopedAtFirst ==
  ASSUME Init
  PROVE  NInv
<1>1. code \in Programs /\ FirstTables(code, tables) /\ frames = <<NewFrame(1, <<>>)>> /\ scopeOf = <<>>
      /\ verdict = "running"
  BY Zenon DEF Init, FirstTables
<1>2. TextInv(code)
  BY <1>1, TextAtFirst
<1>3. PICK none : none = <<>> /\ DOMAIN none = {} /\ none \in Seq(Nat)
  <2>1. DOMAIN <<>> = {} /\ <<>> \in Seq(Nat)
    OBVIOUS
  <2>. QED  BY <2>1
<1>4. PICK fr : fr = NewFrame(1, none)
  OBVIOUS
<1>5. fr.pass = "record" /\ fr.first = 1 /\ fr.at = 1 /\ fr.base = none /\ fr.scopes = none /\ fr.open = none
  BY <1>4, <1>3 DEF NewFrame
<1>6. Frame = fr /\ Len(frames) = 1
  BY <1>1, <1>3, <1>4 DEF Frame
<1>7. Recorded(code, none) /\ Led(code, tables, none)
  BY <1>3 DEF Recorded, Led
<1>8. ASSUME NEW i \in DOMAIN code
      PROVE  i >= 1 /\ Within(code, 1 - 1, i)
  <2>1. Len(code) \in Nat /\ DOMAIN code = 1 .. Len(code)
    BY <1>2, TextPlaces DEF TextInv
  <2>2. \A k \in 0 .. Len(code) : Height(code, k) >= 0
    BY <1>2, HeightsPositive
  <2>3. Height(code, 0) = 0 /\ 1 - 1 = 0
    BY HeightStep
  <2>4. \A k \in 0 .. (i - 1) : Height(code, k) >= Height(code, 0)
    BY <2>1, <2>2, <2>3
  <2>5. i \in Nat /\ i >= 1 /\ 0 < i
    BY <2>1
  <2>. QED  BY <2>3, <2>4, <2>5 DEF Within
<1>9. Unrecorded(code, none, fr.pass, fr.first, fr.at)
  BY <1>5, <1>8 DEF Unrecorded
<1>10. Follows(code, none, fr.first, fr.at, fr.base, fr.scopes, fr.open)
  <2>1. code \in Seq(Node) /\ 1 \in Nat \ {0}
    BY <1>2 DEF TextInv
  <2>2. Follows(code, none, 1, 1, none, none, <<>>)
    BY <1>3, <2>1, FollowsBegins
  <2>. QED  BY <1>3, <1>5, <2>2
<1>11. Scoped(code, tables, none, fr)
  BY <1>3, <1>5, <1>7, <1>9, <1>10 DEF Scoped
<1>12. \A t \in DOMAIN tables \ {World} : \A s \in tables[t].symbols : s.is = "namespace"
  <2>1. code \in Seq(Node)
    BY <1>2 DEF TextInv
  <2>2. /\ DOMAIN tables = {World} \union {i \in DOMAIN code : code[i].op \in OwnsTable}
        /\ \A i \in DOMAIN code : code[i].op \in OwnsTable => tables[i].symbols = {}
    BY <1>1, <2>1, FirstTablesAre
  <2>. QED  BY <2>2
<1>13. Plain(tables, Len(frames), Frame)
  BY <1>12 DEF Plain
<1>14. AssertedInCopyOnly
  BY <1>1 DEF AssertedInCopyOnly
<1>. QED  BY <1>1, <1>3, <1>6, <1>11, <1>13, <1>14 DEF NInv

(***************************************************************************)
(* Whatever modules are compiled: every pass that follows scopes comes,    *)
(* for each namespace, to the table that the first one has come to, though *)
(* every one of them looks the parts of its path up anew and may declare   *)
(* names in between (ScopeFollowingAstVisitor::visitingNamespaceExpr).     *)
(***************************************************************************)
THEOREM NamespacesAreStable == Spec => NamespaceIsStable
<1>1. Init => IInv /\ NInv
  BY InitHolds, ScopedAtFirst
<1>2. IInv /\ NInv /\ [Next]_vars => IInv' /\ NInv'
  BY NextKeeps, NextScoped
<1>3. IInv /\ NInv /\ [Next]_vars => [\A n \in DOMAIN scopeOf : scopeOf'[n] = scopeOf[n]]_vars
  BY NextAgrees
<1>. QED  BY <1>1, <1>2, <1>3, PTL DEF Spec, NamespaceIsStable

(***************************************************************************)
(* Whatever modules are compiled: the assertion in visitingNamespaceExpr   *)
(* that its author takes for unreachable is reached by the recorder alone, *)
(* and only in the copy of a template; over the module itself, and in any  *)
(* later pass, a part of a namespace's path is never something else.       *)
(***************************************************************************)
THEOREM AssertsInCopyOnly == Spec => []AssertedInCopyOnly
<1>1. Init => IInv /\ NInv
  BY InitHolds, ScopedAtFirst
<1>2. IInv /\ NInv /\ [Next]_vars => IInv' /\ NInv'
  BY NextKeeps, NextScoped
<1>3. NInv => AssertedInCopyOnly
  BY DEF NInv
<1>. QED  BY <1>1, <1>2, <1>3, PTL DEF Spec
=============================================================================
