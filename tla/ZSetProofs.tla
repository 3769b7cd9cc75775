----------------------------- MODULE ZSetProofs -----------------------------
(***************************************************************************)
(* Proofs about ZSet, for all names, scores and inputs: the inductive      *)
(* invariant, which says that there are places for which the tree is sound *)
(* and in order, and what follows from it for the properties of ZSet.      *)
(***************************************************************************)
EXTENDS ZSet, AvlTreeProofs

-----------------------------------------------------------------------------
(* The order of the members. *)

\* Without NaN, pairs of a score and a name are compared by score, then name.
LEMMA ZlessInt ==
  ASSUME NEW s \in Int, NEW r \in Int, NEW x, NEW y
  PROVE  /\ zless(s, x, r, y) <=> s < r \/ (s = r /\ x < y)
         /\ zgreater(s, x, r, y) <=> r < s \/ (s = r /\ x > y)
BY ScoreAssumption DEF zless, zgreater, Differ, Less

\* The places are those of the order of score and name.
Sorted(sc, M, at) ==
  \A x, y \in M : sc[x] \in Int /\ (zless(sc[x], x, sc[y], y) <=> at[x] < at[y])

\* The order is total.
LEMMA ZlessOrder ==
  ASSUME NEW sc, NEW A, A \subseteq Node, \A x \in A : sc[x] \in Int
  PROVE  /\ \A x, y \in A : zless(sc[x], x, sc[y], y) => ~ zless(sc[y], y, sc[x], x)
         /\ \A x, y \in A : x # y => zless(sc[x], x, sc[y], y) \/ zless(sc[y], y, sc[x], x)
         /\ \A x, y, z \in A : zless(sc[x], x, sc[y], y) /\ zless(sc[y], y, sc[z], z) =>
              zless(sc[x], x, sc[z], z)
<1>1. \A x \in A : x \in Int /\ sc[x] \in Int
  BY NameAssumption
<1>2. \A x, y \in A : zless(sc[x], x, sc[y], y) <=> sc[x] < sc[y] \/ (sc[x] = sc[y] /\ x < y)
  BY ZlessInt
<1>3. \A x, y \in A : zless(sc[x], x, sc[y], y) => ~ zless(sc[y], y, sc[x], x)
  BY ONLY <1>1, <1>2
<1>4. \A x, y \in A : x # y => zless(sc[x], x, sc[y], y) \/ zless(sc[y], y, sc[x], x)
  BY ONLY <1>1, <1>2
<1>5. \A x, y, z \in A : zless(sc[x], x, sc[y], y) /\ zless(sc[y], y, sc[z], z) =>
        zless(sc[x], x, sc[z], z)
  BY ONLY <1>1, <1>2
<1> QED BY ONLY <1>3, <1>4, <1>5

-----------------------------------------------------------------------------
(* tree_insert. *)

\* The place that is given to n below p.
PlaceBelow(at, sc, n, p) == IF zless(sc[n], n, sc[p], p) THEN at[p] ELSE at[p] + 1

\* What is outside the subtree of q lies on the right side of n.
Guided(at, lo, hi, sc, M, n, q) ==
  \A x \in M : /\ at[x] < lo[q] => zless(sc[x], x, sc[n], n)
               /\ at[x] > hi[q] => zless(sc[n], n, sc[x], x)

\* One step down.
LEMMA GuidedDown ==
  ASSUME NEW t, NEW M, NEW at, NEW lo, NEW hi, Shape(t, M, at, lo, hi), NEW sc, NEW n \in Node,
         n \notin M, Sorted(sc, M, at), sc[n] \in Int, NEW q \in M,
         Guided(at, lo, hi, sc, M, n, q), NEW r, r = Branch(t, sc, n, q), r # Null
  PROVE  Guided(at, lo, hi, sc, M, n, r)
<1> DEFINE L(x, y) == zless(sc[x], x, sc[y], y)
           A == M \cup {n}
<1>1. A \subseteq Node /\ \A x \in A : sc[x] \in Int
  BY DEF Shape, Sorted
<1>2. /\ \A x, y \in A : x # y => L(x, y) \/ L(y, x)
      /\ \A x, y, z \in A : L(x, y) /\ L(y, z) => L(x, z)
  BY ONLY <1>1, ZlessOrder
<1>3. \A x \in M : at[x] \in Int /\ lo[x] \in Int /\ hi[x] \in Int
  BY ShapeNode
<1>4. \A x, y \in M : (L(x, y) <=> at[x] < at[y]) /\ (at[x] = at[y] => x = y)
  BY DEF Sorted, Shape
<1>5. \A x \in M : (at[x] < lo[q] => L(x, n)) /\ (at[x] > hi[q] => L(n, x))
  BY DEF Guided
<1>6. n \in A /\ q \in A /\ q # n /\ \A x \in M : x \in A
  OBVIOUS
<1> HIDE DEF A
<1>7. CASE L(n, q)
  <2>1. r \in M /\ lo[r] = lo[q] /\ hi[r] = at[q] - 1
    <3>1. r = t.left[q]
      BY <1>7 DEF Branch
    <3> QED BY ONLY <3>1, r # Null, q \in M, Shape(t, M, at, lo, hi), LeftChild
  <2> HIDE DEF L
  <2>2. ASSUME NEW x \in M, at[x] > hi[r] PROVE L(n, x)
    <3>1. at[x] = at[q] \/ at[q] < at[x]
      BY ONLY <1>3, <2>1, <2>2, q \in M
    <3>2. x = q \/ L(q, x)
      BY ONLY <1>4, <3>1, q \in M, x \in M
    <3> QED BY ONLY <1>2, <1>6, <1>7, <3>2, x \in M
  <2>3. ASSUME NEW x \in M, at[x] < lo[r] PROVE L(x, n)
    BY ONLY <1>5, <2>1, <2>3
  <2> QED BY ONLY <2>2, <2>3 DEF Guided, L
<1>8. CASE ~ L(n, q)
  <2>1. r \in M /\ hi[r] = hi[q] /\ lo[r] = at[q] + 1
    <3>1. r = t.right[q]
      BY <1>8 DEF Branch
    <3> QED BY ONLY <3>1, r # Null, q \in M, Shape(t, M, at, lo, hi), RightChild
  <2> HIDE DEF L
  <2>2. ASSUME NEW x \in M, at[x] < lo[r] PROVE L(x, n)
    <3>1. at[x] = at[q] \/ at[x] < at[q]
      BY ONLY <1>3, <2>1, <2>2, q \in M
    <3>2. x = q \/ L(x, q)
      BY ONLY <1>4, <3>1, q \in M, x \in M
    <3>3. L(q, n)
      BY ONLY <1>2, <1>6, <1>8
    <3> QED BY ONLY <1>2, <1>6, <3>2, <3>3, x \in M
  <2>3. ASSUME NEW x \in M, at[x] > hi[r] PROVE L(n, x)
    BY ONLY <1>5, <2>1, <2>3
  <2> QED BY ONLY <2>2, <2>3 DEF Guided, L
<1> QED BY <1>7, <1>8

\* Where there is nothing below q on the side of n is the place of n.
LEMMA GuidedEnd ==
  ASSUME NEW t, NEW M, NEW at, NEW lo, NEW hi, Shape(t, M, at, lo, hi), NEW sc, NEW n \in Node,
         n \notin M, Sorted(sc, M, at), sc[n] \in Int, NEW q \in M,
         Guided(at, lo, hi, sc, M, n, q), Branch(t, sc, n, q) = Null
  PROVE  \A x \in M : at[x] < PlaceBelow(at, sc, n, q) <=> zless(sc[x], x, sc[n], n)
<1> DEFINE L(x, y) == zless(sc[x], x, sc[y], y)
           A == M \cup {n}
           j == PlaceBelow(at, sc, n, q)
<1>1. A \subseteq Node /\ \A x \in A : sc[x] \in Int
  BY DEF Shape, Sorted
<1>2. /\ \A x, y \in A : x # y => L(x, y) \/ L(y, x)
      /\ \A x, y, z \in A : L(x, y) /\ L(y, z) => L(x, z)
      /\ \A x, y \in A : L(x, y) => ~ L(y, x)
  BY ONLY <1>1, ZlessOrder
<1>3. \A x \in M : at[x] \in Int /\ lo[x] \in Int /\ hi[x] \in Int
  BY ShapeNode
<1>4. \A x, y \in M : (L(x, y) <=> at[x] < at[y]) /\ (at[x] = at[y] => x = y)
  BY DEF Sorted, Shape
<1>5. \A x \in M : (at[x] < lo[q] => L(x, n)) /\ (at[x] > hi[q] => L(n, x))
  BY DEF Guided
<1>6. n \in A /\ q \in A /\ q # n /\ \A x \in M : x \in A
  OBVIOUS
<1> HIDE DEF A
<1> SUFFICES ASSUME NEW x \in M PROVE at[x] < j <=> L(x, n)
  OBVIOUS
<1>7. CASE L(n, q)
  <2>1. j = at[q] /\ lo[q] = at[q]
    <3>1. t.left[q] = Null /\ j = at[q]
      BY <1>7 DEF Branch, PlaceBelow
    <3>2. LeftShape(t, M, at, lo, hi, q)
      BY ONLY q \in M, Shape(t, M, at, lo, hi), ShapeNode
    <3> QED BY ONLY <3>1, <3>2 DEF LeftShape
  <2> HIDE DEF L, j
  <2>2. CASE at[x] < at[q]
    BY ONLY <1>5, <2>1, <2>2, x \in M
  <2>3. CASE ~ (at[x] < at[q])
    <3>1. at[x] = at[q] \/ at[q] < at[x]
      BY ONLY <1>3, <2>3, q \in M, x \in M
    <3>2. x = q \/ L(q, x)
      BY ONLY <1>4, <3>1, q \in M, x \in M
    <3>3. L(n, x)
      BY ONLY <1>2, <1>6, <1>7, <3>2, x \in M
    <3> QED BY ONLY <1>2, <1>6, <2>1, <2>3, <3>3, x \in M
  <2> QED BY <2>2, <2>3
<1>8. CASE ~ L(n, q)
  <2>1. j = at[q] + 1 /\ hi[q] = at[q]
    <3>1. t.right[q] = Null /\ j = at[q] + 1
      BY <1>8 DEF Branch, PlaceBelow
    <3>2. RightShape(t, M, at, lo, hi, q)
      BY ONLY q \in M, Shape(t, M, at, lo, hi), ShapeNode
    <3> QED BY ONLY <3>1, <3>2 DEF RightShape
  <2> HIDE DEF L, j
  <2>2. CASE at[x] > at[q]
    <3>1. L(n, x)
      BY ONLY <1>5, <2>1, <2>2, x \in M
    <3>2. ~ (at[x] < j)
      BY ONLY <1>3, <2>1, <2>2, x \in M, q \in M
    <3> QED BY ONLY <1>2, <1>6, <3>1, <3>2, x \in M
  <2>3. CASE ~ (at[x] > at[q])
    <3>1. (at[x] = at[q] \/ at[x] < at[q]) /\ at[x] < j
      BY ONLY <1>3, <2>1, <2>3, q \in M, x \in M
    <3>2. x = q \/ L(x, q)
      BY ONLY <1>4, <3>1, q \in M, x \in M
    <3>3. L(q, n)
      BY ONLY <1>2, <1>6, <1>8
    <3>4. L(x, n)
      BY ONLY <1>2, <1>6, <3>2, <3>3, x \in M
    <3> QED BY ONLY <3>1, <3>4
  <2> QED BY <2>2, <2>3
<1> QED BY <1>7, <1>8

\* tree_insert comes to a node that has no child on the side of n, and, if the
\* tree is in order, to the place of n.
LEMMA InsertionPointIs ==
  ASSUME NEW t, NEW M, NEW at, Sound(t, M, at), t.root # Null, NEW sc, NEW n \in Node, n \notin M,
         NEW p, p = InsertionPoint(t, sc, n)
  PROVE  /\ p \in M /\ Branch(t, sc, n, p) = Null
         /\ Sorted(sc, M, at) /\ sc[n] \in Int =>
              \A x \in M : at[x] < PlaceBelow(at, sc, n, p) <=> zless(sc[x], x, sc[n], n)
<1>1. PICK lo, hi : Shape(t, M, at, lo, hi)
  BY DEF Sound
<1> DEFINE down == [q \in Node |->
                      IF Branch(t, sc, n, q) = Null THEN q ELSE Branch(t, sc, n, q)]
           At(k) == Iterate(down, t.root, k)
           N == PathBound
           Good(k) == /\ At(k) \in M
                      /\ Branch(t, sc, n, At(k)) = Null \/ hi[At(k)] - lo[At(k)] + k < N
                      /\ Sorted(sc, M, at) /\ sc[n] \in Int => Guided(at, lo, hi, sc, M, n, At(k))
           P == {k \in 0 .. N : Good(k)}
<1>2. p = At(N)
  BY DEF InsertionPoint
<1>3. At(0) = t.root /\ \A k \in Nat \ {0} : At(k) = down[At(k - 1)]
  BY IterateSteps, Zenon
<1>4. /\ t.root \in M /\ lo[t.root] = 1 /\ hi[t.root] = Cardinality(M) /\ M \subseteq Node
      /\ Cardinality(M) \in Nat /\ N \in Nat /\ Cardinality(M) <= N
  BY <1>1, ShapeSize DEF Shape, RootShape
<1> HIDE DEF At, N
<1>5. \A x \in M : /\ at[x] \in Int /\ lo[x] \in Int /\ hi[x] \in Int
                   /\ 1 <= lo[x] /\ lo[x] <= at[x] /\ at[x] <= hi[x] /\ hi[x] <= Cardinality(M)
  BY <1>1, ShapeNode
<1>6. 0 \in P
  <2> DEFINE q == At(0)
  <2>1. q \in M /\ lo[q] = 1 /\ hi[q] = Cardinality(M)
    BY <1>3, <1>4
  <2> HIDE DEF q
  <2>2. hi[q] - lo[q] + 0 < N
    BY ONLY <1>4, <2>1
  <2>3. Guided(at, lo, hi, sc, M, n, q)
    BY ONLY <1>4, <1>5, <2>1 DEF Guided
  <2>4. 0 \in 0 .. N
    BY <1>4
  <2> QED BY ONLY <2>1, <2>2, <2>3, <2>4 DEF q
<1>7. ASSUME NEW k \in 1 .. N, k - 1 \in P PROVE k \in P
  <2> DEFINE q == At(k - 1)
             r == Branch(t, sc, n, q)
  <2>1. /\ q \in M /\ (r = Null \/ hi[q] - lo[q] + (k - 1) < N)
        /\ Sorted(sc, M, at) /\ sc[n] \in Int => Guided(at, lo, hi, sc, M, n, q)
    BY <1>7
  <2>2. k \in Nat \ {0} /\ k \in 0 .. N
    BY <1>4
  <2>3. At(k) = IF r = Null THEN q ELSE r
    <3>1. At(k) = down[q]
      BY <1>3, <2>2
    <3>2. q \in Node
      BY <1>4, <2>1
    <3> QED BY <3>1, <3>2
  <2>4. CASE r = Null
    <3>1. At(k) = q
      BY ONLY <2>3, <2>4
    <3> QED BY ONLY <2>1, <2>2, <2>4, <3>1
  <2>5. CASE r # Null
    <3>1. At(k) = r
      BY ONLY <2>3, <2>5
    <3> HIDE DEF q
    <3>2. r = t.left[q] \/ r = t.right[q]
      BY DEF Branch
    <3>3. r = Branch(t, sc, n, q)
      OBVIOUS
    <3> HIDE DEF r
    <3>4. r \in M /\ ((lo[r] = lo[q] /\ hi[r] = at[q] - 1) \/ (hi[r] = hi[q] /\ lo[r] = at[q] + 1))
      <4>1. CASE r = t.left[q]
        BY ONLY <1>1, <2>1, <2>5, <4>1, LeftChild
      <4>2. CASE r = t.right[q]
        BY ONLY <1>1, <2>1, <2>5, <4>2, RightChild
      <4> QED BY ONLY <3>2, <4>1, <4>2
    <3>5. hi[r] - lo[r] + k < N
      BY ONLY <1>4, <1>5, <2>1, <2>2, <2>5, <3>4
    <3>6. Sorted(sc, M, at) /\ sc[n] \in Int => Guided(at, lo, hi, sc, M, n, r)
      BY ONLY <1>1, <2>1, <2>5, <3>3, n \in Node, n \notin M, GuidedDown
    <3> QED BY ONLY <2>2, <3>1, <3>4, <3>5, <3>6
  <2> QED BY <2>4, <2>5
<1>8. N \in P
  <2> HIDE DEF P
  <2>1. \A i \in 0 .. N : i \in P
    BY ONLY <1>4, <1>6, <1>7, UpToInduction
  <2> QED BY ONLY <1>4, <2>1
<1>9. /\ p \in M /\ (Branch(t, sc, n, p) = Null \/ hi[p] - lo[p] + N < N)
      /\ Sorted(sc, M, at) /\ sc[n] \in Int => Guided(at, lo, hi, sc, M, n, p)
  BY <1>2, <1>8
<1>10. Branch(t, sc, n, p) = Null
  BY ONLY <1>4, <1>5, <1>9
<1> QED BY ONLY <1>1, <1>9, <1>10, n \in Node, n \notin M, GuidedEnd

\* The order with n among the members, at the place j.
LEMMA SortedOpened ==
  ASSUME NEW sc, NEW M \in SUBSET Node, NEW at \in Places, NEW n \in Node, n \notin M, NEW j \in Int,
         Sorted(sc, M, at), sc[n] \in Int,
         \A x \in M : at[x] < j <=> zless(sc[x], x, sc[n], n)
  PROVE  Sorted(sc, M \cup {n}, Opened(at, n, j, j))
<1> DEFINE L(x, y) == zless(sc[x], x, sc[y], y)
           A == M \cup {n}
           at2 == Opened(at, n, j, j)
<1>1. A \subseteq Node /\ \A x \in A : sc[x] \in Int
  BY DEF Sorted
<1>2. /\ \A x, y \in A : x # y => L(x, y) \/ L(y, x)
      /\ \A x, y \in A : L(x, y) => ~ L(y, x)
  BY ONLY <1>1, ZlessOrder
<1>3. at2[n] = j /\ \A x \in M : /\ at2[x] = (IF at[x] >= j THEN at[x] + 1 ELSE at[x])
                                 /\ at[x] \in Int
  BY DEF Opened, Places
<1>4. \A x, y \in M : L(x, y) <=> at[x] < at[y]
  BY DEF Sorted
<1>5. \A x \in M : at[x] < j <=> L(x, n)
  OBVIOUS
<1>6. \A x \in M : x \in A /\ x # n
  OBVIOUS
<1>7. n \in A
  OBVIOUS
<1> HIDE DEF at2, L
<1>8. \A x, y \in M : L(x, y) <=> at2[x] < at2[y]
  BY ONLY <1>3, <1>4, j \in Int
<1>9. \A x \in M : L(x, n) <=> at2[x] < at2[n]
  BY ONLY <1>3, <1>5, j \in Int
<1>10. \A x \in M : L(n, x) <=> at2[n] < at2[x]
  <2>1. \A x \in M : L(n, x) <=> ~ L(x, n)
    BY ONLY <1>2, <1>6, <1>7
  <2> QED BY ONLY <1>3, <1>5, <2>1, j \in Int
<1>11. ~ L(n, n) /\ ~ (at2[n] < at2[n])
  BY ONLY <1>2, <1>3, <1>7, j \in Int
<1>12. \A x, y \in A : L(x, y) <=> at2[x] < at2[y]
  BY ONLY <1>8, <1>9, <1>10, <1>11
<1> QED BY ONLY <1>1, <1>12 DEF Sorted, L, at2

\* tree_insert gives n a place and leaves those of the others as they are in
\* relation to one another.
LEMMA TreeInsert ==
  ASSUME NEW t, NEW M, NEW at, TreeOK(t, M, at), NEW sc, NEW n \in Node, n \notin M,
         NEW v, v = tree_insert(t, sc, n)
  PROVE  \E at2 : /\ TreeOK(v, M \cup {n}, at2)
                  /\ Sorted(sc, M, at) /\ sc[n] \in Int => Sorted(sc, M \cup {n}, at2)
<1> DEFINE p == InsertionPoint(t, sc, n)
           A == M \cup {n}
           linked == IF t.root = Null THEN [t EXCEPT !.root = n]
                     ELSE IF zless(sc[n], n, sc[p], p)
                       THEN [t EXCEPT !.left[p] = n, !.parent[n] = p]
                     ELSE [t EXCEPT !.right[p] = n, !.parent[n] = p]
<1>1. v = fix(linked, n)
  BY DEF tree_insert
<1>2. Sound(t, M, at) /\ Fresh(t, M)
  BY DEF TreeOK
<1>3. /\ t \in Tree /\ M \in SUBSET Node /\ at \in Places /\ Null \notin M
      /\ t.root = Null <=> M = {}
  BY <1>2, SoundTree
<1>4. t.parent[n] = Null /\ t.left[n] = Null /\ t.right[n] = Null /\ n # Null /\ n \in NullOr
  BY <1>2, NodeAssumption DEF Fresh, NullOr
<1>5. ASSUME NEW at2, \E lo2, hi2 : ToFix(linked, A, at2, lo2, hi2, n, 0), Rest(t, linked, A)
      PROVE  TreeOK(v, A, at2)
  <2> HIDE DEF linked
  <2>1. Sound(v, A, at2) /\ Rest(linked, v, A)
    BY <1>1, <1>5, FixEnds
  <2>2. Rest(t, v, A)
    BY ONLY <1>5, <2>1, RestChain
  <2>3. Fresh(v, A)
    BY ONLY <1>2, <2>2 DEF Fresh, Rest
  <2> QED BY ONLY <2>1, <2>3 DEF TreeOK
<1>6. CASE t.root = Null
  <2> DEFINE at2 == [x \in Node |-> 1]
  <2>1. M = {} /\ A = {n} /\ at2 \in Places /\ at2[n] = 1
    BY <1>3, <1>6 DEF Places
  <2>2. /\ linked \in Tree /\ linked.root = n /\ linked.left = t.left /\ linked.right = t.right
        /\ linked.parent = t.parent /\ linked.height = t.height /\ linked.count = t.count
    BY <1>3, <1>4, <1>6 DEF Tree
  <2> HIDE DEF linked, at2
  <2>3. ToFix(linked, A, at2, at2, at2, n, 0)
    BY ONLY <1>4, <2>1, <2>2, n \in Node, FirstToFix
  <2>4. Rest(t, linked, A)
    BY <2>2 DEF Rest
  <2>5. TreeOK(v, A, at2)
    BY <1>5, <2>3, <2>4
  <2>6. sc[n] \in Int => Sorted(sc, A, at2)
    <3> SUFFICES ASSUME sc[n] \in Int PROVE Sorted(sc, A, at2)
      OBVIOUS
    <3>1. ~ zless(sc[n], n, sc[n], n)
      <4>1. n \in Int
        BY NameAssumption
      <4> QED BY <4>1, ZlessInt
    <3>2. ~ (at2[n] < at2[n])
      BY ONLY <2>1
    <3> QED BY ONLY <2>1, <3>1, <3>2, sc[n] \in Int DEF Sorted
  <2> QED BY ONLY <2>5, <2>6
<1>7. CASE t.root # Null
  <2> HIDE DEF p
  <2>1. /\ p \in M /\ Branch(t, sc, n, p) = Null
        /\ Sorted(sc, M, at) /\ sc[n] \in Int =>
             \A x \in M : at[x] < PlaceBelow(at, sc, n, p) <=> zless(sc[x], x, sc[n], n)
    <3>1. p = InsertionPoint(t, sc, n)
      BY DEF p
    <3> QED BY ONLY <1>2, <1>7, <3>1, n \in Node, n \notin M, InsertionPointIs
  <2> DEFINE j == PlaceBelow(at, sc, n, p)
             at2 == Opened(at, n, j, j)
  <2>2. p \in Node /\ p \in NullOr /\ p # n /\ at[p] \in Int /\ j \in Int
    BY <1>3, <2>1 DEF NullOr, Places, PlaceBelow
  <2>3. linked \in Tree /\ Joined(t, linked, at, n, p, j)
    <3>1. CASE zless(sc[n], n, sc[p], p)
      <4>1. j = at[p] /\ t.left[p] = Null
        BY <2>1, <3>1 DEF Branch, PlaceBelow
      <4>2. linked = [t EXCEPT !.left[p] = n, !.parent[n] = p]
        BY <1>7, <3>1
      <4> HIDE DEF linked, j
      <4>3. /\ linked \in Tree /\ linked.root = t.root /\ linked.height = t.height
            /\ linked.count = t.count /\ linked.right = t.right
            /\ \A x \in Node : /\ linked.parent[x] = (IF x = n THEN p ELSE t.parent[x])
                               /\ linked.left[x] = (IF x = p THEN n ELSE t.left[x])
        BY <1>3, <1>4, <2>2, <4>2 DEF Tree
      <4> QED BY ONLY <1>4, <4>1, <4>3 DEF Joined
    <3>2. CASE ~ zless(sc[n], n, sc[p], p)
      <4>1. j = at[p] + 1 /\ t.right[p] = Null
        BY <2>1, <3>2 DEF Branch, PlaceBelow
      <4>2. linked = [t EXCEPT !.right[p] = n, !.parent[n] = p]
        BY <1>7, <3>2
      <4> HIDE DEF linked, j
      <4>3. /\ linked \in Tree /\ linked.root = t.root /\ linked.height = t.height
            /\ linked.count = t.count /\ linked.left = t.left
            /\ \A x \in Node : /\ linked.parent[x] = (IF x = n THEN p ELSE t.parent[x])
                               /\ linked.right[x] = (IF x = p THEN n ELSE t.right[x])
        BY <1>3, <1>4, <2>2, <4>2 DEF Tree
      <4> QED BY ONLY <1>4, <4>1, <4>3 DEF Joined
    <3> QED BY <3>1, <3>2
  <2> HIDE DEF linked, j
  <2>4. \E lo2, hi2 : ToFix(linked, A, at2, lo2, hi2, n, 0)
    BY ONLY <1>2, <2>1, <2>3, n \in Node, n \notin M, JoinedToFix
  <2>5. Rest(t, linked, A)
    <3>1. p \in A
      BY <2>1
    <3> QED BY <2>3, <3>1 DEF Rest, Joined
  <2>6. TreeOK(v, A, at2)
    BY <1>5, <2>4, <2>5
  <2>7. Sorted(sc, M, at) /\ sc[n] \in Int => Sorted(sc, A, at2)
    BY ONLY <1>3, <2>1, <2>2, n \in Node, n \notin M, SortedOpened DEF j
  <2> HIDE DEF at2
  <2> QED BY ONLY <2>6, <2>7
<1> QED BY <1>6, <1>7

\* Removed also gives the node its first values, and leaves the order of the
\* others as it was.
LEMMA TreeRemove ==
  ASSUME NEW t, NEW M, NEW at, TreeOK(t, M, at), NEW n \in M, NEW v, v = Removed(t, n)
  PROVE  \E at2 : /\ TreeOK(v, M \ {n}, at2)
                  /\ \A sc, sc2 : Sorted(sc, M, at) /\ (\A x \in M \ {n} : sc2[x] = sc[x])
                                    => Sorted(sc2, M \ {n}, at2)
<1> DEFINE u == del(t, n)
           M2 == M \ {n}
<1>1. PICK at2 : /\ Sound(u, M2, at2) /\ Rest(t, u, M)
                 /\ \A x \in M2 : at2[x] = IF at[x] > at[n] THEN at[x] - 1 ELSE at[x]
  <2>1. PICK z : z = del(t, n)
    OBVIOUS
  <2>2. \E at3 : /\ Sound(z, M \ {n}, at3) /\ Rest(t, z, M)
                 /\ \A x \in M \ {n} : at3[x] = IF at[x] > at[n] THEN at[x] - 1 ELSE at[x]
    BY ONLY <2>1, TreeOK(t, M, at), n \in M, DelSound
  <2> QED BY <2>1, <2>2
<1>2. PICK lo, hi : Shape(t, M, at, lo, hi)
  BY DEF TreeOK, Sound
<1>3. /\ M \subseteq Node /\ n \in Node /\ \A x \in M : at[x] \in Int
      /\ \A x \in M2 : at[x] # at[n]
  BY <1>2, ShapeNode DEF Shape
<1>4. v = AVLNode(u, n)
  BY DEF Removed
<1>5. u \in Tree
  BY <1>1, SoundTree
<1>6. Fresh(t, M)
  BY DEF TreeOK
<1> HIDE DEF u
<1>7. /\ v \in Tree /\ v.root = u.root
      /\ v.parent = [u.parent EXCEPT ![n] = Null] /\ v.left = [u.left EXCEPT ![n] = Null]
      /\ v.right = [u.right EXCEPT ![n] = Null] /\ v.height = [u.height EXCEPT ![n] = 1]
      /\ v.count = [u.count EXCEPT ![n] = 1]
  BY ONLY <1>3, <1>4, <1>5, AVLNodeFields
<1>8. /\ \A x \in Node \ {n} :
           /\ v.parent[x] = u.parent[x] /\ v.left[x] = u.left[x] /\ v.right[x] = u.right[x]
           /\ v.height[x] = u.height[x] /\ v.count[x] = u.count[x]
      /\ v.parent[n] = Null /\ v.left[n] = Null /\ v.right[n] = Null
      /\ v.height[n] = 1 /\ v.count[n] = 1
  BY ONLY <1>3, <1>5, <1>7, TreeFields
<1>9. Sound(v, M2, at2)
  <2>1. \A x \in M2 : x \in Node \ {n}
    BY <1>3
  <2>2. v \in Tree /\ v.root = u.root /\ Sound(u, M2, at2)
    BY ONLY <1>1, <1>7
  <2>3. \A x \in M2 :
          /\ v.parent[x] = u.parent[x] /\ v.left[x] = u.left[x] /\ v.right[x] = u.right[x]
          /\ v.height[x] = u.height[x] /\ v.count[x] = u.count[x]
    BY ONLY <1>8, <2>1
  <2> HIDE DEF M2
  <2> QED BY ONLY <2>2, <2>3, SoundSame
<1>10. Fresh(v, M2)
  <2>1. ASSUME NEW x \in Node \ M2
        PROVE  /\ v.parent[x] = Null /\ v.left[x] = Null /\ v.right[x] = Null
               /\ v.height[x] = 1 /\ v.count[x] = 1
    <3>1. CASE x = n
      BY ONLY <1>8, <3>1
    <3>2. CASE x # n
      <4>1. x \in Node \ M
        BY <3>2
      <4> QED BY ONLY <1>1, <1>6, <1>8, <3>2, <4>1 DEF Fresh, Rest
    <3> QED BY <3>1, <3>2
  <2> QED BY ONLY <2>1 DEF Fresh
<1>11. ASSUME NEW sc, NEW sc2, Sorted(sc, M, at), \A x \in M2 : sc2[x] = sc[x]
       PROVE  Sorted(sc2, M2, at2)
  <2>1. \A x, y \in M2 : /\ sc2[x] \in Int
                         /\ zless(sc2[x], x, sc2[y], y) <=> at[x] < at[y]
    BY <1>11 DEF Sorted
  <2>2. \A x, y \in M2 : at[x] < at[y] <=> at2[x] < at2[y]
    BY ONLY <1>1, <1>3, n \in M DEF M2
  <2> QED BY ONLY <2>1, <2>2 DEF Sorted
<1> QED BY ONLY <1>9, <1>10, <1>11 DEF TreeOK, M2

-----------------------------------------------------------------------------
(* The lists of a tree's nodes. *)

\* The members from one place to another.
Inside(M, at, a, b) == {x \in M : a <= at[x] /\ at[x] <= b}

\* A list of these nodes, each once.
Lists(list, S) == list \in Seq(Node) /\ IsInjective(list) /\ ToSet(list) = S

\* The nodes at these places, in order.
InPlaces(list, M, at, a, b) ==
  /\ list \in Seq(Node) /\ Len(list) = b - a + 1
  /\ \A i \in 1 .. Len(list) : list[i] \in M /\ at[list[i]] = a + i - 1

\* A subtree is a node, what is left of it and what is right of it.
LEMMA InsideSplit ==
  ASSUME NEW t, NEW M, NEW at, NEW lo, NEW hi, Shape(t, M, at, lo, hi), NEW n \in M
  PROVE  /\ Inside(M, at, lo[n], hi[n]) =
              {n} \cup Inside(M, at, lo[n], at[n] - 1) \cup Inside(M, at, at[n] + 1, hi[n])
         /\ n \notin Inside(M, at, lo[n], at[n] - 1) /\ n \notin Inside(M, at, at[n] + 1, hi[n])
         /\ Inside(M, at, lo[n], at[n] - 1) \cap Inside(M, at, at[n] + 1, hi[n]) = {}
<1>1. \A x \in M : at[x] \in Int /\ (at[x] = at[n] => x = n)
  BY ShapeNode DEF Shape
<1>2. lo[n] \in Int /\ hi[n] \in Int /\ lo[n] <= at[n] /\ at[n] <= hi[n]
  BY ShapeNode
<1>3. \A x : x \in Inside(M, at, lo[n], hi[n]) <=>
               \/ x = n \/ x \in Inside(M, at, lo[n], at[n] - 1)
               \/ x \in Inside(M, at, at[n] + 1, hi[n])
  BY ONLY <1>1, <1>2, n \in M DEF Inside
<1>4. /\ n \notin Inside(M, at, lo[n], at[n] - 1) /\ n \notin Inside(M, at, at[n] + 1, hi[n])
      /\ \A x : ~ (x \in Inside(M, at, lo[n], at[n] - 1) /\ x \in Inside(M, at, at[n] + 1, hi[n]))
  BY ONLY <1>1, <1>2, n \in M DEF Inside
<1> QED BY ONLY <1>3, <1>4

\* A node before two lists.
LEMMA ListsJoin ==
  ASSUME NEW n \in Node, NEW a, NEW b, NEW A, NEW B, Lists(a, A), Lists(b, B),
         n \notin A, n \notin B, A \cap B = {}
  PROVE  Lists(<<n>> \o a \o b, {n} \cup A \cup B)
<1> DEFINE w == <<n>>
           c == w \o a
<1>1. w \in Seq(Node) /\ ToSet(w) = {n} /\ IsInjective(w)
  BY DEF ToSet, IsInjective
<1> HIDE DEF w
<1>2. /\ a \in Seq(Node) /\ IsInjective(a) /\ ToSet(a) = A
      /\ b \in Seq(Node) /\ IsInjective(b) /\ ToSet(b) = B
  BY DEF Lists
<1>3. c \in Seq(Node) /\ IsInjective(c) /\ ToSet(c) = {n} \cup A
  <2>1. ToSet(w) \cap ToSet(a) = {}
    BY <1>1, <1>2
  <2> QED BY ONLY <1>1, <1>2, <2>1, ConcatDistinct
<1> HIDE DEF c
<1>4. c \o b \in Seq(Node) /\ IsInjective(c \o b) /\ ToSet(c \o b) = {n} \cup A \cup B
  <2>1. ToSet(c) \cap ToSet(b) = {}
    BY <1>2, <1>3
  <2> QED BY ONLY <1>2, <1>3, <2>1, ConcatDistinct
<1> QED BY <1>4 DEF Lists, c, w

\* A node between two lists.
LEMMA InPlacesJoin ==
  ASSUME NEW M, NEW at, NEW n \in Node, n \in M, NEW lo \in Int, NEW hi \in Int, NEW i \in Int,
         at[n] = i, lo <= i, i <= hi,
         NEW a, NEW b, InPlaces(a, M, at, lo, i - 1), InPlaces(b, M, at, i + 1, hi)
  PROVE  InPlaces(a \o <<n>> \o b, M, at, lo, hi)
<1> DEFINE w == <<n>>
           c == a \o w
           d == c \o b
<1>1. w \in Seq(Node) /\ Len(w) = 1 /\ w[1] = n
  OBVIOUS
<1> HIDE DEF w
<1>2. /\ a \in Seq(Node) /\ Len(a) = i - lo
      /\ \A j \in 1 .. Len(a) : a[j] \in M /\ at[a[j]] = lo + j - 1
      /\ b \in Seq(Node) /\ Len(b) = hi - i
      /\ \A j \in 1 .. Len(b) : b[j] \in M /\ at[b[j]] = i + j
  <2>1. /\ a \in Seq(Node) /\ Len(a) = (i - 1) - lo + 1
        /\ \A j \in 1 .. Len(a) : a[j] \in M /\ at[a[j]] = lo + j - 1
        /\ b \in Seq(Node) /\ Len(b) = hi - (i + 1) + 1
        /\ \A j \in 1 .. Len(b) : b[j] \in M /\ at[b[j]] = (i + 1) + j - 1
    BY DEF InPlaces
  <2>2. \A j \in 1 .. Len(b) : (i + 1) + j - 1 = i + j
    BY <2>1
  <2>3. (i - 1) - lo + 1 = i - lo /\ hi - (i + 1) + 1 = hi - i
    OBVIOUS
  <2> QED BY ONLY <2>1, <2>2, <2>3
<1>0. \A x, y \in Seq(Node) :
         /\ x \o y \in Seq(Node) /\ Len(x \o y) = Len(x) + Len(y)
         /\ \A j \in 1 .. Len(x) : (x \o y)[j] = x[j]
         /\ \A j \in 1 .. Len(y) : (x \o y)[Len(x) + j] = y[j]
  BY ConcatItems
<1>3. /\ c \in Seq(Node) /\ Len(c) = Len(a) + Len(w) /\ \A j \in 1 .. Len(a) : c[j] = a[j]
      /\ \A j \in 1 .. Len(w) : c[Len(a) + j] = w[j]
  BY ONLY <1>0, <1>1, <1>2
<1> HIDE DEF c
<1>4. /\ d \in Seq(Node) /\ Len(d) = Len(c) + Len(b) /\ \A j \in 1 .. Len(c) : d[j] = c[j]
      /\ \A j \in 1 .. Len(b) : d[Len(c) + j] = b[j]
  BY ONLY <1>0, <1>2, <1>3
<1> HIDE DEF d
<1>5. Len(d) = hi - lo + 1 /\ Len(c) = i - lo + 1 /\ Len(a) = i - lo /\ i - lo \in Nat
  BY ONLY <1>1, <1>2, <1>3, <1>4, lo \in Int, hi \in Int, i \in Int, lo <= i
<1>6. ASSUME NEW j \in 1 .. Len(d) PROVE d[j] \in M /\ at[d[j]] = lo + j - 1
  <2>1. j \in Int /\ 1 <= j /\ j <= hi - lo + 1
    BY <1>5
  <2>2. CASE j <= i - lo
    <3>1. j \in 1 .. Len(a) /\ j \in 1 .. Len(c)
      BY ONLY <1>5, <2>1, <2>2, i \in Int, lo \in Int
    <3>2. d[j] = c[j] /\ c[j] = a[j]
      BY ONLY <1>3, <1>4, <3>1
    <3> QED BY ONLY <1>2, <3>1, <3>2
  <2>3. CASE j = i - lo + 1
    <3>1. j \in 1 .. Len(c) /\ 1 \in 1 .. Len(w) /\ Len(a) + 1 = j
      BY ONLY <1>1, <1>5, <2>1, <2>3, i \in Int, lo \in Int
    <3>2. d[j] = n
      BY ONLY <1>1, <1>3, <1>4, <3>1
    <3> QED BY ONLY <2>1, <2>3, <3>2, n \in M, at[n] = i, i \in Int, lo \in Int
  <2>4. CASE j > i - lo + 1
    <3> DEFINE m == j - (i - lo + 1)
    <3>1. m \in 1 .. Len(b) /\ Len(c) + m = j /\ i + m = lo + j - 1
      BY ONLY <1>2, <1>5, <2>1, <2>4, i \in Int, lo \in Int, hi \in Int
    <3> HIDE DEF m
    <3>2. d[j] = b[m]
      BY ONLY <1>4, <3>1
    <3> QED BY ONLY <1>2, <3>1, <3>2
  <2> QED BY ONLY <2>1, <2>2, <2>3, <2>4, i \in Int, lo \in Int
<1>7. InPlaces(d, M, at, lo, hi)
  BY ONLY <1>4, <1>5, <1>6 DEF InPlaces
<1> QED BY ONLY <1>7 DEF d, c, w

\* The recursion of set_cpy comes to every member once.
LEMMA PreorderIs ==
  ASSUME NEW t, NEW M, NEW at, Sound(t, M, at)
  PROVE  Lists(Preorder(t), M)
<1> DEFINE L == [NullOr -> Seq(Node)]
           next(list) == [n \in NullOr |-> IF n = Null THEN <<>>
                            ELSE <<n>> \o list[t.left[n]] \o list[t.right[n]]]
           deeper == [list \in L |-> next(list)]
           empty == [n \in NullOr |-> <<>>]
           At(k) == Iterate(deeper, empty, k)
           N == PathBound
<1>1. PICK lo, hi : Shape(t, M, at, lo, hi)
  BY DEF Sound
<1>2. /\ t \in Tree /\ M \subseteq Node /\ Null \notin M /\ N \in Nat
      /\ Cardinality(M) \in Nat /\ Cardinality(M) <= N
  BY <1>1, ShapeSize, NodeAssumption DEF Shape
<1>3. At(0) = empty /\ \A k \in Nat \ {0} : At(k) = deeper[At(k - 1)]
  <2>1. \A r, s : /\ Iterate(r, s, 0) = s
                  /\ \A k \in Nat \ {0} : Iterate(r, s, k) = r[Iterate(r, s, k - 1)]
    BY ONLY IterateSteps
  <2> HIDE DEF empty, deeper
  <2> QED BY ONLY <2>1, Zenon
<1>4. Preorder(t) = At(N)[t.root]
  BY DEF Preorder
<1> DEFINE Good(list, k) == /\ list \in L /\ list[Null] = <<>>
                            /\ \A x \in M : hi[x] - lo[x] < k =>
                                 Lists(list[x], Inside(M, at, lo[x], hi[x]))
           P == {k \in 0 .. N : Good(At(k), k)}
<1>5. /\ \A list \in L : next(list) \in L /\ next(list)[Null] = <<>>
      /\ \A list \in L : \A x \in M : next(list)[x] = <<x>> \o list[t.left[x]] \o list[t.right[x]]
  <2>1. \A x \in Node : t.left[x] \in NullOr /\ t.right[x] \in NullOr
    BY <1>2, TreeFields
  <2>2. ASSUME NEW list \in L PROVE next(list) \in L
    <3>1. ASSUME NEW n \in NullOr
          PROVE (IF n = Null THEN <<>> ELSE <<n>> \o list[t.left[n]] \o list[t.right[n]]) \in Seq(Node)
      <4>1. CASE n = Null
        BY <4>1
      <4>2. CASE n # Null
        <5>1. n \in Node
          BY <3>1, <4>2 DEF NullOr
        <5>2. <<n>> \in Seq(Node) /\ list[t.left[n]] \in Seq(Node) /\ list[t.right[n]] \in Seq(Node)
          BY <2>1, <5>1
        <5> QED BY ONLY <4>2, <5>2
      <4> QED BY <4>1, <4>2
    <3> QED BY <3>1
  <2>3. Null \in NullOr /\ \A x \in M : x \in NullOr /\ x # Null
    BY <1>2 DEF NullOr
  <2> QED BY <2>2, <2>3
<1>6. deeper = [list \in L |-> next(list)]
  OBVIOUS
<1>7. empty \in L /\ empty[Null] = <<>>
  BY DEF NullOr
<1> HIDE DEF next, At, empty
<1>8. \A list \in L : deeper[list] = next(list)
  BY <1>6
<1> HIDE DEF deeper
<1>9. 0 \in P
  <2>1. \A x \in M : ~ (hi[x] - lo[x] < 0)
    BY <1>1, ShapeNode
  <2>2. 0 \in 0 .. N
    BY <1>2
  <2> QED BY <1>3, <1>7, <2>1, <2>2
<1>10. ASSUME NEW k \in 1 .. N, k - 1 \in P PROVE k \in P
  <2> DEFINE list == At(k - 1)
  <2>1. Good(list, k - 1)
    BY <1>10
  <2>2. k \in Nat \ {0} /\ k \in 0 .. N
    BY <1>2
  <2>3. At(k) = deeper[list]
    BY ONLY <1>3, <2>2
  <2> HIDE DEF list, L
  <2>4. At(k) = next(list) /\ next(list) \in L /\ next(list)[Null] = <<>>
    BY ONLY <1>5, <1>8, <2>1, <2>3
  <2>5. ASSUME NEW x \in M, hi[x] - lo[x] < k
        PROVE  Lists(next(list)[x], Inside(M, at, lo[x], hi[x]))
    <3> DEFINE l == t.left[x]
               r == t.right[x]
               A == Inside(M, at, lo[x], at[x] - 1)
               B == Inside(M, at, at[x] + 1, hi[x])
    <3>1. /\ at[x] \in Int /\ lo[x] \in Int /\ hi[x] \in Int /\ lo[x] <= at[x] /\ at[x] <= hi[x]
          /\ LeftShape(t, M, at, lo, hi, x) /\ RightShape(t, M, at, lo, hi, x) /\ x \in Node
      BY ONLY <1>1, <2>5, ShapeNode
    <3>2. Lists(<<>>, {})
      BY ONLY <1>2 DEF Lists, ToSet, IsInjective
    <3>3. \A y \in M : at[y] \in Int
      BY <1>1, ShapeNode
    <3>4. Lists(list[l], A)
      <4>1. CASE l = Null
        <5>1. A = {}
          BY ONLY <3>1, <3>3, <4>1 DEF Inside, LeftShape
        <5> QED BY ONLY <2>1, <3>2, <4>1, <5>1
      <4>2. CASE l # Null
        <5>1. l \in M /\ lo[l] = lo[x] /\ hi[l] = at[x] - 1
          BY ONLY <3>1, <4>2 DEF LeftShape
        <5>2. hi[l] - lo[l] < k - 1
          BY ONLY <2>2, <2>5, <3>1, <5>1
        <5> QED BY ONLY <2>1, <5>1, <5>2
      <4> QED BY <4>1, <4>2
    <3>5. Lists(list[r], B)
      <4>1. CASE r = Null
        <5>1. B = {}
          BY ONLY <3>1, <3>3, <4>1 DEF Inside, RightShape
        <5> QED BY ONLY <2>1, <3>2, <4>1, <5>1
      <4>2. CASE r # Null
        <5>1. r \in M /\ hi[r] = hi[x] /\ lo[r] = at[x] + 1
          BY ONLY <3>1, <4>2 DEF RightShape
        <5>2. hi[r] - lo[r] < k - 1
          BY ONLY <2>2, <2>5, <3>1, <5>1
        <5> QED BY ONLY <2>1, <5>1, <5>2
      <4> QED BY <4>1, <4>2
    <3>6. /\ Inside(M, at, lo[x], hi[x]) = {x} \cup A \cup B
          /\ x \notin A /\ x \notin B /\ A \cap B = {}
      BY ONLY <1>1, <2>5, InsideSplit
    <3>7. next(list)[x] = <<x>> \o list[l] \o list[r]
      BY ONLY <1>5, <2>1, <2>5
    <3> HIDE DEF l, r, A, B
    <3>8. Lists(<<x>> \o list[l] \o list[r], {x} \cup A \cup B)
      BY ONLY <3>1, <3>4, <3>5, <3>6, ListsJoin
    <3> QED BY ONLY <3>6, <3>7, <3>8
  <2> QED BY ONLY <2>2, <2>4, <2>5
<1>11. N \in P
  <2> HIDE DEF P, N
  <2>1. \A i \in 0 .. N : i \in P
    BY ONLY <1>2, <1>9, <1>10, UpToInduction
  <2> QED BY ONLY <1>2, <2>1
<1>12. Good(At(N), N)
  BY <1>11
<1>13. CASE t.root = Null
  <2>1. M = {}
    BY ONLY <1>1, <1>13 DEF Shape, RootShape
  <2>2. Lists(<<>>, {})
    BY ONLY <1>2 DEF Lists, ToSet, IsInjective
  <2>3. Preorder(t) = <<>>
    BY ONLY <1>4, <1>12, <1>13
  <2> QED BY ONLY <2>1, <2>2, <2>3
<1>14. CASE t.root # Null
  <2>1. t.root \in M /\ lo[t.root] = 1 /\ hi[t.root] = Cardinality(M)
    BY ONLY <1>1, <1>14 DEF Shape, RootShape
  <2>2. hi[t.root] - lo[t.root] < N
    BY ONLY <1>2, <2>1
  <2>3. \A x \in M : at[x] \in Int /\ 1 <= at[x] /\ at[x] <= Cardinality(M)
    <3>1. \A x \in M : /\ at[x] \in Int /\ lo[x] \in Int /\ hi[x] \in Int /\ 1 <= lo[x]
                       /\ lo[x] <= at[x] /\ at[x] <= hi[x] /\ hi[x] <= Cardinality(M)
      BY <1>1, ShapeNode
    <3> QED BY ONLY <1>2, <3>1
  <2>4. Inside(M, at, lo[t.root], hi[t.root]) = M
    BY ONLY <2>1, <2>3 DEF Inside
  <2> QED BY ONLY <1>4, <1>12, <2>1, <2>2, <2>4
<1> QED BY <1>13, <1>14

\* Listing has every member at its place.
LEMMA ListingIs ==
  ASSUME NEW M, NEW at, Sound(tree, M, at)
  PROVE  InPlaces(Listing, M, at, 1, Cardinality(M))
<1> DEFINE L == [NullOr -> Seq(Node)]
           next(list) == [n \in NullOr |-> IF n = Null THEN <<>>
                            ELSE list[tree.left[n]] \o <<n>> \o list[tree.right[n]]]
           deeper == [list \in L |-> next(list)]
           empty == [n \in NullOr |-> <<>>]
           At(k) == Iterate(deeper, empty, k)
           N == PathBound
<1>1. PICK lo, hi : Shape(tree, M, at, lo, hi)
  BY DEF Sound
<1>2. /\ tree \in Tree /\ M \subseteq Node /\ Null \notin M /\ N \in Nat
      /\ Cardinality(M) \in Nat /\ Cardinality(M) <= N
  BY <1>1, ShapeSize, NodeAssumption DEF Shape
<1>3. At(0) = empty /\ \A k \in Nat \ {0} : At(k) = deeper[At(k - 1)]
  <2>1. \A r, s : /\ Iterate(r, s, 0) = s
                  /\ \A k \in Nat \ {0} : Iterate(r, s, k) = r[Iterate(r, s, k - 1)]
    BY ONLY IterateSteps
  <2> HIDE DEF empty, deeper
  <2> QED BY ONLY <2>1, Zenon
<1>4. Listing = At(N)[tree.root]
  BY DEF Listing
<1> DEFINE Good(list, k) == /\ list \in L /\ list[Null] = <<>>
                            /\ \A x \in M : hi[x] - lo[x] < k =>
                                 InPlaces(list[x], M, at, lo[x], hi[x])
           P == {k \in 0 .. N : Good(At(k), k)}
<1>5. /\ \A list \in L : next(list) \in L /\ next(list)[Null] = <<>>
      /\ \A list \in L : \A x \in M : next(list)[x] = list[tree.left[x]] \o <<x>> \o list[tree.right[x]]
  <2>1. \A x \in Node : tree.left[x] \in NullOr /\ tree.right[x] \in NullOr
    BY <1>2, TreeFields
  <2>2. ASSUME NEW list \in L PROVE next(list) \in L
    <3>1. ASSUME NEW n \in NullOr
          PROVE (IF n = Null THEN <<>> ELSE list[tree.left[n]] \o <<n>> \o list[tree.right[n]]) \in Seq(Node)
      <4>1. CASE n = Null
        BY <4>1
      <4>2. CASE n # Null
        <5>1. n \in Node
          BY <3>1, <4>2 DEF NullOr
        <5>2. <<n>> \in Seq(Node) /\ list[tree.left[n]] \in Seq(Node) /\ list[tree.right[n]] \in Seq(Node)
          BY <2>1, <5>1
        <5> QED BY ONLY <4>2, <5>2
      <4> QED BY <4>1, <4>2
    <3> QED BY <3>1
  <2>3. Null \in NullOr /\ \A x \in M : x \in NullOr /\ x # Null
    BY <1>2 DEF NullOr
  <2> QED BY <2>2, <2>3
<1>6. deeper = [list \in L |-> next(list)]
  OBVIOUS
<1>7. empty \in L /\ empty[Null] = <<>>
  BY DEF NullOr
<1> HIDE DEF next, At, empty
<1>8. \A list \in L : deeper[list] = next(list)
  BY <1>6
<1> HIDE DEF deeper
<1>9. 0 \in P
  <2>1. \A x \in M : ~ (hi[x] - lo[x] < 0)
    BY <1>1, ShapeNode
  <2>2. 0 \in 0 .. N
    BY <1>2
  <2> QED BY <1>3, <1>7, <2>1, <2>2
<1>10. ASSUME NEW k \in 1 .. N, k - 1 \in P PROVE k \in P
  <2> DEFINE list == At(k - 1)
  <2>1. Good(list, k - 1)
    BY <1>10
  <2>2. k \in Nat \ {0} /\ k \in 0 .. N
    BY <1>2
  <2>3. At(k) = deeper[list]
    BY ONLY <1>3, <2>2
  <2> HIDE DEF list, L
  <2>4. At(k) = next(list) /\ next(list) \in L /\ next(list)[Null] = <<>>
    BY ONLY <1>5, <1>8, <2>1, <2>3
  <2>5. ASSUME NEW x \in M, hi[x] - lo[x] < k
        PROVE  InPlaces(next(list)[x], M, at, lo[x], hi[x])
    <3> DEFINE l == tree.left[x]
               r == tree.right[x]
    <3>1. /\ at[x] \in Int /\ lo[x] \in Int /\ hi[x] \in Int /\ lo[x] <= at[x] /\ at[x] <= hi[x]
          /\ LeftShape(tree, M, at, lo, hi, x) /\ RightShape(tree, M, at, lo, hi, x) /\ x \in Node
      BY ONLY <1>1, <2>5, ShapeNode
    <3>2. \A a, b \in Int : b = a - 1 => InPlaces(<<>>, M, at, a, b)
      BY ONLY <1>2 DEF InPlaces
    <3>4. InPlaces(list[l], M, at, lo[x], at[x] - 1)
      <4>1. CASE l = Null
        <5>1. lo[x] = at[x]
          BY ONLY <3>1, <4>1 DEF LeftShape
        <5>2. at[x] - 1 \in Int /\ at[x] - 1 = lo[x] - 1
          BY ONLY <3>1, <5>1
        <5> QED BY ONLY <2>1, <3>1, <3>2, <4>1, <5>2
      <4>2. CASE l # Null
        <5>1. l \in M /\ lo[l] = lo[x] /\ hi[l] = at[x] - 1
          BY ONLY <3>1, <4>2 DEF LeftShape
        <5>2. hi[l] - lo[l] < k - 1
          BY ONLY <2>2, <2>5, <3>1, <5>1
        <5> QED BY ONLY <2>1, <5>1, <5>2
      <4> QED BY <4>1, <4>2
    <3>5. InPlaces(list[r], M, at, at[x] + 1, hi[x])
      <4>1. CASE r = Null
        <5>1. hi[x] = at[x]
          BY ONLY <3>1, <4>1 DEF RightShape
        <5>2. at[x] + 1 \in Int /\ hi[x] = (at[x] + 1) - 1
          BY ONLY <3>1, <5>1
        <5> QED BY ONLY <2>1, <3>1, <3>2, <4>1, <5>2
      <4>2. CASE r # Null
        <5>1. r \in M /\ hi[r] = hi[x] /\ lo[r] = at[x] + 1
          BY ONLY <3>1, <4>2 DEF RightShape
        <5>2. hi[r] - lo[r] < k - 1
          BY ONLY <2>2, <2>5, <3>1, <5>1
        <5> QED BY ONLY <2>1, <5>1, <5>2
      <4> QED BY <4>1, <4>2
    <3>7. next(list)[x] = list[l] \o <<x>> \o list[r]
      BY ONLY <1>5, <2>1, <2>5
    <3> HIDE DEF l, r
    <3>8. InPlaces(list[l] \o <<x>> \o list[r], M, at, lo[x], hi[x])
      BY ONLY <2>5, <3>1, <3>4, <3>5, InPlacesJoin
    <3> QED BY ONLY <3>7, <3>8
  <2> QED BY ONLY <2>2, <2>4, <2>5
<1>11. N \in P
  <2> HIDE DEF P, N
  <2>1. \A i \in 0 .. N : i \in P
    BY ONLY <1>2, <1>9, <1>10, UpToInduction
  <2> QED BY ONLY <1>2, <2>1
<1>12. Good(At(N), N)
  BY <1>11
<1>13. CASE tree.root = Null
  <2>1. M = {} /\ Cardinality(M) = 0
    BY ONLY <1>1, <1>13, FS_EmptySet DEF Shape, RootShape
  <2>2. InPlaces(<<>>, M, at, 1, 0)
    BY ONLY <1>2 DEF InPlaces
  <2>3. Listing = <<>>
    BY ONLY <1>4, <1>12, <1>13
  <2> QED BY ONLY <2>1, <2>2, <2>3
<1>14. CASE tree.root # Null
  <2>1. tree.root \in M /\ lo[tree.root] = 1 /\ hi[tree.root] = Cardinality(M)
    BY ONLY <1>1, <1>14 DEF Shape, RootShape
  <2>2. hi[tree.root] - lo[tree.root] < N
    BY ONLY <1>2, <2>1
  <2> QED BY ONLY <1>4, <1>12, <2>1, <2>2
<1> QED BY <1>13, <1>14

\* The first nodes of a list.
First(list, k) == {list[i] : i \in 1 .. k}

\* The next one is new.
LEMMA FirstNext ==
  ASSUME NEW list \in Seq(Node), IsInjective(list), NEW k \in 1 .. Len(list)
  PROVE  /\ First(list, k) = First(list, k - 1) \cup {list[k]}
         /\ list[k] \notin First(list, k - 1) /\ list[k] \in Node
<1>1. Len(list) \in Nat /\ DOMAIN list = 1 .. Len(list) /\ \A i \in 1 .. Len(list) : list[i] \in Node
  OBVIOUS
<1>2. 1 .. k = (1 .. k - 1) \cup {k}
  BY ONLY <1>1
<1>3. First(list, k) = First(list, k - 1) \cup {list[k]}
  BY ONLY <1>2 DEF First
<1>4. \A i \in 1 .. k - 1 : list[i] # list[k]
  BY ONLY <1>1, IsInjective(list), k \in 1 .. Len(list) DEF IsInjective
<1>5. list[k] \notin First(list, k - 1)
  BY ONLY <1>4 DEF First
<1> QED BY ONLY <1>1, <1>3, <1>5, k \in 1 .. Len(list)

\* The empty tree.
LEMMA EmptyOK ==
  ASSUME NEW at \in Places
  PROVE  /\ TreeOK(EmptyTree, {}, at) /\ EmptyTree \in Tree
         /\ \A sc : Sorted(sc, {}, at)
<1>1. EmptyTree \in Tree
  BY DEF EmptyTree, Tree, NullOr
<1>2. Shape(EmptyTree, {}, at, at, at)
  <2>1. EmptyTree.root = Null
    BY DEF EmptyTree
  <2> QED BY <1>1, <2>1 DEF Shape, RootShape
<1>3. Sound(EmptyTree, {}, at)
  BY <1>2 DEF Sound
<1>4. Fresh(EmptyTree, {})
  BY DEF Fresh, EmptyTree
<1> QED BY <1>1, <1>3, <1>4 DEF TreeOK, Sorted

\* A copy has the same members.
LEMMA CopyIs ==
  ASSUME NEW t, NEW M, NEW at, Sound(t, M, at), NEW sc, NEW v, v = set_cpy(t, sc)
  PROVE  \E at2 : /\ TreeOK(v, M, at2)
                  /\ (\A x \in M : sc[x] \in Int) => Sorted(sc, M, at2)
<1> DEFINE list == Preorder(t)
           S == [done : Nat, tree : Tree]
           round == [s \in S |->
                       [done |-> s.done + 1, tree |-> tree_insert(s.tree, sc, list[s.done + 1])]]
           start == [done |-> 0, tree |-> EmptyTree]
           At(k) == Iterate(round, start, k)
           N == Len(list)
           Numbers == \A x \in M : sc[x] \in Int
           Good(s, k) == /\ s.done = k
                         /\ \E at2 : /\ TreeOK(s.tree, First(list, k), at2)
                                     /\ Numbers => Sorted(sc, First(list, k), at2)
           P == {k \in 0 .. N : At(k) \in S /\ Good(At(k), k)}
<1>1. v = At(N).tree
  BY DEF set_cpy
<1>2. At(0) = start /\ \A k \in Nat \ {0} : At(k) = round[At(k - 1)]
  <2>1. \A r, s : /\ Iterate(r, s, 0) = s
                  /\ \A k \in Nat \ {0} : Iterate(r, s, k) = r[Iterate(r, s, k - 1)]
    BY ONLY IterateSteps
  <2> HIDE DEF start, round
  <2> QED BY ONLY <2>1, Zenon
<1>3. list \in Seq(Node) /\ IsInjective(list) /\ ToSet(list) = M
  BY PreorderIs DEF Lists
<1>4. /\ N \in Nat /\ First(list, 0) = {} /\ First(list, N) = M
      /\ \A k \in 1 .. N : list[k] \in M
  <2> HIDE DEF list
  <2>1. DOMAIN list = 1 .. N /\ N \in Nat
    BY <1>3
  <2>2. 1 .. 0 = {}
    OBVIOUS
  <2> QED BY ONLY <1>3, <2>1, <2>2 DEF First, ToSet
<1> HIDE DEF list, At
<1>5. 0 \in P
  <2>1. PICK at2 \in Places : TRUE
    <3>1. [x \in Node |-> 1] \in Places
      BY DEF Places
    <3> QED BY <3>1
  <2>2. start \in S /\ start.done = 0 /\ start.tree = EmptyTree
    BY EmptyOK, <2>1
  <2>3. TreeOK(EmptyTree, {}, at2) /\ Sorted(sc, {}, at2)
    BY EmptyOK, <2>1
  <2>4. 0 \in 0 .. N
    BY <1>4
  <2> HIDE DEF start, S
  <2> QED BY ONLY <1>2, <1>4, <2>2, <2>3, <2>4
<1>6. ASSUME NEW k \in 1 .. N, k - 1 \in P PROVE k \in P
  <2> DEFINE s == At(k - 1)
             x == list[k]
             z == tree_insert(s.tree, sc, x)
  <2>1. s \in S /\ Good(s, k - 1)
    BY <1>6
  <2>2. k \in Nat \ {0} /\ k \in 0 .. N /\ k - 1 \in Nat /\ k - 1 + 1 = k
    BY <1>4
  <2>3. At(k) = round[s]
    BY ONLY <1>2, <2>2
  <2> HIDE DEF s
  <2>4. At(k) = [done |-> k, tree |-> z]
    BY ONLY <2>1, <2>2, <2>3
  <2>5. PICK at2 : /\ TreeOK(s.tree, First(list, k - 1), at2)
                   /\ Numbers => Sorted(sc, First(list, k - 1), at2)
    BY ONLY <2>1
  <2>6. /\ First(list, k) = First(list, k - 1) \cup {x}
        /\ x \notin First(list, k - 1) /\ x \in Node
    BY ONLY <1>3, <1>6, FirstNext
  <2>7. Numbers => sc[x] \in Int
    BY ONLY <1>4, <1>6
  <2> HIDE DEF x, Numbers
  <2>8. PICK y : y = z
    OBVIOUS
  <2>9. PICK at3 : /\ TreeOK(y, First(list, k - 1) \cup {x}, at3)
                   /\ Sorted(sc, First(list, k - 1), at2) /\ sc[x] \in Int
                        => Sorted(sc, First(list, k - 1) \cup {x}, at3)
    BY ONLY <2>5, <2>6, <2>8, TreeInsert
  <2> HIDE DEF z
  <2>10. TreeOK(z, First(list, k), at3) /\ (Numbers => Sorted(sc, First(list, k), at3))
    BY ONLY <2>5, <2>6, <2>7, <2>8, <2>9
  <2>11. z \in Tree
    BY ONLY <2>10, SoundTree DEF TreeOK
  <2> QED BY ONLY <2>2, <2>4, <2>10, <2>11
<1>7. N \in P
  <2> HIDE DEF P, N
  <2>1. \A i \in 0 .. N : i \in P
    BY ONLY <1>4, <1>5, <1>6, UpToInduction
  <2> QED BY ONLY <1>4, <2>1
<1> HIDE DEF N
<1>8. PICK at2 : TreeOK(At(N).tree, First(list, N), at2) /\ (Numbers => Sorted(sc, First(list, N), at2))
  BY ONLY <1>7
<1> QED BY ONLY <1>1, <1>4, <1>8

-----------------------------------------------------------------------------
(* The places of the members. *)

\* list has every member at its place, and the places are those from 1 on.
Placed(list, M, at) ==
  /\ Cardinality(M) \in Nat /\ list \in Seq(Node) /\ Len(list) = Cardinality(M)
  /\ \A i \in 1 .. Cardinality(M) : list[i] \in M /\ at[list[i]] = i
  /\ \A x \in M : at[x] \in 1 .. Cardinality(M) /\ list[at[x]] = x

\* Listing is that list.
LEMMA ListingPlaced ==
  ASSUME NEW M, NEW at, Sound(tree, M, at)
  PROVE  Placed(Listing, M, at)
<1> DEFINE N == Cardinality(M)
<1>1. PICK lo, hi : Shape(tree, M, at, lo, hi)
  BY DEF Sound
<1>2. N \in Nat
  BY <1>1, ShapeSize
<1>3. \A x, y \in M : at[x] = at[y] => x = y
  BY <1>1 DEF Shape
<1>4. \A x \in M : at[x] \in 1 .. N
  <2>1. \A x \in M : /\ at[x] \in Int /\ lo[x] \in Int /\ hi[x] \in Int
                     /\ 1 <= lo[x] /\ lo[x] <= at[x] /\ at[x] <= hi[x] /\ hi[x] <= N
    BY <1>1, ShapeNode
  <2> QED BY ONLY <1>2, <2>1
<1>5. InPlaces(Listing, M, at, 1, N)
  BY ListingIs
<1> HIDE DEF N
<1>6. /\ Listing \in Seq(Node) /\ Len(Listing) = N
      /\ \A i \in 1 .. N : Listing[i] \in M /\ at[Listing[i]] = i
  <2>1. N - 1 + 1 = N /\ \A i \in 1 .. N : 1 + i - 1 = i
    BY <1>2
  <2> QED BY ONLY <1>5, <2>1 DEF InPlaces
<1>7. \A x \in M : Listing[at[x]] = x
  BY ONLY <1>3, <1>4, <1>6
<1> QED BY ONLY <1>2, <1>4, <1>6, <1>7 DEF Placed, N

\* The number of members before a place.
LEMMA CountBefore ==
  ASSUME NEW M, NEW at, NEW list, Placed(list, M, at), NEW j \in 1 .. Cardinality(M) + 1,
         NEW S, S = {x \in M : at[x] < j}
  PROVE  Cardinality(S) = j - 1 /\ IsFiniteSet(S)
<1> DEFINE I == 1 .. j - 1
           f == [i \in I |-> list[i]]
           N == Cardinality(M)
<1>1. /\ N \in Nat /\ \A i \in 1 .. N : list[i] \in M /\ at[list[i]] = i
      /\ \A x \in M : at[x] \in 1 .. N /\ list[at[x]] = x
      /\ j \in 1 .. N + 1
  BY DEF Placed
<1>2. \A i \in I : i \in 1 .. N /\ i < j
  BY <1>1
<1> HIDE DEF N
<1>3. f \in [I -> S]
  BY ONLY <1>1, <1>2, S = {x \in M : at[x] < j}
<1>4. \A a, b \in I : f[a] = f[b] => a = b
  BY ONLY <1>1, <1>2
<1>5. \A x \in S : \E i \in I : f[i] = x
  <2>1. ASSUME NEW x \in S PROVE at[x] \in I /\ f[at[x]] = x
    <3>1. x \in M /\ at[x] < j /\ at[x] \in 1 .. N /\ list[at[x]] = x
      BY <1>1, <2>1
    <3>2. at[x] \in I
      BY ONLY <1>1, <3>1
    <3> QED BY <3>1, <3>2
  <2> QED BY <2>1
<1>6. f \in Bijection(I, S)
  <2>1. DOMAIN f = I
    OBVIOUS
  <2> HIDE DEF f
  <2> QED BY ONLY <1>3, <1>4, <1>5, <2>1 DEF Bijection, Injection, Surjection, IsInjective
<1>7. ExistsBijection(I, S)
  BY ONLY <1>6 DEF ExistsBijection
<1>8. IsFiniteSet(I) /\ Cardinality(I) = j - 1
  BY <1>1, FS_Interval
<1> HIDE DEF I
<1> QED BY ONLY <1>7, <1>8, FS_Bijection

\* The order only depends on the scores of the members.
LEMMA SortedSame ==
  ASSUME NEW sc, NEW sc2, NEW M, NEW at, Sorted(sc, M, at), \A x \in M : sc2[x] = sc[x]
  PROVE  Sorted(sc2, M, at)
BY DEF Sorted

-----------------------------------------------------------------------------
(* The inductive invariant. *)

\* The tree is sound for the nodes in the hash map, which are those with a
\* score, and as long as no score was NaN their places are in order.
TreeInv == \E at : TreeOK(tree, hmap, at) /\ (ordered => Sorted(score, hmap, at))

IInv ==
  /\ TreeInv
  /\ hmap \subseteq Node /\ hmap = {n \in Node : score[n] # Free}
  /\ score \in [Node -> Score \cup {Free}]
  /\ ordered \in BOOLEAN /\ input \in Inputs

\* What clients insert.
LEMMA InputPairs ==
  ASSUME input \in Inputs, NEW i \in input
  PROVE  /\ i[1] \in Node /\ i[2] \in Score /\ i[2] # Free
         /\ i[2] # NaN => i[2] \in Int
<1>1. input \subseteq Node \X (Int \cup {NaN})
  BY ScoreAssumption
<1>2. i[1] \in Node /\ i[2] \in Int \cup {NaN} /\ i \in UNION Inputs
  BY <1>1
<1> QED BY <1>2, ScoreAssumption DEF Score

\* A name is found if it is in the hash map.
LEMMA LookupIs ==
  ASSUME TreeInv, NEW n
  PROVE  lookup(n) <=> n \in hmap
<1>1. PICK at : Sound(tree, hmap, at)
  BY DEF TreeInv, TreeOK
<1>2. tree.root = Null <=> hmap = {}
  BY <1>1, SoundTree
<1> QED BY <1>2 DEF lookup

\* insert keeps the tree sound and in order.
LEMMA InsertInv ==
  ASSUME IInv, NEW n \in Node, NEW s \in Score, s # Free, s # NaN => s \in Int, insert(n, s)
  PROVE  IInv'
<1>1. PICK at : TreeOK(tree, hmap, at) /\ (ordered => Sorted(score, hmap, at))
  BY DEF IInv, TreeInv
<1>2. /\ hmap' = hmap \cup {n} /\ score' = [score EXCEPT ![n] = s]
      /\ tree' = tree_insert(IF lookup(n) THEN Removed(tree, n) ELSE tree, score', n)
      /\ ordered' = (ordered /\ s # NaN) /\ input' = input
  BY DEF insert
<1>3. /\ hmap \subseteq Node /\ hmap = {x \in Node : score[x] # Free}
      /\ score \in [Node -> Score \cup {Free}] /\ ordered \in BOOLEAN /\ input \in Inputs
      /\ (lookup(n) <=> n \in hmap)
  BY LookupIs DEF IInv
<1>4. /\ score' \in [Node -> Score \cup {Free}] /\ score'[n] = s
      /\ \A x \in Node \ {n} : score'[x] = score[x]
  BY ONLY <1>2, <1>3, n \in Node, s \in Score
<1> DEFINE M == hmap \ {n}
           t == IF lookup(n) THEN Removed(tree, n) ELSE tree
<1>5. PICK at2 : TreeOK(t, M, at2) /\ (ordered => Sorted(score', M, at2))
  <2>1. \A x \in M : score'[x] = score[x]
    BY ONLY <1>3, <1>4
  <2>2. CASE lookup(n)
    <3>1. PICK u : u = Removed(tree, n)
      OBVIOUS
    <3>2. n \in hmap
      BY <1>3, <2>2
    <3>3. PICK at2 : /\ TreeOK(u, hmap \ {n}, at2)
                     /\ \A sc, sc2 : Sorted(sc, hmap, at) /\ (\A x \in hmap \ {n} : sc2[x] = sc[x])
                                       => Sorted(sc2, hmap \ {n}, at2)
      BY ONLY <1>1, <3>1, <3>2, TreeRemove
    <3>4. ordered => Sorted(score', M, at2)
      BY ONLY <1>1, <2>1, <3>3
    <3> QED BY ONLY <2>2, <3>1, <3>3, <3>4
  <2>3. CASE ~ lookup(n)
    <3>1. n \notin hmap /\ M = hmap
      BY <1>3, <2>3
    <3>2. ordered => Sorted(score', hmap, at)
      BY ONLY <1>1, <2>1, <3>1, SortedSame
    <3> QED BY ONLY <1>1, <2>3, <3>1, <3>2
  <2> QED BY ONLY <2>2, <2>3
<1>6. tree' = tree_insert(t, score', n) /\ n \notin M /\ M \cup {n} = hmap'
  BY <1>2
<1> HIDE DEF t, M
<1>7. PICK at3 : /\ TreeOK(tree', M \cup {n}, at3)
                 /\ Sorted(score', M, at2) /\ score'[n] \in Int => Sorted(score', M \cup {n}, at3)
  BY ONLY <1>5, <1>6, n \in Node, TreeInsert
<1>8. ordered' => Sorted(score', hmap', at3)
  BY ONLY <1>2, <1>4, <1>5, <1>6, <1>7, s # NaN => s \in Int
<1>9. TreeInv'
  BY ONLY <1>6, <1>7, <1>8 DEF TreeInv
<1>10. hmap' \subseteq Node /\ hmap' = {x \in Node : score'[x] # Free}
  BY ONLY <1>2, <1>3, <1>4, n \in Node, s # Free
<1>11. ordered' \in BOOLEAN /\ input' \in Inputs
  BY <1>2, <1>3
<1> QED BY ONLY <1>4, <1>9, <1>10, <1>11 DEF IInv

\* So does rem.
LEMMA RemInv ==
  ASSUME IInv, NEW n \in Node, rem(n)
  PROVE  IInv'
<1>1. PICK at : TreeOK(tree, hmap, at) /\ (ordered => Sorted(score, hmap, at))
  BY DEF IInv, TreeInv
<1>2. /\ hmap' = hmap \ {n} /\ score' = [score EXCEPT ![n] = Free]
      /\ tree' = Removed(tree, n) /\ ordered' = ordered /\ input' = input /\ n \in hmap
  BY DEF rem, lookup
<1>3. /\ hmap \subseteq Node /\ hmap = {x \in Node : score[x] # Free}
      /\ score \in [Node -> Score \cup {Free}] /\ ordered \in BOOLEAN /\ input \in Inputs
  BY DEF IInv
<1>4. /\ score' \in [Node -> Score \cup {Free}] /\ score'[n] = Free
      /\ \A x \in Node \ {n} : score'[x] = score[x]
  BY ONLY <1>2, <1>3, n \in Node
<1>5. PICK at2 : /\ TreeOK(tree', hmap \ {n}, at2)
                 /\ \A sc, sc2 : Sorted(sc, hmap, at) /\ (\A x \in hmap \ {n} : sc2[x] = sc[x])
                                   => Sorted(sc2, hmap \ {n}, at2)
  BY ONLY <1>1, <1>2, TreeRemove
<1>6. \A x \in hmap \ {n} : score'[x] = score[x]
  BY ONLY <1>3, <1>4
<1>7. ordered => Sorted(score', hmap \ {n}, at2)
  BY ONLY <1>1, <1>5, <1>6
<1>8. TreeInv'
  BY ONLY <1>2, <1>5, <1>7 DEF TreeInv
<1>9. hmap' \subseteq Node /\ hmap' = {x \in Node : score'[x] # Free}
  BY ONLY <1>2, <1>3, <1>4, n \in Node
<1>10. ordered' \in BOOLEAN /\ input' \in Inputs
  BY <1>2, <1>3
<1> QED BY ONLY <1>4, <1>8, <1>9, <1>10 DEF IInv

\* The recursions come to the nodes in the hash map.
LEMMA NodesAre ==
  ASSUME TreeInv
  PROVE  Nodes(tree) = hmap
<1>1. PICK at : Sound(tree, hmap, at)
  BY DEF TreeInv, TreeOK
<1>2. Lists(Preorder(tree), hmap)
  BY ONLY <1>1, PreorderIs
<1> QED BY ONLY <1>2 DEF Lists, Nodes

\* Destroying the set and making a new one.
LEMMA DestroyInv ==
  ASSUME IInv, Destroy
  PROVE  IInv'
<1>1. /\ hmap' = {} /\ tree' = EmptyTree /\ ordered' = TRUE /\ input' = input
      /\ score' = [x \in Node |-> IF x \in hmap THEN Free ELSE score[x]]
  BY NodesAre DEF Destroy, IInv
<1>2. /\ hmap = {x \in Node : score[x] # Free} /\ score \in [Node -> Score \cup {Free}]
      /\ input \in Inputs
  BY DEF IInv
<1>3. score' \in [Node -> Score \cup {Free}] /\ \A x \in Node : score'[x] = Free
  BY ONLY <1>1, <1>2
<1>4. [x \in Node |-> 1] \in Places
  BY DEF Places
<1>5. \E at \in Places : TreeOK(EmptyTree, {}, at) /\ Sorted(score', {}, at)
  BY ONLY <1>4, EmptyOK
<1>6. TreeInv'
  BY ONLY <1>1, <1>5 DEF TreeInv
<1> QED BY ONLY <1>1, <1>2, <1>3, <1>6 DEF IInv

\* Assigning the set to itself.
LEMMA AssignInv ==
  ASSUME IInv, Assign
  PROVE  IInv'
<1>1. PICK at : TreeOK(tree, hmap, at) /\ (ordered => Sorted(score, hmap, at))
  BY DEF IInv, TreeInv
<1>2. /\ tree' = set_cpy(tree, score) /\ hmap' = hmap
      /\ score' = score /\ ordered' = ordered /\ input' = input
  BY NodesAre DEF Assign, IInv
<1>3. Sound(tree, hmap, at)
  BY <1>1 DEF TreeOK
<1>4. PICK at2 : /\ TreeOK(tree', hmap, at2)
                 /\ (\A x \in hmap : score[x] \in Int) => Sorted(score, hmap, at2)
  BY ONLY <1>2, <1>3, CopyIs
<1>5. ordered => \A x \in hmap : score[x] \in Int
  BY ONLY <1>1 DEF Sorted
<1>6. TreeInv'
  BY ONLY <1>2, <1>4, <1>5 DEF TreeInv
<1> QED BY ONLY IInv, <1>2, <1>6 DEF IInv

\* IInv is inductive.
LEMMA InitInv ==
  ASSUME Init
  PROVE  IInv
<1>1. [x \in Node |-> 1] \in Places
  BY DEF Places
<1>2. \E at \in Places : TreeOK(EmptyTree, {}, at) /\ Sorted(score, {}, at)
  BY ONLY <1>1, EmptyOK
<1> QED BY <1>2 DEF Init, IInv, TreeInv

\* Every step keeps the invariant.
LEMMA NextInv ==
  ASSUME IInv, [Next]_vars
  PROVE  IInv'
<1>1. ASSUME NEW i \in input, insert(i[1], i[2]) PROVE IInv'
  <2>1. input \in Inputs
    BY DEF IInv
  <2>2. /\ i[1] \in Node /\ i[2] \in Score /\ i[2] # Free
        /\ i[2] # NaN => i[2] \in Int
    BY ONLY <1>1, <2>1, InputPairs
  <2> QED BY ONLY IInv, <1>1, <2>2, InsertInv
<1>2. ASSUME NEW n \in Node, rem(n) PROVE IInv'
  BY <1>2, RemInv
<1>3. CASE Destroy
  BY <1>3, DestroyInv
<1>4. CASE Assign
  BY <1>4, AssignInv
<1>5. CASE UNCHANGED vars
  BY ONLY IInv, <1>5 DEF vars, IInv, TreeInv
<1> QED BY <1>1, <1>2, <1>3, <1>4, <1>5 DEF Next

\* It holds in every state.
THEOREM Invariance == Spec => []IInv
<1>1. Init => IInv
  BY InitInv
<1>2. IInv /\ [Next]_vars => IInv'
  BY NextInv
<1> QED BY <1>1, <1>2, PTL DEF Spec

\* Every field has its type, and heights and counts are at least one.
LEMMA TypesFromInv ==
  ASSUME IInv
  PROVE  TypeOK
<1>1. PICK at : TreeOK(tree, hmap, at)
  BY DEF IInv, TreeInv
<1>2. PICK lo, hi : Shape(tree, hmap, at, lo, hi) /\ \A n \in hmap : Exact(tree, lo, hi, n)
  BY <1>1 DEF TreeOK, Sound
<1>3. tree \in Tree /\ Fresh(tree, hmap)
  BY <1>1, <1>2 DEF TreeOK, Shape
<1>4. tree.height \in [Node -> Int] /\ tree.count \in [Node -> Int]
  BY <1>3, TreeFields
<1>5. ASSUME NEW x \in Node PROVE tree.height[x] >= 1 /\ tree.count[x] >= 1
  <2>1. CASE x \in hmap
    <3>1. lo[x] <= at[x] /\ at[x] <= hi[x] /\ lo[x] \in Int /\ hi[x] \in Int /\ at[x] \in Int
      BY <1>2, <2>1, ShapeNode
    <3>2. tree.height[x] >= 1 /\ tree.count[x] = hi[x] - lo[x] + 1
      BY <1>2, <2>1 DEF Exact
    <3> QED BY ONLY <3>1, <3>2
  <2>2. CASE x \notin hmap
    <3>1. tree.height[x] = 1 /\ tree.count[x] = 1
      BY ONLY <1>3, <1>5, <2>2 DEF Fresh
    <3> QED BY ONLY <3>1
  <2> QED BY ONLY <2>1, <2>2
<1>6. tree.height \in [Node -> Nat \ {0}] /\ tree.count \in [Node -> Nat \ {0}]
  BY ONLY <1>4, <1>5
<1> QED BY ONLY IInv, <1>3, <1>6 DEF IInv, TypeOK

\* The two structures hold the same nodes.
LEMMA AgreeFromInv ==
  ASSUME IInv
  PROVE  IndexesAgree
<1>1. PICK at : Sound(tree, hmap, at)
  BY DEF IInv, TreeInv, TreeOK
<1>2. PICK lo, hi : Shape(tree, hmap, at, lo, hi)
  BY <1>1 DEF Sound
<1>3. Nodes(tree) = hmap /\ hmap = {n \in Node : score[n] # Free}
  BY NodesAre DEF IInv
<1>4. Len(Listing) = Cardinality(hmap)
  BY <1>1, ListingPlaced DEF Placed
<1>5. tree.root # Null => tree.parent[tree.root] = Null
  <2>1. tree.root # Null => tree.root \in hmap
    BY <1>1, SoundTree
  <2>2. \A n \in hmap : UpShape(tree, hmap, n)
    BY <1>2, ShapeNode
  <2> QED BY ONLY <2>1, <2>2 DEF UpShape
<1>6. ASSUME NEW n \in hmap, NEW c \in {tree.left[n], tree.right[n]} \ {Null}
      PROVE  tree.parent[c] = n
  <2>1. c # Null /\ (c = tree.left[n] \/ c = tree.right[n])
    BY <1>6
  <2> QED BY ONLY <1>2, <1>6, <2>1, LeftChild, RightChild
<1> QED BY ONLY <1>3, <1>4, <1>5, <1>6 DEF IndexesAgree

\* Every height and count is right, and every node is balanced.
LEMMA BalancedFromInv ==
  ASSUME IInv
  PROVE  Balanced
<1>1. PICK at : Sound(tree, hmap, at)
  BY DEF IInv, TreeInv, TreeOK
<1>2. PICK lo, hi : Shape(tree, hmap, at, lo, hi) /\ \A n \in hmap : Exact(tree, lo, hi, n)
  BY <1>1 DEF Sound
<1>3. ASSUME NEW n \in hmap, NEW l, l = tree.left[n], NEW r, r = tree.right[n]
      PROVE  /\ tree.height[n] = Larger(h(tree, l), h(tree, r)) + 1
             /\ tree.count[n] = cnt(tree, l) + cnt(tree, r) + 1
             /\ h(tree, l) <= h(tree, r) + 1 /\ h(tree, r) <= h(tree, l) + 1
  <2>1. Exact(tree, lo, hi, n)
    BY <1>2
  <2>2. (l # Null => Exact(tree, lo, hi, l)) /\ (r # Null => Exact(tree, lo, hi, r))
    BY <1>2, <1>3, LeftChild, RightChild
  <2>3. at[n] - cnt(tree, l) = lo[n] /\ at[n] + cnt(tree, r) = hi[n]
    BY <1>2, <1>3, <2>2, LeftExact, RightExact
  <2>4. at[n] \in Int /\ cnt(tree, l) \in Int /\ cnt(tree, r) \in Int
    BY <1>2, <1>3, ShapeNode, MemberHeights
  <2> QED BY ONLY <1>3, <2>1, <2>3, <2>4 DEF Exact, Within
<1> QED BY ONLY <1>3 DEF Balanced

\* Without NaN the places are those of the order.
LEMMA OrderFromInv ==
  ASSUME IInv
  PROVE  InOrder
<1> SUFFICES ASSUME ordered PROVE Listing = Ranking
  BY DEF InOrder
<1>1. PICK at : Sound(tree, hmap, at) /\ Sorted(score, hmap, at)
  BY DEF IInv, TreeInv, TreeOK
<1> DEFINE N == Cardinality(hmap)
           place == [n \in hmap |-> Cardinality({m \in hmap : Before(m, n)}) + 1]
<1>2. Placed(Listing, hmap, at)
  BY <1>1, ListingPlaced
<1>3. /\ N \in Nat /\ Listing \in Seq(Node) /\ Len(Listing) = N
      /\ \A i \in 1 .. N : Listing[i] \in hmap /\ at[Listing[i]] = i
      /\ \A x \in hmap : at[x] \in 1 .. N /\ Listing[at[x]] = x
  BY <1>2 DEF Placed
<1>4. ASSUME NEW n \in hmap PROVE place[n] = at[n]
  <2> DEFINE S == {m \in hmap : Before(m, n)}
  <2>1. S = {m \in hmap : at[m] < at[n]}
    BY ONLY <1>1, <1>4 DEF Sorted, Before
  <2>2. at[n] \in 1 .. N + 1 /\ at[n] \in Int
    BY ONLY <1>3, <1>4
  <2>3. place[n] = Cardinality(S) + 1
    OBVIOUS
  <2> HIDE DEF S, place
  <2>4. Cardinality(S) = at[n] - 1
    BY ONLY <1>2, <2>1, <2>2, CountBefore
  <2> QED BY ONLY <2>2, <2>3, <2>4
<1>5. Ranking = [i \in 1 .. N |-> CHOOSE n \in hmap : place[n] = i]
  BY DEF Ranking
<1> HIDE DEF place, N
<1>6. ASSUME NEW i \in 1 .. N PROVE (CHOOSE n \in hmap : place[n] = i) = Listing[i]
  <2>1. Listing[i] \in hmap /\ place[Listing[i]] = i
    BY ONLY <1>3, <1>4, <1>6
  <2>2. \A n \in hmap : place[n] = i => n = Listing[i]
    BY ONLY <1>3, <1>4
  <2> QED BY ONLY <2>1, <2>2
<1>7. Ranking = [i \in 1 .. N |-> Listing[i]]
  BY ONLY <1>5, <1>6
<1>8. Listing = [i \in 1 .. N |-> Listing[i]]
  BY ONLY <1>3
<1> QED BY ONLY <1>7, <1>8

\* Nothing a client does leaves a variable without its type, or a height or a
\* count that is unsigned in the code below one.
THEOREM TypeCorrect == Spec => []TypeOK
BY Invariance, TypesFromInv, PTL

\* The tree and the hash map hold the same nodes, whatever is inserted,
\* removed, destroyed and copied in whatever order: insert, rem, ~ZSet and
\* operator= neither lose nor leak nor free a node the other one has.
THEOREM IndexesAlwaysAgree == Spec => []IndexesAgree
BY Invariance, AgreeFromInv, PTL

\* The loop of fix with its rotations brings every height, count and balance
\* right, after tree_insert and after both ways of del.
THEOREM AlwaysBalanced == Spec => []Balanced
BY Invariance, BalancedFromInv, PTL

\* Without NaN the tree is always in the order of score and name.
THEOREM AlwaysInOrder == Spec => []InOrder
BY Invariance, OrderFromInv, PTL

\* Every walk ends at the place it looks for.
LEMMA WalksFromInv ==
  ASSUME IInv
  PROVE  OffsetWalks
<1>1. PICK at : Sound(tree, hmap, at)
  BY DEF IInv, TreeInv, TreeOK
<1>2. PICK list, N : list = Listing /\ N = Cardinality(hmap)
  OBVIOUS
<1>3. /\ N \in Nat /\ list \in Seq(Node) /\ Len(list) = N /\ DOMAIN list = 1 .. N
      /\ \A i \in 1 .. N : list[i] \in hmap /\ at[list[i]] = i
      /\ \A x \in hmap : at[x] \in 1 .. N /\ list[at[x]] = x
  <2>1. Placed(list, hmap, at)
    BY <1>1, <1>2, ListingPlaced
  <2> QED BY ONLY <1>2, <2>1 DEF Placed
<1> DEFINE At(i) == IF i \in DOMAIN list THEN list[i] ELSE Null
<1>4. ASSUME NEW v, NEW j \in Int, IF v = Null THEN j \notin 1 .. N ELSE v \in hmap /\ at[v] = j
      PROVE  v = At(j)
  BY ONLY <1>3, <1>4
<1> HIDE DEF At
<1>5. ASSUME NEW i \in 1 .. N
      PROVE  /\ \A d \in -i .. Len(list) + 1 - i : offset(list[i], d) = At(i + d)
             /\ successor(tree, list[i]) = At(i + 1) /\ predscessor(tree, list[i]) = At(i - 1)
  <2>1. PICK n : n = list[i]
    OBVIOUS
  <2>2. n \in hmap /\ at[n] = i /\ i \in Int /\ n # Null
    BY <1>1, <1>3, <2>1, SoundTree
  <2>3. ASSUME NEW d \in Int PROVE offset(n, d) = At(i + d)
    <3>1. PICK v : v = AVLNode_offset(tree, n, d)
      OBVIOUS
    <3>2. IF v = Null THEN at[n] + d \notin 1 .. Cardinality(hmap) ELSE v \in hmap /\ at[v] = at[n] + d
      BY ONLY <1>1, <2>2, <2>3, <3>1, OffsetIs
    <3>3. i + d \in Int
      BY ONLY <2>2, <2>3
    <3>4. v = At(i + d)
      BY ONLY <1>2, <1>4, <2>2, <3>2, <3>3
    <3> QED BY ONLY <2>2, <3>1, <3>4 DEF offset
  <2>4. successor(tree, n) = At(i + 1)
    <3>1. PICK v : v = successor(tree, n)
      OBVIOUS
    <3>2. IF v = Null THEN at[n] + 1 \notin 1 .. Cardinality(hmap) ELSE v \in hmap /\ at[v] = at[n] + 1
      BY ONLY <1>1, <2>2, <3>1, SuccessorIs
    <3>3. i + 1 \in Int
      BY ONLY <2>2
    <3> QED BY ONLY <1>2, <1>4, <2>2, <3>1, <3>2, <3>3
  <2>5. predscessor(tree, n) = At(i - 1)
    <3>1. PICK v : v = predscessor(tree, n)
      OBVIOUS
    <3>2. IF v = Null THEN at[n] - 1 \notin 1 .. Cardinality(hmap) ELSE v \in hmap /\ at[v] = at[n] - 1
      BY ONLY <1>1, <2>2, <3>1, PredscessorIs
    <3>3. i - 1 \in Int
      BY ONLY <2>2
    <3> QED BY ONLY <1>2, <1>4, <2>2, <3>1, <3>2, <3>3
  <2>6. -i .. Len(list) + 1 - i \subseteq Int
    BY ONLY <1>3, <2>2
  <2> QED BY ONLY <2>1, <2>3, <2>4, <2>5, <2>6
<1> QED BY ONLY <1>2, <1>3, <1>5 DEF OffsetWalks, At

\* offset, successor and predscessor go to the place they should, over any
\* distance, also in a tree with NaN scores.
THEOREM WalksAlwaysRight == Spec => []OffsetWalks
BY Invariance, WalksFromInv, PTL

-----------------------------------------------------------------------------
(* Searches. *)

\* A state of a search for the first member that is not in A.
SearchingLeft(t, M, at, lo, hi, A, z) ==
  /\ z \in Search /\ (z.found # Null => z.found \in M \ A)
  /\ IF z.node = Null
       THEN \A x \in M : (z.found # Null => at[x] < at[z.found]) => x \in A
     ELSE /\ z.node \in M
          /\ \A x \in M : at[x] < lo[z.node] => x \in A
          /\ IF z.found = Null THEN hi[z.node] = hi[t.root]
             ELSE at[z.found] = hi[z.node] +  1

\* What a round of it does.
SearchesLeft(t, M, A, round) ==
  \A z \in Search :
    /\ z.node = Null => round[z] = z
    /\ z.node \in M => round[z] = IF z.node \in A THEN [z EXCEPT !.node = t.right[z.node]]
                                  ELSE [node |-> t.left[z.node], found |-> z.node]

\* A round goes on with the members that are left.
LEMMA SearchLeftOn ==
  ASSUME NEW t, NEW M, NEW at, NEW lo, NEW hi, Shape(t, M, at, lo, hi), NEW A,
         \A x, y \in M : at[x] <= at[y] /\ y \in A => x \in A,
         NEW round, SearchesLeft(t, M, A, round), NEW z, SearchingLeft(t, M, at, lo, hi, A, z),
         z.node # Null
  PROVE  /\ SearchingLeft(t, M, at, lo, hi, A, round[z])
         /\ round[z].node # Null =>
              hi[round[z].node] - lo[round[z].node] < hi[z.node] - lo[z.node]
<1>1. \A y \in M : /\ at[y] \in Int /\ lo[y] \in Int /\ hi[y] \in Int
                   /\ 1 <= lo[y] /\ lo[y] <= at[y] /\ at[y] <= hi[y]
                   /\ hi[y] <= Cardinality(M) /\ y \in Node /\ y # Null
  BY ShapeNode
<1>2. PICK x, f : x = z.node /\ f = z.found
  OBVIOUS
<1>3. /\ x \in M /\ z \in Search /\ f \in NullOr /\ (f # Null => f \in M \ A)
      /\ \A y \in M : at[y] < lo[x] => y \in A
      /\ IF f = Null THEN hi[x] = hi[t.root] ELSE at[f] = hi[x] +  1
      /\ z = [node |-> x, found |-> f]
  BY ONLY <1>2, z.node # Null, SearchingLeft(t, M, at, lo, hi, A, z) DEF SearchingLeft, Search
<1>4. LeftShape(t, M, at, lo, hi, x) /\ RightShape(t, M, at, lo, hi, x)
  BY ONLY Shape(t, M, at, lo, hi), <1>3, ShapeNode
<1>5. PICK l, r : l = t.left[x] /\ r = t.right[x]
  OBVIOUS
<1>6. /\ IF l = Null THEN lo[x] = at[x] ELSE l \in M /\ lo[l] = lo[x] /\ hi[l] = at[x] -  1
      /\ IF r = Null THEN hi[x] = at[x] ELSE r \in M /\ hi[r] = hi[x] /\ lo[r] = at[x] +  1
  BY ONLY <1>4, <1>5 DEF LeftShape, RightShape
<1>7. \A y \in M : at[y] <= hi[t.root]
  <2>1. t.root \in M /\ lo[t.root] = 1 /\ hi[t.root] = Cardinality(M)
    BY <1>3 DEF Shape, RootShape
  <2>2. Cardinality(M) \in Nat
    BY ShapeSize
  <2> QED BY ONLY <1>1, <2>1, <2>2
<1>8. round[z] = IF x \in A THEN [z EXCEPT !.node = t.right[x]]
                 ELSE [node |-> t.left[x], found |-> x]
  BY ONLY <1>2, <1>3, SearchesLeft(t, M, A, round) DEF SearchesLeft
<1>9. CASE x \in A
  <2>1. round[z] = [node |-> r, found |-> f]
    BY ONLY <1>3, <1>5, <1>8, <1>9
  <2>2. CASE r = Null
    <3>1. \A y \in M : (f # Null => at[y] < at[f]) => y \in A
      <4>1. ASSUME NEW y \in M, f # Null => at[y] < at[f] PROVE at[y] <= at[x]
        BY ONLY <1>1, <1>3, <1>6, <1>7, <2>2, <4>1
      <4> QED BY ONLY <4>1, <1>3, <1>9, \A v, y \in M : at[v] <= at[y] /\ y \in A => v \in A
    <3>2. SearchingLeft(t, M, at, lo, hi, A, [node |-> r, found |-> f])
      BY ONLY <1>3, <2>2, <3>1 DEF SearchingLeft, Search, NullOr
    <3> QED BY ONLY <2>1, <2>2, <3>2
  <2>3. CASE r # Null
    <3>1. r \in M /\ hi[r] = hi[x] /\ lo[r] = at[x] +  1 /\ r \in NullOr
      BY ONLY <1>1, <1>6, <2>3 DEF NullOr
    <3>2. \A y \in M : at[y] < lo[r] => y \in A
      <4>1. ASSUME NEW y \in M, at[y] < lo[r] PROVE at[y] <= at[x]
        BY ONLY <1>1, <1>3, <3>1, <4>1
      <4> QED BY ONLY <4>1, <1>3, <1>9, \A v, y \in M : at[v] <= at[y] /\ y \in A => v \in A
    <3>3. SearchingLeft(t, M, at, lo, hi, A, [node |-> r, found |-> f])
      BY ONLY <1>3, <2>3, <3>1, <3>2 DEF SearchingLeft, Search
    <3>4. hi[r] - lo[r] < hi[x] - lo[x]
      BY ONLY <1>1, <1>3, <3>1
    <3> QED BY ONLY <1>2, <2>1, <3>3, <3>4
  <2> QED BY ONLY <2>2, <2>3
<1>10. CASE x \notin A
  <2>1. round[z] = [node |-> l, found |-> x]
    BY ONLY <1>5, <1>8, <1>10
  <2>2. x \in NullOr /\ x # Null
    BY ONLY <1>1, <1>3 DEF NullOr
  <2>3. CASE l = Null
    <3>1. \A y \in M : at[y] < at[x] => y \in A
      BY ONLY <1>3, <1>6, <2>3
    <3>2. SearchingLeft(t, M, at, lo, hi, A, [node |-> l, found |-> x])
      BY ONLY <1>3, <1>10, <2>2, <2>3, <3>1 DEF SearchingLeft, Search, NullOr
    <3> QED BY ONLY <2>1, <2>3, <3>2
  <2>4. CASE l # Null
    <3>1. l \in M /\ lo[l] = lo[x] /\ hi[l] = at[x] -  1 /\ l \in NullOr
      BY ONLY <1>1, <1>6, <2>4 DEF NullOr
    <3>2. at[x] = hi[l] +  1
      BY ONLY <1>1, <1>3, <3>1
    <3>3. SearchingLeft(t, M, at, lo, hi, A, [node |-> l, found |-> x])
      BY ONLY <1>3, <1>10, <2>2, <2>4, <3>1, <3>2 DEF SearchingLeft, Search
    <3>4. hi[l] - lo[l] < hi[x] - lo[x]
      BY ONLY <1>1, <1>3, <3>1
    <3> QED BY ONLY <1>2, <2>1, <3>3, <3>4
  <2> QED BY ONLY <2>3, <2>4
<1> QED BY ONLY <1>9, <1>10

\* The search finds the first member that is not in A, if there is one.
LEMMA SearchLeftIs ==
  ASSUME NEW t, NEW M, NEW at, Sound(t, M, at), NEW A,
         \A x, y \in M : at[x] <= at[y] /\ y \in A => x \in A,
         NEW round, SearchesLeft(t, M, A, round), NEW v,
         v = Iterate(round, [node |-> t.root, found |-> Null], PathBound).found
  PROVE  IF v = Null THEN M \subseteq A
         ELSE v \in M \ A /\ \A x \in M : x \in A <=> at[x] < at[v]
<1>1. PICK lo, hi : Shape(t, M, at, lo, hi)
  BY DEF Sound
<1> DEFINE R == {z \in Search : SearchingLeft(t, M, at, lo, hi, A, z)}
           size == [z \in R |-> IF z.node = Null THEN 0 ELSE hi[z.node] - lo[z.node] + 1]
           start == [node |-> t.root, found |-> Null]
           end == Iterate(round, start, PathBound)
<1>2. \A y \in M : /\ at[y] \in Int /\ lo[y] \in Int /\ hi[y] \in Int
                   /\ 1 <= lo[y] /\ lo[y] <= at[y] /\ at[y] <= hi[y]
                   /\ hi[y] <= Cardinality(M) /\ y \in Node /\ y # Null
  BY ONLY <1>1, ShapeNode
<1>3. /\ Cardinality(M) \in Nat /\ PathBound \in Nat /\ Cardinality(M) <= PathBound
  BY ONLY <1>1, ShapeSize
<1>4. ASSUME NEW z \in R
      PROVE  /\ size[z] \in Nat /\ size[z] <= PathBound
             /\ size[z] = 0 <=> z.node = Null
             /\ size[z] = IF z.node = Null THEN 0 ELSE hi[z.node] - lo[z.node] + 1
  <2>1. size[z] = IF z.node = Null THEN 0 ELSE hi[z.node] - lo[z.node] + 1
    OBVIOUS
  <2>2. z.node # Null => z.node \in M
    BY ONLY <1>4 DEF SearchingLeft
  <2> HIDE DEF size, R
  <2> QED BY ONLY <1>2, <1>3, <2>1, <2>2
<1>5. ASSUME NEW z \in R
      PROVE  /\ round[z] \in R
             /\ size[z] = 0 => size[round[z]] = 0
             /\ size[z] # 0 => size[round[z]] < size[z]
  <2>1. z \in Search /\ SearchingLeft(t, M, at, lo, hi, A, z)
    OBVIOUS
  <2>2. CASE z.node = Null
    <3>1. round[z] = z
      BY ONLY <2>1, <2>2, SearchesLeft(t, M, A, round) DEF SearchesLeft
    <3> HIDE DEF size, R
    <3> QED BY ONLY <1>4, <1>5, <2>2, <3>1
  <2>3. CASE z.node # Null
    <3>1. /\ SearchingLeft(t, M, at, lo, hi, A, round[z])
          /\ round[z].node # Null =>
               hi[round[z].node] - lo[round[z].node] < hi[z.node] - lo[z.node]
      BY ONLY <1>1, <2>1, <2>3, SearchesLeft(t, M, A, round), SearchLeftOn,
              \A x, y \in M : at[x] <= at[y] /\ y \in A => x \in A
    <3>2. round[z] \in R
      BY ONLY <3>1 DEF SearchingLeft
    <3>3. z.node \in M /\ (round[z].node # Null => round[z].node \in M)
      BY ONLY <2>1, <2>3, <3>1 DEF SearchingLeft
    <3> HIDE DEF size, R
    <3> QED BY ONLY <1>2, <1>4, <1>5, <2>3, <3>1, <3>2, <3>3
  <2> QED BY ONLY <2>2, <2>3
<1>6. start \in R
  <2>1. t.root \in NullOr /\ start \in Search
    <3>1. t.root \in NullOr
      BY <1>1 DEF Shape, Tree
    <3> QED BY ONLY <3>1 DEF Search, NullOr
  <2>2. CASE t.root = Null
    <3>1. M = {}
      BY <1>1, <2>2 DEF Shape, RootShape
    <3> QED BY ONLY <2>1, <2>2, <3>1 DEF SearchingLeft
  <2>3. CASE t.root # Null
    <3>1. t.root \in M /\ lo[t.root] = 1 /\ hi[t.root] = Cardinality(M)
      BY <1>1, <2>3 DEF Shape, RootShape
    <3>2. \A x \in M : ~ (at[x] < lo[t.root])
      BY ONLY <1>2, <1>3, <3>1
    <3> QED BY ONLY <2>1, <2>3, <3>1, <3>2 DEF SearchingLeft
  <2> QED BY ONLY <2>2, <2>3
<1>7. size \in [R -> Nat] /\ size[start] <= PathBound
  <2>1. size = [z \in R |-> size[z]]
    OBVIOUS
  <2> HIDE DEF size, R, start
  <2> QED BY ONLY <1>4, <1>6, <2>1
<1>8. end \in R /\ size[end] = 0
  <2> HIDE DEF size, R, start
  <2> QED BY ONLY <1>3, <1>5, <1>6, <1>7, LoopEnds
<1>9. SearchingLeft(t, M, at, lo, hi, A, end) /\ end.node = Null
  <2>1. end.node = Null
    <3> HIDE DEF size, R, end
    <3> QED BY ONLY <1>4, <1>8
  <2> HIDE DEF end
  <2> QED BY ONLY <1>8, <2>1
<1>10. v = end.found
  OBVIOUS
<1> HIDE DEF end
<1>11. /\ v # Null => v \in M \ A
       /\ \A x \in M : (v # Null => at[x] < at[v]) => x \in A
  BY ONLY <1>9, <1>10 DEF SearchingLeft
<1>12. CASE v = Null
  BY ONLY <1>11, <1>12
<1>13. CASE v # Null
  <2>1. v \in M \ A /\ \A x \in M : at[x] < at[v] => x \in A
    BY ONLY <1>11, <1>13
  <2>2. ASSUME NEW x \in M, x \in A PROVE at[x] < at[v]
    <3>1. ~ (at[v] <= at[x])
      BY ONLY <2>1, <2>2, \A a, y \in M : at[a] <= at[y] /\ y \in A => a \in A
    <3> QED BY ONLY <1>2, <2>1, <2>2, <3>1
  <2> QED BY ONLY <1>13, <2>1, <2>2
<1> QED BY ONLY <1>12, <1>13

\* A state of a search for the last member that is not in A.
SearchingRight(t, M, at, lo, hi, A, z) ==
  /\ z \in Search /\ (z.found # Null => z.found \in M \ A)
  /\ IF z.node = Null
       THEN \A x \in M : (z.found # Null => at[x] > at[z.found]) => x \in A
     ELSE /\ z.node \in M
          /\ \A x \in M : at[x] > hi[z.node] => x \in A
          /\ IF z.found = Null THEN lo[z.node] = lo[t.root]
             ELSE at[z.found] = lo[z.node] -  1

\* What a round of it does.
SearchesRight(t, M, A, round) ==
  \A z \in Search :
    /\ z.node = Null => round[z] = z
    /\ z.node \in M => round[z] = IF z.node \in A THEN [z EXCEPT !.node = t.left[z.node]]
                                  ELSE [node |-> t.right[z.node], found |-> z.node]

\* A round goes on with the members that are right.
LEMMA SearchRightOn ==
  ASSUME NEW t, NEW M, NEW at, NEW lo, NEW hi, Shape(t, M, at, lo, hi), NEW A,
         \A x, y \in M : at[x] >= at[y] /\ y \in A => x \in A,
         NEW round, SearchesRight(t, M, A, round), NEW z, SearchingRight(t, M, at, lo, hi, A, z),
         z.node # Null
  PROVE  /\ SearchingRight(t, M, at, lo, hi, A, round[z])
         /\ round[z].node # Null =>
              hi[round[z].node] - lo[round[z].node] < hi[z.node] - lo[z.node]
<1>1. \A y \in M : /\ at[y] \in Int /\ hi[y] \in Int /\ lo[y] \in Int
                   /\ 1 <= lo[y] /\ lo[y] <= at[y] /\ at[y] <= hi[y]
                   /\ hi[y] <= Cardinality(M) /\ y \in Node /\ y # Null
  BY ShapeNode
<1>2. PICK x, f : x = z.node /\ f = z.found
  OBVIOUS
<1>3. /\ x \in M /\ z \in Search /\ f \in NullOr /\ (f # Null => f \in M \ A)
      /\ \A y \in M : at[y] > hi[x] => y \in A
      /\ IF f = Null THEN lo[x] = lo[t.root] ELSE at[f] = lo[x] -  1
      /\ z = [node |-> x, found |-> f]
  BY ONLY <1>2, z.node # Null, SearchingRight(t, M, at, lo, hi, A, z) DEF SearchingRight, Search
<1>4. RightShape(t, M, at, lo, hi, x) /\ LeftShape(t, M, at, lo, hi, x)
  BY ONLY Shape(t, M, at, lo, hi), <1>3, ShapeNode
<1>5. PICK l, r : l = t.right[x] /\ r = t.left[x]
  OBVIOUS
<1>6. /\ IF l = Null THEN hi[x] = at[x] ELSE l \in M /\ hi[l] = hi[x] /\ lo[l] = at[x] +  1
      /\ IF r = Null THEN lo[x] = at[x] ELSE r \in M /\ lo[r] = lo[x] /\ hi[r] = at[x] -  1
  BY ONLY <1>4, <1>5 DEF RightShape, LeftShape
<1>7. \A y \in M : at[y] >= lo[t.root]
  <2>1. t.root \in M /\ lo[t.root] = 1 /\ hi[t.root] = Cardinality(M)
    BY <1>3 DEF Shape, RootShape
  <2>2. Cardinality(M) \in Nat
    BY ShapeSize
  <2> QED BY ONLY <1>1, <2>1, <2>2
<1>8. round[z] = IF x \in A THEN [z EXCEPT !.node = t.left[x]]
                 ELSE [node |-> t.right[x], found |-> x]
  BY ONLY <1>2, <1>3, SearchesRight(t, M, A, round) DEF SearchesRight
<1>9. CASE x \in A
  <2>1. round[z] = [node |-> r, found |-> f]
    BY ONLY <1>3, <1>5, <1>8, <1>9
  <2>2. CASE r = Null
    <3>1. \A y \in M : (f # Null => at[y] > at[f]) => y \in A
      <4>1. ASSUME NEW y \in M, f # Null => at[y] > at[f] PROVE at[y] >= at[x]
        BY ONLY <1>1, <1>3, <1>6, <1>7, <2>2, <4>1
      <4> QED BY ONLY <4>1, <1>3, <1>9, \A v, y \in M : at[v] >= at[y] /\ y \in A => v \in A
    <3>2. SearchingRight(t, M, at, lo, hi, A, [node |-> r, found |-> f])
      BY ONLY <1>3, <2>2, <3>1 DEF SearchingRight, Search, NullOr
    <3> QED BY ONLY <2>1, <2>2, <3>2
  <2>3. CASE r # Null
    <3>1. r \in M /\ lo[r] = lo[x] /\ hi[r] = at[x] -  1 /\ r \in NullOr
      BY ONLY <1>1, <1>6, <2>3 DEF NullOr
    <3>2. \A y \in M : at[y] > hi[r] => y \in A
      <4>1. ASSUME NEW y \in M, at[y] > hi[r] PROVE at[y] >= at[x]
        BY ONLY <1>1, <1>3, <3>1, <4>1
      <4> QED BY ONLY <4>1, <1>3, <1>9, \A v, y \in M : at[v] >= at[y] /\ y \in A => v \in A
    <3>3. SearchingRight(t, M, at, lo, hi, A, [node |-> r, found |-> f])
      BY ONLY <1>3, <2>3, <3>1, <3>2 DEF SearchingRight, Search
    <3>4. hi[r] - lo[r] < hi[x] - lo[x]
      BY ONLY <1>1, <1>3, <3>1
    <3> QED BY ONLY <1>2, <2>1, <3>3, <3>4
  <2> QED BY ONLY <2>2, <2>3
<1>10. CASE x \notin A
  <2>1. round[z] = [node |-> l, found |-> x]
    BY ONLY <1>5, <1>8, <1>10
  <2>2. x \in NullOr /\ x # Null
    BY ONLY <1>1, <1>3 DEF NullOr
  <2>3. CASE l = Null
    <3>1. \A y \in M : at[y] > at[x] => y \in A
      BY ONLY <1>3, <1>6, <2>3
    <3>2. SearchingRight(t, M, at, lo, hi, A, [node |-> l, found |-> x])
      BY ONLY <1>3, <1>10, <2>2, <2>3, <3>1 DEF SearchingRight, Search, NullOr
    <3> QED BY ONLY <2>1, <2>3, <3>2
  <2>4. CASE l # Null
    <3>1. l \in M /\ hi[l] = hi[x] /\ lo[l] = at[x] +  1 /\ l \in NullOr
      BY ONLY <1>1, <1>6, <2>4 DEF NullOr
    <3>2. at[x] = lo[l] -  1
      BY ONLY <1>1, <1>3, <3>1
    <3>3. SearchingRight(t, M, at, lo, hi, A, [node |-> l, found |-> x])
      BY ONLY <1>3, <1>10, <2>2, <2>4, <3>1, <3>2 DEF SearchingRight, Search
    <3>4. hi[l] - lo[l] < hi[x] - lo[x]
      BY ONLY <1>1, <1>3, <3>1
    <3> QED BY ONLY <1>2, <2>1, <3>3, <3>4
  <2> QED BY ONLY <2>3, <2>4
<1> QED BY ONLY <1>9, <1>10

\* The search finds the last member that is not in A, if there is one.
LEMMA SearchRightIs ==
  ASSUME NEW t, NEW M, NEW at, Sound(t, M, at), NEW A,
         \A x, y \in M : at[x] >= at[y] /\ y \in A => x \in A,
         NEW round, SearchesRight(t, M, A, round), NEW v,
         v = Iterate(round, [node |-> t.root, found |-> Null], PathBound).found
  PROVE  IF v = Null THEN M \subseteq A
         ELSE v \in M \ A /\ \A x \in M : x \in A <=> at[x] > at[v]
<1>1. PICK lo, hi : Shape(t, M, at, lo, hi)
  BY DEF Sound
<1> DEFINE R == {z \in Search : SearchingRight(t, M, at, lo, hi, A, z)}
           size == [z \in R |-> IF z.node = Null THEN 0 ELSE hi[z.node] - lo[z.node] + 1]
           start == [node |-> t.root, found |-> Null]
           end == Iterate(round, start, PathBound)
<1>2. \A y \in M : /\ at[y] \in Int /\ hi[y] \in Int /\ lo[y] \in Int
                   /\ 1 <= lo[y] /\ lo[y] <= at[y] /\ at[y] <= hi[y]
                   /\ hi[y] <= Cardinality(M) /\ y \in Node /\ y # Null
  BY ONLY <1>1, ShapeNode
<1>3. /\ Cardinality(M) \in Nat /\ PathBound \in Nat /\ Cardinality(M) <= PathBound
  BY ONLY <1>1, ShapeSize
<1>4. ASSUME NEW z \in R
      PROVE  /\ size[z] \in Nat /\ size[z] <= PathBound
             /\ size[z] = 0 <=> z.node = Null
             /\ size[z] = IF z.node = Null THEN 0 ELSE hi[z.node] - lo[z.node] + 1
  <2>1. size[z] = IF z.node = Null THEN 0 ELSE hi[z.node] - lo[z.node] + 1
    OBVIOUS
  <2>2. z.node # Null => z.node \in M
    BY ONLY <1>4 DEF SearchingRight
  <2> HIDE DEF size, R
  <2> QED BY ONLY <1>2, <1>3, <2>1, <2>2
<1>5. ASSUME NEW z \in R
      PROVE  /\ round[z] \in R
             /\ size[z] = 0 => size[round[z]] = 0
             /\ size[z] # 0 => size[round[z]] < size[z]
  <2>1. z \in Search /\ SearchingRight(t, M, at, lo, hi, A, z)
    OBVIOUS
  <2>2. CASE z.node = Null
    <3>1. round[z] = z
      BY ONLY <2>1, <2>2, SearchesRight(t, M, A, round) DEF SearchesRight
    <3> HIDE DEF size, R
    <3> QED BY ONLY <1>4, <1>5, <2>2, <3>1
  <2>3. CASE z.node # Null
    <3>1. /\ SearchingRight(t, M, at, lo, hi, A, round[z])
          /\ round[z].node # Null =>
               hi[round[z].node] - lo[round[z].node] < hi[z.node] - lo[z.node]
      BY ONLY <1>1, <2>1, <2>3, SearchesRight(t, M, A, round), SearchRightOn,
              \A x, y \in M : at[x] >= at[y] /\ y \in A => x \in A
    <3>2. round[z] \in R
      BY ONLY <3>1 DEF SearchingRight
    <3>3. z.node \in M /\ (round[z].node # Null => round[z].node \in M)
      BY ONLY <2>1, <2>3, <3>1 DEF SearchingRight
    <3> HIDE DEF size, R
    <3> QED BY ONLY <1>2, <1>4, <1>5, <2>3, <3>1, <3>2, <3>3
  <2> QED BY ONLY <2>2, <2>3
<1>6. start \in R
  <2>1. t.root \in NullOr /\ start \in Search
    <3>1. t.root \in NullOr
      BY <1>1 DEF Shape, Tree
    <3> QED BY ONLY <3>1 DEF Search, NullOr
  <2>2. CASE t.root = Null
    <3>1. M = {}
      BY <1>1, <2>2 DEF Shape, RootShape
    <3> QED BY ONLY <2>1, <2>2, <3>1 DEF SearchingRight
  <2>3. CASE t.root # Null
    <3>1. t.root \in M /\ lo[t.root] = 1 /\ hi[t.root] = Cardinality(M)
      BY <1>1, <2>3 DEF Shape, RootShape
    <3>2. \A x \in M : ~ (at[x] > hi[t.root])
      BY ONLY <1>2, <1>3, <3>1
    <3> QED BY ONLY <2>1, <2>3, <3>1, <3>2 DEF SearchingRight
  <2> QED BY ONLY <2>2, <2>3
<1>7. size \in [R -> Nat] /\ size[start] <= PathBound
  <2>1. size = [z \in R |-> size[z]]
    OBVIOUS
  <2> HIDE DEF size, R, start
  <2> QED BY ONLY <1>4, <1>6, <2>1
<1>8. end \in R /\ size[end] = 0
  <2> HIDE DEF size, R, start
  <2> QED BY ONLY <1>3, <1>5, <1>6, <1>7, LoopEnds
<1>9. SearchingRight(t, M, at, lo, hi, A, end) /\ end.node = Null
  <2>1. end.node = Null
    <3> HIDE DEF size, R, end
    <3> QED BY ONLY <1>4, <1>8
  <2> HIDE DEF end
  <2> QED BY ONLY <1>8, <2>1
<1>10. v = end.found
  OBVIOUS
<1> HIDE DEF end
<1>11. /\ v # Null => v \in M \ A
       /\ \A x \in M : (v # Null => at[x] > at[v]) => x \in A
  BY ONLY <1>9, <1>10 DEF SearchingRight
<1>12. CASE v = Null
  BY ONLY <1>11, <1>12
<1>13. CASE v # Null
  <2>1. v \in M \ A /\ \A x \in M : at[x] > at[v] => x \in A
    BY ONLY <1>11, <1>13
  <2>2. ASSUME NEW x \in M, x \in A PROVE at[x] > at[v]
    <3>1. ~ (at[v] >= at[x])
      BY ONLY <2>1, <2>2, \A a, y \in M : at[a] >= at[y] /\ y \in A => a \in A
    <3> QED BY ONLY <1>2, <2>1, <2>2, <3>1
  <2> QED BY ONLY <1>13, <2>1, <2>2
<1> QED BY ONLY <1>12, <1>13

\* seekge finds the first member that is not before the pair, if there is one.
LEMMA SeekgeIs ==
  ASSUME NEW M, NEW at, Sound(tree, M, at), Sorted(score, M, at), NEW s \in Int, NEW n \in Int,
         NEW v, v = seekge(s, n)
  PROVE  IF v = Null THEN \A x \in M : zless(score[x], x, s, n)
         ELSE v \in M /\ \A x \in M : zless(score[x], x, s, n) <=> at[x] < at[v]
<1> DEFINE A == {x \in M : zless(score[x], x, s, n)}
           round == [z \in Search |->
                       IF z.node = Null THEN z
                       ELSE IF zless(score[z.node], z.node, s, n)
                         THEN [z EXCEPT !.node = tree.right[z.node]]
                       ELSE [node |-> tree.left[z.node], found |-> z.node]]
<1>1. M \subseteq Node /\ Null \notin M
  BY SoundTree
<1>2. \A x \in M : x \in Int /\ score[x] \in Int /\ at[x] \in Int
  <2>1. \A x \in M : x \in Int
    BY ONLY <1>1, NameAssumption
  <2>2. \A x \in M : at[x] \in Int
    BY ShapeNode DEF Sound
  <2> QED BY <2>1, <2>2 DEF Sorted
<1>3. \A x, y \in M : at[x] <= at[y] /\ y \in A => x \in A
  <2>1. ASSUME NEW x \in M, NEW y \in M, at[x] <= at[y], y \in A PROVE x \in A
    <3>1. score[y] < s \/ (score[y] = s /\ y < n)
      BY ONLY <1>2, <2>1, ZlessInt, s \in Int, n \in Int
    <3>2. ~ (score[y] < score[x] \/ (score[y] = score[x] /\ y < x))
      <4>1. ~ zless(score[y], y, score[x], x)
        BY ONLY <1>2, <2>1, Sorted(score, M, at) DEF Sorted
      <4> QED BY ONLY <1>2, <2>1, <4>1, ZlessInt
    <3>3. score[x] < s \/ (score[x] = s /\ x < n)
      BY ONLY <1>2, <2>1, <3>1, <3>2, s \in Int, n \in Int
    <3> QED BY ONLY <1>2, <2>1, <3>3, ZlessInt, s \in Int, n \in Int
  <2> QED BY ONLY <2>1
<1>4. SearchesLeft(tree, M, A, round)
  <2>1. \A z \in Search : z.node = Null => round[z] = z
    OBVIOUS
  <2>2. ASSUME NEW z \in Search, z.node \in M
        PROVE  round[z] = IF z.node \in A THEN [z EXCEPT !.node = tree.right[z.node]]
                          ELSE [node |-> tree.left[z.node], found |-> z.node]
    BY ONLY <1>1, <2>2
  <2> QED BY ONLY <2>1, <2>2 DEF SearchesLeft
<1>5. v = Iterate(round, [node |-> tree.root, found |-> Null], PathBound).found
  BY DEF seekge
<1>6. IF v = Null THEN M \subseteq A ELSE v \in M \ A /\ \A x \in M : x \in A <=> at[x] < at[v]
  <2> HIDE DEF A, round
  <2> QED BY ONLY <1>3, <1>4, <1>5, Sound(tree, M, at), SearchLeftIs
<1> QED BY ONLY <1>6

\* seekle finds the last member that is not after the pair, if there is one.
LEMMA SeekleIs ==
  ASSUME NEW M, NEW at, Sound(tree, M, at), Sorted(score, M, at), NEW s \in Int, NEW n \in Int,
         NEW v, v = seekle(s, n)
  PROVE  IF v = Null THEN \A x \in M : zgreater(score[x], x, s, n)
         ELSE v \in M /\ \A x \in M : zgreater(score[x], x, s, n) <=> at[x] > at[v]
<1> DEFINE A == {x \in M : zgreater(score[x], x, s, n)}
           round == [z \in Search |->
                       IF z.node = Null THEN z
                       ELSE IF zgreater(score[z.node], z.node, s, n)
                         THEN [z EXCEPT !.node = tree.left[z.node]]
                       ELSE [node |-> tree.right[z.node], found |-> z.node]]
<1>1. M \subseteq Node /\ Null \notin M
  BY SoundTree
<1>2. \A x \in M : x \in Int /\ score[x] \in Int /\ at[x] \in Int
  <2>1. \A x \in M : x \in Int
    BY ONLY <1>1, NameAssumption
  <2>2. \A x \in M : at[x] \in Int
    BY ShapeNode DEF Sound
  <2> QED BY <2>1, <2>2 DEF Sorted
<1>3. \A x, y \in M : at[x] >= at[y] /\ y \in A => x \in A
  <2>1. ASSUME NEW x \in M, NEW y \in M, at[x] >= at[y], y \in A PROVE x \in A
    <3>1. s < score[y] \/ (score[y] = s /\ y > n)
      BY ONLY <1>2, <2>1, ZlessInt, s \in Int, n \in Int
    <3>2. ~ (score[x] < score[y] \/ (score[x] = score[y] /\ x < y))
      <4>1. ~ zless(score[x], x, score[y], y)
        BY ONLY <1>2, <2>1, Sorted(score, M, at) DEF Sorted
      <4> QED BY ONLY <1>2, <2>1, <4>1, ZlessInt
    <3>3. s < score[x] \/ (score[x] = s /\ x > n)
      BY ONLY <1>2, <2>1, <3>1, <3>2, s \in Int, n \in Int
    <3> QED BY ONLY <1>2, <2>1, <3>3, ZlessInt, s \in Int, n \in Int
  <2> QED BY ONLY <2>1
<1>4. SearchesRight(tree, M, A, round)
  <2>1. \A z \in Search : z.node = Null => round[z] = z
    OBVIOUS
  <2>2. ASSUME NEW z \in Search, z.node \in M
        PROVE  round[z] = IF z.node \in A THEN [z EXCEPT !.node = tree.left[z.node]]
                          ELSE [node |-> tree.right[z.node], found |-> z.node]
    BY ONLY <1>1, <2>2
  <2> QED BY ONLY <2>1, <2>2 DEF SearchesRight
<1>5. v = Iterate(round, [node |-> tree.root, found |-> Null], PathBound).found
  BY DEF seekle
<1>6. IF v = Null THEN M \subseteq A ELSE v \in M \ A /\ \A x \in M : x \in A <=> at[x] > at[v]
  <2> HIDE DEF A, round
  <2> QED BY ONLY <1>3, <1>4, <1>5, Sound(tree, M, at), SearchRightIs
<1> QED BY ONLY <1>6

-----------------------------------------------------------------------------
(* Queries. *)

\* The member at a place of the list, if there is one.
AtPlace(list, i) == IF i \in DOMAIN list THEN list[i] ELSE Null

\* What Placed says, without its quantifiers over intervals.
LEMMA PlacedFacts ==
  ASSUME NEW list, NEW M, NEW at, Placed(list, M, at), Sound(tree, M, at)
  PROVE  /\ Cardinality(M) \in Nat /\ list \in Seq(Node) /\ Len(list) = Cardinality(M)
         /\ DOMAIN list = 1 .. Cardinality(M) /\ Cardinality(M) <= PathBound /\ PathBound \in Nat
         /\ M \subseteq Node /\ Null \notin M
         /\ \A i \in 1 .. Cardinality(M) : list[i] \in M /\ at[list[i]] = i
         /\ \A x \in M : /\ at[x] \in Int /\ 1 <= at[x] /\ at[x] <= Cardinality(M)
                         /\ list[at[x]] = x
         /\ \A i \in Int : AtPlace(list, i) = IF 1 <= i /\ i <= Cardinality(M) THEN list[i] ELSE Null
<1>1. /\ Cardinality(M) \in Nat /\ list \in Seq(Node) /\ Len(list) = Cardinality(M)
      /\ \A i \in 1 .. Cardinality(M) : list[i] \in M /\ at[list[i]] = i
      /\ \A x \in M : at[x] \in 1 .. Cardinality(M) /\ list[at[x]] = x
  BY DEF Placed
<1>2. M \subseteq Node /\ Null \notin M
  BY SoundTree
<1>3. Cardinality(M) <= PathBound /\ PathBound \in Nat
  BY ShapeSize DEF Sound
<1>4. DOMAIN list = 1 .. Cardinality(M)
  BY ONLY <1>1
<1>5. \A i \in Int : AtPlace(list, i) = IF 1 <= i /\ i <= Cardinality(M) THEN list[i] ELSE Null
  BY ONLY <1>1, <1>4 DEF AtPlace
<1>6. \A x \in M : at[x] \in Int /\ 1 <= at[x] /\ at[x] <= Cardinality(M)
  BY ONLY <1>1
<1> QED BY ONLY <1>1, <1>2, <1>3, <1>4, <1>5, <1>6

\* offset goes from a member to the one at the place it looks for.
LEMMA OffsetAt ==
  ASSUME NEW list, NEW M, NEW at, Placed(list, M, at), Sound(tree, M, at), NEW n \in M, NEW d \in Int
  PROVE  offset(n, d) = AtPlace(list, at[n] + d)
<1>1. PICK v : v = AVLNode_offset(tree, n, d)
  OBVIOUS
<1>2. IF v = Null THEN at[n] + d \notin 1 .. Cardinality(M) ELSE v \in M /\ at[v] = at[n] + d
  BY ONLY <1>1, Sound(tree, M, at), n \in M, d \in Int, OffsetIs
<1>3. /\ at[n] \in Int /\ n # Null /\ Cardinality(M) \in Nat
      /\ \A x \in M : 1 <= at[x] /\ at[x] <= Cardinality(M) /\ list[at[x]] = x
      /\ \A i \in Int : AtPlace(list, i) = IF 1 <= i /\ i <= Cardinality(M) THEN list[i] ELSE Null
  BY PlacedFacts
<1>4. offset(n, d) = v
  BY ONLY <1>1, <1>3 DEF offset
<1>5. PICK g \in Int : g = at[n] + d
  BY ONLY <1>3, d \in Int
<1>6. v = AtPlace(list, g)
  BY ONLY <1>2, <1>3, <1>5
<1> QED BY ONLY <1>4, <1>5, <1>6

\* One member more.
LEMMA AppendNext ==
  ASSUME NEW g, NEW k \in Nat \ {0}, \A i \in 1 .. k : g[i] \in Node
  PROVE  Append([i \in 1 .. k - 1 |-> g[i]], g[k]) = [i \in 1 .. k |-> g[i]]
<1> DEFINE p == [i \in 1 .. k - 1 |-> g[i]]
           q == [i \in 1 .. k |-> g[i]]
<1>1. p \in Seq(Node) /\ Len(p) = k - 1 /\ \A i \in 1 .. k - 1 : p[i] = g[i]
  OBVIOUS
<1>2. q \in Seq(Node) /\ Len(q) = k /\ \A i \in 1 .. k : q[i] = g[i]
  OBVIOUS
<1>3. g[k] \in Node
  OBVIOUS
<1> HIDE DEF p, q
<1>4. /\ Append(p, g[k]) \in Seq(Node) /\ Len(Append(p, g[k])) = k
      /\ \A i \in 1 .. k - 1 : Append(p, g[k])[i] = g[i]
      /\ Append(p, g[k])[k] = g[k]
  BY <1>1, <1>3
<1>5. \A i \in 1 .. k : Append(p, g[k])[i] = q[i]
  BY ONLY <1>2, <1>4, k \in Nat \ {0}
<1>6. Append(p, g[k]) = q
  BY <1>2, <1>4, <1>5, SeqEqual
<1> QED BY <1>6 DEF p, q

\* The least of two numbers.
LEMMA MinOfTwo ==
  ASSUME NEW a \in Int, NEW b \in Int
  PROVE  Min({a, b}) = IF a <= b THEN a ELSE b
<1> DEFINE m == IF a <= b THEN a ELSE b
<1>1. m \in {a, b} /\ \A y \in {a, b} : m <= y
  OBVIOUS
<1>2. \A x \in {a, b} : (\A y \in {a, b} : x <= y) => x = m
  OBVIOUS
<1> HIDE DEF m
<1>3. (CHOOSE x \in {a, b} : \A y \in {a, b} : x <= y) = m
  BY ONLY <1>1, <1>2
<1> QED BY <1>3 DEF Min, m

\* Up to limit members from a place on, forwards or backwards.
Stretch(list, from, step, limit) ==
  LET size == IF from \notin DOMAIN list THEN 0
              ELSE Min({limit, IF step = 1 THEN Len(list) + 1 - from ELSE from})
  IN  [i \in 1 .. size |-> list[from + step * (i - 1)]]

\* The loop of the queries lists the members from a place on, forwards or
\* backwards, as many as there are and as are asked for.
LEMMA ListFromIs ==
  ASSUME NEW list, NEW M, NEW at, Placed(list, M, at), Sound(tree, M, at), NEW from \in Int,
         NEW step \in {1, -1}, NEW limit \in Int, NEW n, n = AtPlace(list, from)
  PROVE  ListFrom(n, step, limit) = Stretch(list, from, step, limit)
<1> DEFINE N == Cardinality(M)
           place(i) == IF step = 1 THEN from + i ELSE from - i
           room == IF from \notin DOMAIN list THEN 0
                   ELSE IF step = 1 THEN Len(list) + 1 - from ELSE from
           sz(k) == IF k <= room THEN k ELSE room
           g == [i \in Nat |-> list[place(i - 1)]]
           P(k) == [i \in 1 .. k |-> g[i]]
           Z(k) == [node |-> AtPlace(list, place(sz(k))), out |-> P(sz(k))]
           S == [node : NullOr, out : Seq(Node)]
           round == [at1 \in S |->
                       IF at1.node = Null THEN at1
                       ELSE [node |-> offset(at1.node, step), out |-> Append(at1.out, at1.node)]]
           K == Larger(limit, 0)
           At(k) == Iterate(round, [node |-> n, out |-> <<>>], k)
<1>1. /\ N \in Nat /\ list \in Seq(Node) /\ Len(list) = N /\ DOMAIN list = 1 .. N
      /\ M \subseteq Node /\ Null \notin M
      /\ \A i \in 1 .. N : list[i] \in M /\ at[list[i]] = i
      /\ \A i \in Int : AtPlace(list, i) = IF 1 <= i /\ i <= N THEN list[i] ELSE Null
  BY PlacedFacts
<1>2. \A i \in Int : from + step * i = place(i) /\ place(i) \in Int
  <2>1. CASE step = 1
    BY <2>1
  <2>2. CASE step = -1
    BY <2>2
  <2> QED BY ONLY <2>1, <2>2, step \in {1, -1}
<1>3. /\ room \in Nat
      /\ \A i \in Nat : i < room => 1 <= place(i) /\ place(i) <= N
      /\ ~ (1 <= place(room) /\ place(room) <= N)
  BY ONLY <1>1, from \in Int, step \in {1, -1}
<1>4. \A i \in Nat : place(i + 1) = place(i) + step
  BY ONLY from \in Int, step \in {1, -1}
<1>5. \A i \in Nat : g[i] = list[place(i - 1)]
  OBVIOUS
<1>6. K \in Nat /\ sz(K) \in Nat /\ place(0) = from /\ sz(0) = 0
  BY <1>3 DEF Larger
<1>7. ListFrom(n, step, limit) = At(K).out
  BY DEF ListFrom
<1>8. At(0) = [node |-> n, out |-> <<>>] /\ \A k \in Nat \ {0} : At(k) = round[At(k - 1)]
  <2> HIDE DEF round, S, K, Z, P, g, sz, room, place, N
  <2> QED BY ONLY IterateSteps, Zenon
<1>9. \A k \in Nat : k <= room => \A i \in 1 .. k : g[i] = list[place(i - 1)] /\ g[i] \in M /\ g[i] \in Node
  <2>1. ASSUME NEW k \in Nat, k <= room, NEW i \in 1 .. k
        PROVE  g[i] = list[place(i - 1)] /\ g[i] \in M
    <3>1. i - 1 \in Nat /\ i \in Nat /\ i - 1 < room
      BY ONLY <1>3, <2>1
    <3>2. g[i] = list[place(i - 1)] /\ place(i - 1) \in 1 .. N
      <4>1. 1 <= place(i - 1) /\ place(i - 1) <= N /\ place(i - 1) \in Int
        BY ONLY <1>2, <1>3, <3>1
      <4> HIDE DEF g, place
      <4> QED BY ONLY <1>1, <1>5, <3>1, <4>1
    <3> HIDE DEF g, place
    <3> QED BY ONLY <1>1, <3>2
  <2> HIDE DEF g, place, room
  <2> QED BY ONLY <1>1, <2>1
<1>10. \A i \in Nat : P(i) = [j \in 1 .. i |-> g[j]]
  OBVIOUS
<1> HIDE DEF g, P, place, room, K, N
<1>11. ASSUME NEW k \in Nat, k <= room PROVE P(k) \in Seq(Node)
  <2>1. \A i \in 1 .. k : g[i] \in Node
    BY ONLY <1>9, <1>11
  <2>2. P(k) = [j \in 1 .. k |-> g[j]]
    BY ONLY <1>10, <1>11
  <2> QED BY ONLY k \in Nat, <2>1, <2>2
<1>12. ASSUME NEW y \in S, y.node = Null PROVE round[y] = y
  BY ONLY <1>12
<1>13. ASSUME NEW y \in S, y.node # Null
       PROVE  round[y] = [node |-> offset(y.node, step), out |-> Append(y.out, y.node)]
  BY ONLY <1>13
<1>14. ASSUME NEW i \in Nat, i <= room
       PROVE  [node |-> AtPlace(list, place(i)), out |-> P(i)] \in S
  <2>1. P(i) \in Seq(Node) /\ place(i) \in Int
    BY ONLY <1>2, <1>11, <1>14
  <2>2. AtPlace(list, place(i)) \in NullOr
    BY ONLY <1>1, <2>1 DEF NullOr
  <2> QED BY ONLY <2>1, <2>2
<1> HIDE DEF round, S, At
<1>15. At(0) = Z(0)
  <2>1. P(0) = <<>> /\ AtPlace(list, place(0)) = n
    BY ONLY <1>6, <1>10, n = AtPlace(list, from)
  <2> QED BY ONLY <1>6, <1>8, <2>1
<1>16. ASSUME NEW k \in Nat \ {0}, At(k - 1) = Z(k - 1) PROVE At(k) = Z(k)
  <2>1. At(k) = round[Z(k - 1)]
    BY ONLY <1>8, <1>16
  <2>2. CASE k <= room
    <3>1. /\ sz(k) = k /\ sz(k - 1) = k - 1 /\ k - 1 \in Nat /\ k - 1 < room /\ k - 1 <= room
          /\ k - 1 \in Int /\ k - 1 + 1 = k
      BY ONLY <1>3, <1>16, <2>2
    <3>2. PICK x : x = AtPlace(list, place(k - 1))
      OBVIOUS
    <3>3. x = list[place(k - 1)] /\ place(k - 1) \in 1 .. N
      <4>1. place(k - 1) \in Int /\ 1 <= place(k - 1) /\ place(k - 1) <= N
        BY ONLY <1>2, <1>3, <3>1
      <4> QED BY ONLY <1>1, <3>2, <4>1
    <3>4. x \in M /\ at[x] = place(k - 1) /\ x # Null
      BY ONLY <1>1, <3>3
    <3>5. offset(x, step) = AtPlace(list, place(k))
      <4>1. step \in Int
        BY ONLY step \in {1, -1}
      <4>2. offset(x, step) = AtPlace(list, at[x] + step)
        BY ONLY <3>4, <4>1, OffsetAt, Placed(list, M, at), Sound(tree, M, at)
      <4>3. place(k - 1 + 1) = place(k - 1) + step
        BY ONLY <1>4, <3>1
      <4> QED BY ONLY <3>1, <3>4, <4>2, <4>3
    <3>6. Append(P(k - 1), x) = P(k)
      <4>1. /\ \A i \in 1 .. k : g[i] \in Node
            /\ g[k] = x /\ P(k - 1) = [i \in 1 .. k - 1 |-> g[i]] /\ P(k) = [i \in 1 .. k |-> g[i]]
        <5>1. \A i \in 1 .. k : g[i] = list[place(i - 1)] /\ g[i] \in Node
          BY ONLY <1>9, <1>16, <2>2
        <5>2. k \in 1 .. k
          BY ONLY <1>16
        <5>3. P(k - 1) = [i \in 1 .. k - 1 |-> g[i]] /\ P(k) = [i \in 1 .. k |-> g[i]]
          BY ONLY <1>10, <1>16, <3>1
        <5> QED BY ONLY <3>3, <5>1, <5>2, <5>3
      <4>2. Append([i \in 1 .. k - 1 |-> g[i]], g[k]) = [i \in 1 .. k |-> g[i]]
        BY ONLY <1>16, <4>1, AppendNext
      <4> QED BY ONLY <4>1, <4>2
    <3>7. PICK y : y = [node |-> x, out |-> P(k - 1)]
      OBVIOUS
    <3>8. y \in S /\ y.node = x /\ y.out = P(k - 1) /\ Z(k - 1) = y
      BY ONLY <1>14, <3>1, <3>2, <3>7
    <3>9. round[y] = [node |-> offset(x, step), out |-> Append(P(k - 1), x)]
      BY ONLY <1>13, <3>4, <3>8
    <3> QED BY ONLY <2>1, <3>1, <3>5, <3>6, <3>8, <3>9
  <2>3. CASE ~ (k <= room)
    <3>1. sz(k) = room /\ sz(k - 1) = room /\ room <= room
      BY ONLY <1>3, <1>16, <2>3
    <3>2. AtPlace(list, place(room)) = Null
      <4>1. place(room) \in Int /\ ~ (1 <= place(room) /\ place(room) <= N)
        BY ONLY <1>2, <1>3
      <4> QED BY ONLY <1>1, <4>1
    <3>3. PICK y : y = [node |-> AtPlace(list, place(room)), out |-> P(room)]
      OBVIOUS
    <3>4. y \in S /\ y.node = Null /\ Z(k - 1) = y /\ Z(k) = y
      BY ONLY <1>3, <1>14, <3>1, <3>2, <3>3
    <3>5. round[y] = y
      BY ONLY <1>12, <3>4
    <3> QED BY ONLY <2>1, <3>4, <3>5
  <2> QED BY ONLY <2>2, <2>3
<1>17. At(K) = Z(K)
  <2> DEFINE Q == {k \in 0 .. K : At(k) = Z(k)}
  <2>1. 0 \in Q
    BY ONLY <1>6, <1>15
  <2>2. ASSUME NEW k \in 1 .. K, k - 1 \in Q PROVE k \in Q
    <3>1. k \in Nat \ {0} /\ k \in 0 .. K /\ At(k - 1) = Z(k - 1)
      BY ONLY <1>6, <2>2
    <3>2. At(k) = Z(k)
      BY ONLY <1>16, <3>1
    <3> HIDE DEF Z
    <3> QED BY ONLY <3>1, <3>2
  <2>3. K \in 0 .. K
    BY ONLY <1>6
  <2> HIDE DEF Q
  <2>4. \A k \in 0 .. K : k \in Q
    BY ONLY <1>6, <2>1, <2>2, UpToInduction
  <2> QED BY ONLY <2>3, <2>4 DEF Q
<1>18. ListFrom(n, step, limit) = P(sz(K))
  BY ONLY <1>7, <1>17
<1> DEFINE end == IF step = 1 THEN Len(list) + 1 - from ELSE from
           size == IF from \notin DOMAIN list THEN 0 ELSE Min({limit, end})
<1>19. 1 .. size = 1 .. sz(K) /\ sz(K) <= room /\ size \in Int
  <2>1. end \in Int /\ room = IF from \notin DOMAIN list THEN 0 ELSE end
    BY ONLY <1>1, from \in Int DEF room
  <2>2. Min({limit, end}) = IF limit <= end THEN limit ELSE end
    BY ONLY <2>1, limit \in Int, MinOfTwo
  <2>3. K = IF limit > 0 THEN limit ELSE 0
    BY DEF K, Larger
  <2> HIDE DEF end
  <2> QED BY ONLY <1>3, <2>1, <2>2, <2>3, limit \in Int
<1>20. \A i \in 1 .. sz(K) : g[i] = list[from + step * (i - 1)]
  <2>1. ASSUME NEW i \in 1 .. sz(K) PROVE g[i] = list[from + step * (i - 1)]
    <3>1. i - 1 \in Int /\ g[i] = list[place(i - 1)]
      BY ONLY <1>6, <1>9, <1>19, <2>1
    <3>2. from + step * (i - 1) = place(i - 1)
      BY ONLY <1>2, <3>1
    <3> QED BY ONLY <3>1, <3>2
  <2> QED BY ONLY <2>1
<1>21. P(sz(K)) = [i \in 1 .. sz(K) |-> g[i]]
  BY ONLY <1>6, <1>10
<1> HIDE DEF size, sz
<1>22. P(sz(K)) = [i \in 1 .. size |-> list[from + step * (i - 1)]]
  BY ONLY <1>19, <1>20, <1>21
<1> QED BY ONLY <1>18, <1>22 DEF size, end, Stretch

\* The number of members between two places.
LEMMA CountBetween ==
  ASSUME NEW M, NEW at, NEW list, Placed(list, M, at), NEW i \in 1 .. Cardinality(M) + 1,
         NEW j \in 1 .. Cardinality(M) + 1, i <= j,
         NEW S, S = {x \in M : i <= at[x] /\ at[x] < j}
  PROVE  Cardinality(S) = j - i
<1> DEFINE A == {x \in M : at[x] < i}
           B == {x \in M : at[x] < j}
<1>1. Cardinality(M) \in Nat /\ \A x \in M : at[x] \in Int
  BY DEF Placed
<1>2. i \in Nat /\ j \in Nat
  BY ONLY <1>1, i \in 1 .. Cardinality(M) + 1, j \in 1 .. Cardinality(M) + 1
<1>3. A \subseteq B /\ S = B \ A /\ B \cap A = A
  BY ONLY <1>1, <1>2, i <= j, S = {x \in M : i <= at[x] /\ at[x] < j}
<1>4. Cardinality(A) = i - 1 /\ Cardinality(B) = j - 1 /\ IsFiniteSet(B)
  BY CountBefore
<1> HIDE DEF A, B
<1>5. Cardinality(B \ A) = Cardinality(B) - Cardinality(B \cap A)
  BY ONLY <1>4, FS_Difference
<1>6. Cardinality(S) = Cardinality(B) - Cardinality(A)
  BY ONLY <1>3, <1>5, Zenon
<1> QED BY ONLY <1>2, <1>4, <1>6

\* A later member has no lower score.
LEMMA ScoreOrder ==
  ASSUME NEW sc, NEW M, NEW at, Sorted(sc, M, at), NEW x \in M, NEW y \in M,
         at[x] \in Int, at[y] \in Int, at[x] <= at[y]
  PROVE  sc[x] \in Int /\ sc[y] \in Int /\ sc[x] <= sc[y]
<1>1. sc[x] \in Int /\ sc[y] \in Int /\ ~ zless(sc[y], y, sc[x], x)
  <2>1. zless(sc[y], y, sc[x], x) <=> at[y] < at[x]
    BY DEF Sorted
  <2>2. sc[x] \in Int /\ sc[y] \in Int
    BY DEF Sorted
  <2> QED BY ONLY <2>1, <2>2, at[x] \in Int, at[y] \in Int, at[x] <= at[y]
<1>2. ~ (sc[y] < sc[x])
  BY ONLY <1>1, ZlessInt
<1> QED BY ONLY <1>1, <1>2

\* The loop of do_zcount counts the members from a place on whose score is at
\* most max.
LEMMA CountFromIs ==
  ASSUME NEW list, NEW M, NEW at, Placed(list, M, at), Sound(tree, M, at), Sorted(score, M, at),
         NEW b \in 1 .. Cardinality(M) + 1, NEW n, n = AtPlace(list, b), NEW max \in Int,
         NEW T, T = {x \in M : b <= at[x] /\ score[x] <= max}
  PROVE  CountFrom(n, max) = Cardinality(T)
<1> DEFINE N == Cardinality(M)
           S == [node : NullOr, count : Nat]
           Past(z) == z.node = Null \/ score[z.node] > max
           Counting(z) == /\ b + z.count <= N + 1 /\ z.node = AtPlace(list, b + z.count)
                          /\ \A x \in M : b <= at[x] /\ at[x] < b + z.count => score[x] <= max
           round == [at1 \in S |->
                       IF at1.node = Null THEN at1
                       ELSE IF ~ AtMost(score[at1.node], max) THEN at1
                       ELSE [node |-> offset(at1.node, 1), count |-> at1.count + 1]]
           R == {z \in S : Counting(z)}
           size == [z \in R |-> IF Past(z) THEN 0 ELSE N + 1 - b - z.count]
           start == [node |-> n, count |-> 0]
           end == Iterate(round, start, PathBound)
<1>1. /\ N \in Nat /\ PathBound \in Nat /\ N <= PathBound /\ M \subseteq Node /\ Null \notin M
      /\ \A i \in 1 .. N : list[i] \in M /\ at[list[i]] = i
      /\ \A x \in M : at[x] \in Int /\ 1 <= at[x] /\ at[x] <= N
      /\ \A i \in Int : AtPlace(list, i) = IF 1 <= i /\ i <= N THEN list[i] ELSE Null
  BY PlacedFacts
<1>2. /\ b \in Nat /\ 1 <= b /\ b <= N + 1
      /\ \A x \in M : score[x] \in Int
      /\ \A x, y \in M : at[x] <= at[y] => score[x] <= score[y]
  <2>1. b \in Nat /\ 1 <= b /\ b <= N + 1
    BY ONLY <1>1, b \in 1 .. Cardinality(M) + 1
  <2>2. \A x \in M : score[x] \in Int
    BY ONLY Sorted(score, M, at) DEF Sorted
  <2>3. \A x, y \in M : at[x] <= at[y] => score[x] <= score[y]
    BY ONLY <1>1, Sorted(score, M, at), ScoreOrder
  <2> QED BY ONLY <2>1, <2>2, <2>3
<1> HIDE DEF N
<1>3. ASSUME NEW z \in R
      PROVE  /\ z \in S /\ Counting(z) /\ z.count \in Nat
             /\ z.node = Null \/ z.node \in M
             /\ size[z] = IF Past(z) THEN 0 ELSE N + 1 - b - z.count
             /\ z.node # Null => z.node \in M /\ at[z.node] = b + z.count /\ b + z.count <= N
  <2>1. z \in S /\ Counting(z) /\ size[z] = IF Past(z) THEN 0 ELSE N + 1 - b - z.count
    OBVIOUS
  <2>2. z.count \in Nat /\ b + z.count <= N + 1 /\ z.node = AtPlace(list, b + z.count)
    BY ONLY <2>1
  <2>3. PICK i \in Int : i = b + z.count
    BY ONLY <1>2, <2>2
  <2>4. 1 <= i
    BY ONLY <1>2, <2>2, <2>3
  <2>5. z.node # Null => z.node \in M /\ at[z.node] = i /\ i <= N
    <3>1. z.node = IF 1 <= i /\ i <= N THEN list[i] ELSE Null
      BY ONLY <1>1, <2>2, <2>3
    <3>2. i <= N => i \in 1 .. N
      BY ONLY <1>1, <2>4
    <3> QED BY ONLY <1>1, <3>1, <3>2
  <2> QED BY ONLY <2>1, <2>2, <2>3, <2>5
<1>4. ASSUME NEW z \in R
      PROVE  /\ round[z] \in R /\ size[z] \in Nat /\ size[z] <= PathBound
             /\ size[z] = 0 => size[round[z]] = 0 /\ Past(z)
             /\ size[z] # 0 => size[round[z]] < size[z]
  <2>1. /\ z \in S /\ Counting(z) /\ z.count \in Nat
        /\ size[z] = IF Past(z) THEN 0 ELSE N + 1 - b - z.count
        /\ z.node # Null => z.node \in M /\ at[z.node] = b + z.count /\ b + z.count <= N
    BY ONLY <1>3, <1>4
  <2>2. size[z] \in Nat /\ size[z] <= PathBound /\ (size[z] = 0 <=> Past(z))
    <3> HIDE DEF size, R
    <3> QED BY ONLY <1>1, <1>2, <2>1
  <2>3. CASE Past(z)
    <3>1. round[z] = z
      <4>1. z.node # Null => ~ AtMost(score[z.node], max)
        BY ONLY <1>2, <2>1, <2>3, max \in Int DEF AtMost
      <4> QED BY ONLY <2>1, <4>1
    <3> HIDE DEF size, R, Past, round
    <3> QED BY ONLY <1>4, <2>2, <2>3, <3>1
  <2>4. CASE ~ Past(z)
    <3>1. PICK x : x = z.node
      OBVIOUS
    <3>2. /\ x \in M /\ x # Null /\ score[x] <= max /\ at[x] = b + z.count /\ b + z.count <= N
          /\ score[x] \in Int
      BY ONLY <1>2, <2>1, <2>4, <3>1, max \in Int
    <3>3. AtMost(score[x], max)
      BY ONLY <3>2, max \in Int, ScoreAssumption DEF AtMost
    <3>4. round[z] = [node |-> offset(x, 1), count |-> z.count + 1]
      BY ONLY <2>1, <3>1, <3>2, <3>3
    <3>5. offset(x, 1) = AtPlace(list, at[x] + 1)
      BY ONLY <3>2, OffsetAt, Placed(list, M, at), Sound(tree, M, at)
    <3>6. PICK y : y = round[z]
      OBVIOUS
    <3>7. /\ y.count = z.count + 1 /\ y.node = AtPlace(list, b + y.count)
          /\ y = [node |-> y.node, count |-> y.count]
      <4>1. at[x] + 1 = b + (z.count + 1)
        BY ONLY <1>2, <2>1, <3>2
      <4> QED BY ONLY <3>4, <3>5, <3>6, <4>1
    <3>8. y \in S
      <4>1. y.count \in Nat /\ b + y.count \in Int
        BY ONLY <1>2, <2>1, <3>7
      <4>2. y.node \in NullOr
        <5>1. PICK i \in Int : i = b + y.count
          BY ONLY <4>1
        <5>2. y.node = IF 1 <= i /\ i <= N THEN list[i] ELSE Null
          BY ONLY <1>1, <3>7, <5>1
        <5>3. 1 <= i /\ i <= N => i \in 1 .. N
          BY ONLY <1>1, <5>1
        <5> QED BY ONLY <1>1, <5>2, <5>3 DEF NullOr
      <4> QED BY ONLY <3>7, <4>1, <4>2
    <3>9. Counting(y)
      <4>1. b + y.count <= N + 1
        BY ONLY <1>1, <1>2, <2>1, <3>2, <3>7
      <4>2. \A v \in M : b <= at[v] /\ at[v] < b + y.count => score[v] <= max
        <5>1. ASSUME NEW v \in M, at[v] < b + y.count PROVE score[v] <= max
          <6>1. at[v] <= at[x]
            BY ONLY <1>1, <1>2, <2>1, <3>2, <3>7, <5>1
          <6>2. score[v] <= score[x] /\ score[v] \in Int
            BY ONLY <1>2, <3>2, <5>1, <6>1
          <6> QED BY ONLY <3>2, <6>2, max \in Int
        <5> QED BY ONLY <5>1
      <4> QED BY ONLY <3>7, <4>1, <4>2
    <3>10. y \in R
      BY ONLY <3>8, <3>9
    <3>11. size[y] \in {0, N + 1 - b - y.count} /\ size[z] = N + 1 - b - z.count
      <4>1. size[y] = IF Past(y) THEN 0 ELSE N + 1 - b - y.count
        BY ONLY <1>3, <3>10
      <4> HIDE DEF size, R, Past
      <4> QED BY ONLY <2>1, <2>4, <4>1
    <3> HIDE DEF size, R, Past, round
    <3>12. size[z] # 0 /\ size[y] < size[z]
      BY ONLY <1>1, <1>2, <2>1, <2>2, <2>4, <3>2, <3>7, <3>11
    <3> QED BY ONLY <2>2, <3>6, <3>10, <3>12
  <2> QED BY ONLY <2>3, <2>4
<1>5. start \in R
  <2>1. n \in NullOr
    <3>1. b \in Int /\ (b <= N => b \in 1 .. N)
      BY ONLY <1>1, <1>2
    <3> QED BY ONLY <1>1, <3>1, n = AtPlace(list, b) DEF NullOr
  <2>2. start \in S /\ start.count = 0 /\ start.node = n
    BY ONLY <2>1
  <2>3. b + start.count = b /\ \A x \in M : ~ (b <= at[x] /\ at[x] < b)
    BY ONLY <1>1, <1>2, <2>2
  <2> HIDE DEF start
  <2>4. Counting(start)
    BY ONLY <1>2, <2>2, <2>3, n = AtPlace(list, b)
  <2> QED BY ONLY <2>2, <2>4
<1>6. size \in [R -> Nat] /\ size[start] <= PathBound
  <2>1. size = [z \in R |-> size[z]]
    OBVIOUS
  <2> HIDE DEF size, R, start
  <2> QED BY ONLY <1>4, <1>5, <2>1
<1>7. end \in R /\ size[end] = 0
  <2> HIDE DEF size, R, start, Past, round
  <2> QED BY ONLY <1>1, <1>4, <1>5, <1>6, LoopEnds
<1>8. CountFrom(n, max) = end.count
  BY DEF CountFrom
<1>9. Past(end)
  <2> HIDE DEF size, R, start, Past, round, end
  <2> QED BY ONLY <1>4, <1>7
<1> HIDE DEF end
<1>10. /\ Counting(end) /\ end.count \in Nat
       /\ end.node # Null => end.node \in M /\ at[end.node] = b + end.count
  <2> HIDE DEF size, R, start, round, Counting, Past
  <2> QED BY ONLY <1>3, <1>7
<1>11. PICK j \in Int : j = b + end.count
  BY ONLY <1>2, <1>10
<1>12. j <= N + 1 /\ b <= j /\ end.node = AtPlace(list, j)
       /\ \A x \in M : b <= at[x] /\ at[x] < j => score[x] <= max
  BY ONLY <1>2, <1>10, <1>11
<1>13. \A x \in M : j <= at[x] => ~ (score[x] <= max)
  <2>1. ASSUME NEW x \in M, j <= at[x] PROVE ~ (score[x] <= max)
    <3>1. CASE end.node = Null
      <4>1. 1 <= j /\ j <= N
        BY ONLY <1>1, <1>2, <1>12, <2>1
      <4>2. j \in 1 .. N /\ end.node = list[j]
        BY ONLY <1>1, <1>12, <4>1
      <4> QED BY ONLY <1>1, <3>1, <4>2
    <3>2. CASE end.node # Null
      <4>1. end.node \in M /\ at[end.node] <= at[x] /\ score[end.node] > max
        BY ONLY <1>9, <1>10, <1>11, <2>1, <3>2
      <4>2. score[end.node] <= score[x] /\ score[x] \in Int /\ score[end.node] \in Int
        BY ONLY <1>2, <2>1, <4>1
      <4> QED BY ONLY <4>1, <4>2, max \in Int
    <3> QED BY ONLY <3>1, <3>2
  <2> QED BY ONLY <2>1
<1>14. T = {x \in M : b <= at[x] /\ at[x] < j}
  <2>1. \A x \in M : at[x] < j \/ j <= at[x]
    BY ONLY <1>1
  <2> QED BY ONLY <1>12, <1>13, <2>1, T = {x \in M : b <= at[x] /\ score[x] <= max}
<1>15. Cardinality(T) = j - b
  <2>1. j \in 1 .. Cardinality(M) + 1
    BY ONLY <1>1, <1>2, <1>12 DEF N
  <2> QED BY ONLY <1>12, <1>14, <2>1, CountBetween, Placed(list, M, at), b \in 1 .. Cardinality(M) + 1
<1> QED BY ONLY <1>2, <1>8, <1>10, <1>11, <1>15

\* A query from a place that offset moves away from v, where v is the member
\* at the place b or none.
LEMMA QueryIs ==
  ASSUME NEW list, NEW M, NEW at, Placed(list, M, at), Sound(tree, M, at), NEW step \in {1, -1},
         NEW limit \in Int, NEW d \in Int, NEW b \in Int, NEW v,
         v # Null => v \in M /\ at[v] = b
  PROVE  ListFrom(offset(v, d), step, limit) =
           IF v = Null THEN <<>>
           ELSE Stretch(list, b + d, step, limit)
<1>1. /\ Cardinality(M) \in Nat
      /\ DOMAIN list = 1 .. Cardinality(M)
      /\ \A i \in Int : AtPlace(list, i) = IF 1 <= i /\ i <= Cardinality(M) THEN list[i] ELSE Null
  BY PlacedFacts
<1>2. CASE v = Null
  <2>1. 0 \notin DOMAIN list /\ 0 \in Int
    BY ONLY <1>1
  <2>2. offset(v, d) = AtPlace(list, 0)
    BY ONLY <1>2, <2>1 DEF offset, AtPlace
  <2>3. PICK n : n = AtPlace(list, 0)
    OBVIOUS
  <2>4. ListFrom(n, step, limit) = Stretch(list, 0, step, limit)
    BY ONLY <2>1, <2>3, ListFromIs, Placed(list, M, at), Sound(tree, M, at), step \in {1, -1}, limit \in Int
  <2>5. ListFrom(n, step, limit) = <<>>
    BY ONLY <2>1, <2>4 DEF Stretch
  <2> QED BY ONLY <1>2, <2>2, <2>3, <2>5
<1>3. CASE v # Null
  <2>1. PICK from \in Int : from = b + d
    BY ONLY b \in Int, d \in Int
  <2>2. PICK n : n = AtPlace(list, from)
    OBVIOUS
  <2>3. v \in M /\ at[v] = b
    BY ONLY <1>3, v # Null => v \in M /\ at[v] = b
  <2>4. offset(v, d) = AtPlace(list, at[v] + d)
    BY ONLY <2>3, OffsetAt, Placed(list, M, at), Sound(tree, M, at), d \in Int
  <2>5. ListFrom(n, step, limit) = Stretch(list, from, step, limit)
    BY ONLY <2>1, <2>2, ListFromIs, Placed(list, M, at), Sound(tree, M, at), step \in {1, -1}, limit \in Int
  <2> QED BY ONLY <1>3, <2>1, <2>2, <2>3, <2>4, <2>5
<1> QED BY ONLY <1>2, <1>3

\* What the queries answer.
LEMMA QueriesFromInv ==
  ASSUME IInv
  PROVE  QueriesMatch
<1> SUFFICES ASSUME ordered PROVE QueriesMatch
  BY DEF QueriesMatch
<1>1. PICK at : Sound(tree, hmap, at) /\ Sorted(score, hmap, at)
  BY DEF IInv, TreeInv, TreeOK
<1> DEFINE list == Ranking
<1>2. list = Ranking
  OBVIOUS
<1> HIDE DEF list
<1>3. Placed(list, hmap, at)
  <2>1. Listing = Ranking
    BY OrderFromInv DEF InOrder
  <2> QED BY ONLY <1>1, <1>2, <2>1, ListingPlaced
<1> DEFINE N == Cardinality(hmap)
           Scores == {i[2] : i \in input} \ {NaN}
<1>4. /\ N \in Nat /\ Len(list) = N /\ DOMAIN list = 1 .. N /\ Null \notin hmap /\ hmap \subseteq Node
      /\ \A x \in hmap : at[x] \in Int /\ 1 <= at[x] /\ at[x] <= N /\ list[at[x]] = x
      /\ \A i \in Int : AtPlace(list, i) = IF 1 <= i /\ i <= N THEN list[i] ELSE Null
  BY ONLY <1>1, <1>3, PlacedFacts
<1>5. \A s \in Scores : s \in Int
  <2>1. \A i \in input : i[2] # NaN => i[2] \in Int
    BY InputPairs DEF IInv
  <2> QED BY ONLY <2>1
<1>6. \A n \in hmap \cup {NoName} : n \in Int
  BY <1>4, NameAssumption DEF NoName
<1> HIDE DEF N
<1>7. ASSUME NEW j \in Int, 1 <= j, j <= N + 1
      PROVE  Cardinality({x \in hmap : at[x] < j}) = j - 1
  <2>1. j \in 1 .. Cardinality(hmap) + 1
    BY ONLY <1>4, <1>7 DEF N
  <2> QED BY ONLY <1>3, <2>1, CountBefore
<1> DEFINE OffsetsAndLimits == {<<0, Len(list)>>, <<-1, 2>>, <<2, 1>>, <<0, -1>>}
           Part(from, step, limit) == Stretch(list, from, step, limit)
           lower(s, n) == Cardinality({m \in hmap : zless(score[m], m, s, n)})
           upto(s, n) == Cardinality({m \in hmap : ~ zgreater(score[m], m, s, n)})
<1>8. ASSUME NEW s \in Int, NEW n \in Int, NEW d \in Int, NEW limit \in Int
      PROVE  do_zqueryge(s, n, d, limit) =
               IF lower(s, n) = Len(list) THEN <<>> ELSE Part(lower(s, n) + 1 + d, 1, limit)
  <2>1. PICK v : v = seekge(s, n)
    OBVIOUS
  <2>2. IF v = Null THEN \A x \in hmap : zless(score[x], x, s, n)
        ELSE v \in hmap /\ \A x \in hmap : zless(score[x], x, s, n) <=> at[x] < at[v]
    BY ONLY <1>1, <1>8, <2>1, SeekgeIs
  <2>3. PICK b : b = lower(s, n) + 1
    OBVIOUS
  <2>4. /\ b \in Int /\ (v # Null => v \in hmap /\ at[v] = b)
        /\ v = Null <=> lower(s, n) = Len(list)
    <3>1. CASE v = Null
      <4>1. {m \in hmap : zless(score[m], m, s, n)} = hmap
        BY ONLY <2>2, <3>1
      <4>2. lower(s, n) = N
        BY ONLY <4>1 DEF N
      <4> QED BY ONLY <1>4, <2>3, <3>1, <4>2
    <3>2. CASE v # Null
      <4>1. {m \in hmap : zless(score[m], m, s, n)} = {x \in hmap : at[x] < at[v]}
        BY ONLY <2>2, <3>2
      <4>2. v \in hmap /\ at[v] \in Int /\ 1 <= at[v] /\ at[v] <= N /\ at[v] <= N + 1
        BY ONLY <1>4, <2>2, <3>2
      <4>3. lower(s, n) = at[v] - 1
        BY ONLY <1>7, <4>1, <4>2
      <4> HIDE DEF lower
      <4> QED BY ONLY <1>4, <2>3, <3>2, <4>2, <4>3
    <3> QED BY ONLY <3>1, <3>2
  <2>5. ListFrom(offset(v, d), 1, limit) =
          IF v = Null THEN <<>> ELSE Stretch(list, b + d, 1, limit)
    <3>1. 1 \in {1, -1}
      OBVIOUS
    <3> QED BY ONLY <1>1, <1>3, <1>8, <2>4, <3>1, QueryIs
  <2>6. do_zqueryge(s, n, d, limit) = ListFrom(offset(v, d), 1, limit)
    BY ONLY <2>1 DEF do_zqueryge
  <2> HIDE DEF lower
  <2> QED BY ONLY <2>3, <2>4, <2>5, <2>6
<1>9. ASSUME NEW s \in Int, NEW n \in Int, NEW d \in Int, NEW limit \in Int
      PROVE  do_zqueryle(s, n, d, limit) =
               IF upto(s, n) = 0 THEN <<>> ELSE Part(upto(s, n) + d, -1, limit)
  <2>1. PICK v : v = seekle(s, n)
    OBVIOUS
  <2>2. IF v = Null THEN \A x \in hmap : zgreater(score[x], x, s, n)
        ELSE v \in hmap /\ \A x \in hmap : zgreater(score[x], x, s, n) <=> at[x] > at[v]
    BY ONLY <1>1, <1>9, <2>1, SeekleIs
  <2>3. PICK b : b = upto(s, n)
    OBVIOUS
  <2>4. /\ b \in Int /\ (v # Null => v \in hmap /\ at[v] = b)
        /\ v = Null <=> upto(s, n) = 0
    <3>1. CASE v = Null
      <4>1. {m \in hmap : ~ zgreater(score[m], m, s, n)} = {}
        BY ONLY <2>2, <3>1
      <4>2. upto(s, n) = 0
        BY ONLY <4>1, FS_EmptySet
      <4> HIDE DEF upto
      <4> QED BY ONLY <2>3, <3>1, <4>2
    <3>2. CASE v # Null
      <4>1. PICK j : j = at[v] + 1
        OBVIOUS
      <4>2. v \in hmap /\ at[v] \in Int /\ 1 <= at[v] /\ j \in Int /\ 1 <= j /\ j <= N + 1
        BY ONLY <1>4, <2>2, <3>2, <4>1
      <4>3. {m \in hmap : ~ zgreater(score[m], m, s, n)} = {x \in hmap : at[x] < j}
        <5>1. \A x \in hmap : ~ (at[x] > at[v]) <=> at[x] < j
          BY ONLY <1>4, <4>1, <4>2
        <5> QED BY ONLY <2>2, <3>2, <5>1
      <4>4. upto(s, n) = at[v]
        <5>1. upto(s, n) = j - 1
          BY ONLY <1>7, <4>2, <4>3
        <5> QED BY ONLY <4>1, <4>2, <5>1
      <4> HIDE DEF upto
      <4> QED BY ONLY <2>3, <3>2, <4>2, <4>4
    <3> QED BY ONLY <3>1, <3>2
  <2>5. ListFrom(offset(v, d), -1, limit) =
          IF v = Null THEN <<>> ELSE Stretch(list, b + d, -1, limit)
    <3>1. -1 \in {1, -1}
      OBVIOUS
    <3> QED BY ONLY <1>1, <1>3, <1>9, <2>4, <3>1, QueryIs
  <2>6. do_zqueryle(s, n, d, limit) = ListFrom(offset(v, d), -1, limit)
    BY ONLY <2>1 DEF do_zqueryle
  <2> HIDE DEF upto
  <2> QED BY ONLY <2>3, <2>4, <2>5, <2>6
<1>10. ASSUME NEW s \in Int, NEW max \in Int
       PROVE  do_zcount(s, max) = Cardinality({m \in hmap : s <= score[m] /\ score[m] <= max})
  <2>1. PICK v : v = seekge(s, NoName)
    OBVIOUS
  <2>2. IF v = Null THEN \A x \in hmap : zless(score[x], x, s, NoName)
        ELSE v \in hmap /\ \A x \in hmap : zless(score[x], x, s, NoName) <=> at[x] < at[v]
    BY ONLY <1>1, <1>6, <1>10, <2>1, SeekgeIs
  <2>3. \A x \in hmap : score[x] \in Int /\ (zless(score[x], x, s, NoName) <=> ~ (s <= score[x]))
    <3>1. ASSUME NEW x \in hmap
          PROVE  score[x] \in Int /\ (zless(score[x], x, s, NoName) <=> ~ (s <= score[x]))
      <4>1. score[x] \in Int
        BY ONLY <1>1, <3>1 DEF Sorted
      <4>2. zless(score[x], x, s, NoName) <=> score[x] < s \/ (score[x] = s /\ x < NoName)
        BY ONLY <1>10, <4>1, ZlessInt
      <4>3. ~ (x < NoName)
        BY ONLY <1>4, <3>1, NameAssumption DEF NoName
      <4> QED BY ONLY <1>10, <4>1, <4>2, <4>3
    <3> QED BY ONLY <3>1
  <2>4. PICK b : b = IF v = Null THEN N + 1 ELSE at[v]
    OBVIOUS
  <2>5. /\ b \in Int /\ 1 <= b /\ b <= N + 1 /\ v = AtPlace(list, b)
        /\ \A x \in hmap : s <= score[x] <=> b <= at[x]
    <3>1. CASE v = Null
      <4>1. b = N + 1 /\ N + 1 \in Int /\ ~ (N + 1 <= N) /\ 1 <= N + 1
        BY ONLY <1>4, <2>4, <3>1
      <4>2. v = AtPlace(list, b)
        BY ONLY <1>4, <3>1, <4>1
      <4>3. \A x \in hmap : ~ (s <= score[x]) /\ ~ (b <= at[x])
        BY ONLY <1>4, <2>2, <2>3, <3>1, <4>1
      <4> QED BY ONLY <4>1, <4>2, <4>3
    <3>2. CASE v # Null
      <4>1. v \in hmap /\ b = at[v] /\ b \in Int /\ 1 <= b /\ b <= N /\ b <= N + 1
        BY ONLY <1>4, <2>2, <2>4, <3>2
      <4>2. v = AtPlace(list, b)
        BY ONLY <1>4, <4>1
      <4>3. \A x \in hmap : s <= score[x] <=> b <= at[x]
        BY ONLY <1>4, <2>2, <2>3, <3>2, <4>1
      <4> QED BY ONLY <4>1, <4>2, <4>3
    <3> QED BY ONLY <3>1, <3>2
  <2>6. b \in 1 .. Cardinality(hmap) + 1
    BY ONLY <1>4, <2>5 DEF N
  <2>7. PICK T : T = {x \in hmap : b <= at[x] /\ score[x] <= max}
    OBVIOUS
  <2>8. CountFrom(v, max) = Cardinality(T)
    BY ONLY <1>1, <1>3, <1>10, <2>5, <2>6, <2>7, CountFromIs
  <2>9. T = {m \in hmap : s <= score[m] /\ score[m] <= max}
    BY ONLY <2>5, <2>7
  <2>10. do_zcount(s, max) = CountFrom(v, max)
    BY ONLY <2>1 DEF do_zcount
  <2> QED BY ONLY <2>8, <2>9, <2>10
<1>11. \A q \in OffsetsAndLimits : q[1] \in Int /\ q[2] \in Int
  BY ONLY <1>4
<1> HIDE DEF Part, OffsetsAndLimits, lower, upto
<1>12. ASSUME NEW s \in Scores, NEW n \in hmap \cup {NoName}, NEW q \in OffsetsAndLimits
       PROVE  /\ do_zqueryge(s, n, q[1], q[2]) =
                   IF lower(s, n) = Len(list) THEN <<>> ELSE Part(lower(s, n) + 1 + q[1], 1, q[2])
              /\ do_zqueryle(s, n, q[1], q[2]) =
                   IF upto(s, n) = 0 THEN <<>> ELSE Part(upto(s, n) + q[1], -1, q[2])
  <2> HIDE DEF Scores
  <2>1. q[1] \in Int /\ q[2] \in Int
    BY ONLY <1>11, <1>12
  <2>2. s \in Int /\ n \in Int
    BY ONLY <1>5, <1>6, <1>12
  <2>3. \A i, j, d, limit \in Int :
          do_zqueryge(i, j, d, limit) =
            IF lower(i, j) = Len(list) THEN <<>> ELSE Part(lower(i, j) + 1 + d, 1, limit)
    BY ONLY <1>8
  <2>4. \A i, j, d, limit \in Int :
          do_zqueryle(i, j, d, limit) =
            IF upto(i, j) = 0 THEN <<>> ELSE Part(upto(i, j) + d, -1, limit)
    BY ONLY <1>9
  <2>5. do_zqueryge(s, n, q[1], q[2]) =
          IF lower(s, n) = Len(list) THEN <<>> ELSE Part(lower(s, n) + 1 + q[1], 1, q[2])
    BY ONLY <2>1, <2>2, <2>3
  <2>6. do_zqueryle(s, n, q[1], q[2]) =
          IF upto(s, n) = 0 THEN <<>> ELSE Part(upto(s, n) + q[1], -1, q[2])
    BY ONLY <2>1, <2>2, <2>4
  <2> QED BY ONLY <2>5, <2>6
<1>13. ASSUME NEW s \in Scores, NEW max \in Scores
       PROVE  do_zcount(s, max) = Cardinality({m \in hmap : s <= score[m] /\ score[m] <= max})
  <2> HIDE DEF Scores
  <2> QED BY ONLY <1>5, <1>10, <1>13
<1> HIDE DEF Scores
<1>14. \A s \in Scores :
         /\ \A n \in hmap \cup {NoName} : \A q \in OffsetsAndLimits :
              /\ do_zqueryge(s, n, q[1], q[2]) =
                   IF lower(s, n) = Len(list) THEN <<>> ELSE Part(lower(s, n) + 1 + q[1], 1, q[2])
              /\ do_zqueryle(s, n, q[1], q[2]) =
                   IF upto(s, n) = 0 THEN <<>> ELSE Part(upto(s, n) + q[1], -1, q[2])
         /\ \A max \in Scores :
              do_zcount(s, max) = Cardinality({m \in hmap : s <= score[m] /\ score[m] <= max})
  BY ONLY <1>12, <1>13, Zenon
<1> QED BY ONLY <1>14, Zenon
        DEF QueriesMatch, Scores, OffsetsAndLimits, Part, Stretch, lower, upto, list

\* Without NaN, ZQUERYGE, ZQUERYLE and ZCOUNT answer what a sorted list gives,
\* whatever has been inserted, moved and removed before.
THEOREM QueriesAlwaysMatch == Spec => []QueriesMatch
BY Invariance, QueriesFromInv, PTL
=============================================================================
