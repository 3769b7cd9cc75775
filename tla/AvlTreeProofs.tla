--------------------------- MODULE AvlTreeProofs ----------------------------
(***************************************************************************)
(* Proofs about AvlTree, for every finite set of nodes.  A tree is         *)
(* described by the place of each member from left to right and by the     *)
(* first and the last place in its subtree.  Such places exist before and  *)
(* after every rotation and every round of fix, with the right heights and *)
(* counts, so linking a leaf and fix, or del, make of a sound tree a sound *)
(* tree, and the walks over it go where they should.  Lemmas come in pairs *)
(* that mirror each other, for left and right.                             *)
(***************************************************************************)
EXTENDS AvlTree, SequenceLemmas, FiniteSetTheorems

-----------------------------------------------------------------------------
(* Loops. *)

\* The equation that the first n rounds of a loop solve.
IsLoop(f, round, s, n) ==
  f = [i \in 0 .. n |-> IF i = 0 THEN s ELSE round[f[i - 1]]]

\* It has a solution for every n, and only one.
LEMMA LoopExists ==
  ASSUME NEW round, NEW s, NEW n \in Nat
  PROVE  \E f : IsLoop(f, round, s, n)
<1> DEFINE P == {k \in 0 .. n : \E f : IsLoop(f, round, s, k)}
<1>1. 0 \in P
  <2> DEFINE f == [i \in 0 .. 0 |-> s]
  <2>1. IsLoop(f, round, s, 0)
    BY DEF IsLoop
  <2> HIDE DEF f
  <2> QED BY <2>1
<1>2. ASSUME NEW k \in 1 .. n, k - 1 \in P PROVE k \in P
  <2>1. PICK f : IsLoop(f, round, s, k - 1)
    BY <1>2
  <2> DEFINE g == [i \in 0 .. k |-> IF i < k THEN f[i] ELSE round[f[k - 1]]]
             e == [i \in 0 .. k |-> IF i = 0 THEN s ELSE round[g[i - 1]]]
  <2>2. ASSUME NEW i \in 0 .. k PROVE g[i] = e[i]
    <3>1. CASE i = k
      BY <3>1
    <3>2. CASE i # k
      <4>1. i \in 0 .. k - 1 /\ g[i] = f[i]
        BY <3>2
      <4>2. f[i] = IF i = 0 THEN s ELSE round[f[i - 1]]
        BY <2>1, <4>1, Zenon DEF IsLoop
      <4>3. i # 0 => g[i - 1] = f[i - 1]
        BY <4>1
      <4> QED BY <4>1, <4>2, <4>3
    <3> QED BY <3>1, <3>2
  <2>3. g = e
    BY <2>2
  <2> HIDE DEF g
  <2>4. IsLoop(g, round, s, k)
    BY <2>3, Zenon DEF IsLoop
  <2> QED BY <2>4
<1> HIDE DEF P
<1>3. \A i \in 0 .. n : i \in P
  BY <1>1, <1>2, UpToInduction
<1> QED BY <1>3 DEF P

\* Two solutions agree as far as both go.
LEMMA LoopUnique ==
  ASSUME NEW round, NEW s, NEW n \in Nat, NEW k \in 0 .. n, NEW f, NEW g,
         IsLoop(f, round, s, n), IsLoop(g, round, s, k)
  PROVE  \A i \in 0 .. k : f[i] = g[i]
<1> DEFINE P == {i \in 0 .. k : f[i] = g[i]}
<1>1. \A i \in 0 .. k : f[i] = IF i = 0 THEN s ELSE round[f[i - 1]]
  <2>1. \A i \in 0 .. n : f[i] = IF i = 0 THEN s ELSE round[f[i - 1]]
    BY Zenon DEF IsLoop
  <2> QED BY <2>1
<1>2. \A i \in 0 .. k : g[i] = IF i = 0 THEN s ELSE round[g[i - 1]]
  BY Zenon DEF IsLoop
<1>3. 0 \in P
  BY <1>1, <1>2
<1>4. ASSUME NEW i \in 1 .. k, i - 1 \in P PROVE i \in P
  BY <1>1, <1>2, <1>4
<1> HIDE DEF P
<1>5. \A i \in 0 .. k : i \in P
  BY <1>3, <1>4, UpToInduction
<1> QED BY <1>5 DEF P

\* A loop begins with its first state and goes on round by round.
LEMMA IterateSteps ==
  ASSUME NEW round, NEW s
  PROVE  /\ Iterate(round, s, 0) = s
         /\ \A k \in Nat \ {0} : Iterate(round, s, k) = round[Iterate(round, s, k - 1)]
<1> DEFINE G(n) == CHOOSE g : IsLoop(g, round, s, n)
           f == [n \in Nat |-> G(n)[n]]
           E(a) == [i \in Nat |-> IF i = 0 THEN s ELSE round[a[i - 1]]]
           after == CHOOSE a : a = E(a)
<1>1. ASSUME NEW n \in Nat PROVE IsLoop(G(n), round, s, n)
  BY LoopExists, Zenon
<1>2. ASSUME NEW n \in Nat, NEW i \in 0 .. n
      PROVE  G(n)[i] = IF i = 0 THEN s ELSE round[G(n)[i - 1]]
  <2> DEFINE g == G(n)
  <2>1. IsLoop(g, round, s, n)
    BY <1>1
  <2> HIDE DEF g
  <2>2. g[i] = IF i = 0 THEN s ELSE round[g[i - 1]]
    BY <2>1, Zenon DEF IsLoop
  <2> QED BY <2>2 DEF g
<1> HIDE DEF G
<1>3. ASSUME NEW i \in Nat PROVE f[i] = IF i = 0 THEN s ELSE round[f[i - 1]]
  <2>1. CASE i = 0
    <3>1. 0 \in 0 .. 0
      OBVIOUS
    <3> QED BY <1>2, <2>1, <3>1
  <2>2. CASE i # 0
    <3>1. i \in 0 .. i /\ i - 1 \in Nat /\ i - 1 \in 0 .. i - 1 /\ i - 1 \in 0 .. i
      BY <2>2
    <3>2. G(i)[i - 1] = G(i - 1)[i - 1]
      <4>1. IsLoop(G(i), round, s, i) /\ IsLoop(G(i - 1), round, s, i - 1)
        BY <1>1, <3>1
      <4> QED BY <3>1, <4>1, LoopUnique
    <3>3. G(i)[i] = round[G(i)[i - 1]]
      BY <1>2, <2>2, <3>1
    <3>4. f[i] = G(i)[i] /\ f[i - 1] = G(i - 1)[i - 1]
      BY <3>1
    <3> QED BY <2>2, <3>2, <3>3, <3>4
  <2> QED BY <2>1, <2>2
<1>4. f = E(f)
  BY <1>3
<1> HIDE DEF f
<1>5. after = E(after)
  BY <1>4
<1>6. after = [i \in Nat |-> IF i = 0 THEN s ELSE round[after[i - 1]]]
  BY <1>5
<1>7. \A k : Iterate(round, s, k) = after[k]
  BY DEF Iterate
<1> HIDE DEF after
<1>8. after[0] = s
  BY <1>6
<1>9. ASSUME NEW k \in Nat \ {0} PROVE after[k] = round[after[k - 1]]
  BY <1>6, Zenon
<1> QED BY <1>7, <1>8, <1>9

\* A loop whose measure decreases in every round until it is 0 has ended after
\* as many rounds as the measure says, in a state of the set it never leaves.
LEMMA LoopEnds ==
  ASSUME NEW round, NEW R, NEW s \in R, NEW left \in [R -> Nat], NEW n \in Nat,
         left[s] <= n,
         \A x \in R : /\ round[x] \in R
                      /\ left[x] = 0 => left[round[x]] = 0
                      /\ left[x] # 0 => left[round[x]] < left[x]
  PROVE  Iterate(round, s, n) \in R /\ left[Iterate(round, s, n)] = 0
<1> DEFINE At(k) == Iterate(round, s, k)
           P == {k \in 0 .. n : At(k) \in R /\ (left[At(k)] = 0 \/ left[At(k)] + k <= left[s])}
<1>0. At(0) = s /\ \A k \in Nat \ {0} : At(k) = round[At(k - 1)]
  BY ONLY IterateSteps
<1> HIDE DEF At
<1>1. 0 \in P
  BY <1>0
<1>2. ASSUME NEW k \in 1 .. n, k - 1 \in P PROVE k \in P
  <2>1. k \in Nat \ {0}
    OBVIOUS
  <2>2. At(k) = round[At(k - 1)]
    BY <1>0, <2>1
  <2>3. At(k - 1) \in R /\ (left[At(k - 1)] = 0 \/ left[At(k - 1)] + (k - 1) <= left[s])
    BY <1>2
  <2>4. /\ At(k) \in R
        /\ left[At(k - 1)] = 0 => left[At(k)] = 0
        /\ left[At(k - 1)] # 0 => left[At(k)] < left[At(k - 1)]
    BY <2>2, <2>3
  <2>5. left[At(k)] \in Nat /\ left[At(k - 1)] \in Nat /\ left[s] \in Nat
    BY <2>3, <2>4
  <2> QED BY <2>3, <2>4, <2>5
<1> HIDE DEF P
<1>3. \A i \in 0 .. n : i \in P
  BY <1>1, <1>2, UpToInduction
<1>4. n \in P
  BY <1>3
<1>5. At(n) \in R /\ (left[At(n)] = 0 \/ left[At(n)] + n <= left[s])
  BY <1>4 DEF P
<1>6. left[At(n)] \in Nat /\ left[s] \in Nat
  BY <1>5
<1>7. left[At(n)] = 0
  BY <1>5, <1>6
<1> QED BY <1>5, <1>7 DEF At

-----------------------------------------------------------------------------
(* The fields of a tree after the steps the operations consist of. *)

\* u has all but the heights and the counts from t.
SameLinks(t, u) ==
  u.root = t.root /\ u.parent = t.parent /\ u.left = t.left /\ u.right = t.right

\* The types of a tree's fields.
LEMMA TreeFields ==
  ASSUME NEW t \in Tree
  PROVE  /\ t.root \in NullOr /\ t.parent \in [Node -> NullOr]
         /\ t.left \in [Node -> NullOr] /\ t.right \in [Node -> NullOr]
         /\ t.height \in [Node -> Int] /\ t.count \in [Node -> Int]
BY DEF Tree

\* The height and the count of a child are numbers.
LEMMA ChildInt ==
  ASSUME NEW t \in Tree, NEW n \in NullOr
  PROVE  h(t, n) \in Int /\ cnt(t, n) \in Int
BY TreeFields DEF h, cnt, NullOr

\* update changes the height and the count of its node.
LEMMA UpdateFromLeft ==
  ASSUME NEW t \in Tree, NEW n \in Node
  PROVE  /\ update(t, n) \in Tree
         /\ SameLinks(t, update(t, n))
         /\ update(t, n).height[n] = Larger(h(t, t.left[n]), h(t, t.right[n])) + 1
         /\ update(t, n).count[n] = 1 + cnt(t, t.left[n]) + cnt(t, t.right[n])
         /\ \A x \in Node \ {n} : /\ update(t, n).height[x] = t.height[x]
                                  /\ update(t, n).count[x] = t.count[x]
<1> DEFINE H == Larger(h(t, t.left[n]), h(t, t.right[n])) + 1
           C == 1 + cnt(t, t.left[n]) + cnt(t, t.right[n])
<1>1. H \in Int /\ C \in Int
  <2>1. t.left[n] \in NullOr /\ t.right[n] \in NullOr
    BY TreeFields
  <2> QED BY <2>1, ChildInt DEF Larger
<1>2. update(t, n) = [t EXCEPT !.height[n] = H, !.count[n] = C]
  BY DEF update
<1> HIDE DEF H, C
<1>3. update(t, n) \in Tree
  <2>1. [t EXCEPT !.height[n] = H] \in Tree
    BY <1>1 DEF Tree
  <2>2. \A u \in Tree : [u EXCEPT !.count[n] = C] \in Tree
    BY <1>1 DEF Tree
  <2>3. update(t, n) = [[t EXCEPT !.height[n] = H] EXCEPT !.count[n] = C]
    BY <1>2, Zenon
  <2> QED BY <2>1, <2>2, <2>3, Zenon
<1>4. SameLinks(t, update(t, n))
  BY <1>2 DEF Tree, SameLinks
<1>5. /\ update(t, n).height = [t.height EXCEPT ![n] = H]
      /\ update(t, n).count = [t.count EXCEPT ![n] = C]
  BY <1>2 DEF Tree
<1> QED BY <1>1, <1>3, <1>4, <1>5, TreeFields DEF H, C

\* The same, said of the right subtree first.
LEMMA UpdateFromRight ==
  ASSUME NEW t \in Tree, NEW n \in Node
  PROVE  /\ update(t, n) \in Tree
         /\ SameLinks(t, update(t, n))
         /\ update(t, n).height[n] = Larger(h(t, t.right[n]), h(t, t.left[n])) + 1
         /\ update(t, n).count[n] = 1 + cnt(t, t.right[n]) + cnt(t, t.left[n])
         /\ \A x \in Node \ {n} : /\ update(t, n).height[x] = t.height[x]
                                  /\ update(t, n).count[x] = t.count[x]
<1>1. t.left[n] \in NullOr /\ t.right[n] \in NullOr
  BY TreeFields
<1>2. /\ h(t, t.left[n]) \in Int /\ h(t, t.right[n]) \in Int
      /\ cnt(t, t.left[n]) \in Int /\ cnt(t, t.right[n]) \in Int
  BY <1>1, ChildInt
<1>3. \A a, b \in Int : Larger(a, b) = Larger(b, a)
  BY DEF Larger
<1>4. /\ Larger(h(t, t.left[n]), h(t, t.right[n])) = Larger(h(t, t.right[n]), h(t, t.left[n]))
      /\ 1 + cnt(t, t.left[n]) + cnt(t, t.right[n]) = 1 + cnt(t, t.right[n]) + cnt(t, t.left[n])
  BY <1>2, <1>3
<1> QED BY <1>4, UpdateFromLeft

\* Adopt changes the parent of the child, if there is one.
LEMMA AdoptFields ==
  ASSUME NEW t \in Tree, NEW child \in NullOr, NEW p \in NullOr
  PROVE  /\ Adopt(t, child, p) \in Tree
         /\ Adopt(t, child, p).root = t.root
         /\ Adopt(t, child, p).left = t.left /\ Adopt(t, child, p).right = t.right
         /\ Adopt(t, child, p).height = t.height /\ Adopt(t, child, p).count = t.count
         /\ \A x \in Node :
              Adopt(t, child, p).parent[x] = IF x = child THEN p ELSE t.parent[x]
BY NodeAssumption DEF Adopt, Tree, NullOr

\* Relink changes the root or one link of p.
LEMMA RelinkFields ==
  ASSUME NEW t \in Tree, NEW p \in NullOr, NEW old, NEW new \in NullOr
  PROVE  /\ Relink(t, p, old, new) \in Tree
         /\ Relink(t, p, old, new).root = IF p = Null THEN new ELSE t.root
         /\ Relink(t, p, old, new).parent = t.parent
         /\ Relink(t, p, old, new).height = t.height
         /\ Relink(t, p, old, new).count = t.count
         /\ \A x \in Node :
              /\ Relink(t, p, old, new).left[x] =
                   IF x = p /\ t.left[p] = old THEN new ELSE t.left[x]
              /\ Relink(t, p, old, new).right[x] =
                   IF x = p /\ t.left[p] # old THEN new ELSE t.right[x]
BY NodeAssumption DEF Relink, Tree, NullOr

\* rot_right gives n the inner subtree and its place to its left child.
LEMMA RotRightFields ==
  ASSUME NEW t \in Tree, NEW n \in Node, NEW new \in Node, NEW inner \in NullOr,
         NEW v, v = rot_right(t, n).tree,
         new = t.left[n], inner = t.right[new], new # n, t.left[new] # n
  PROVE  /\ rot_right(t, n).node = new
         /\ v \in Tree /\ v.root = t.root
         /\ \A x \in Node :
              /\ v.left[x] = IF x = n THEN inner ELSE t.left[x]
              /\ v.right[x] = IF x = new THEN n ELSE t.right[x]
              /\ v.parent[x] = IF x = n THEN new ELSE IF x = new THEN t.parent[n]
                               ELSE IF x = inner THEN n ELSE t.parent[x]
              /\ x \notin {n, new} => /\ v.height[x] = t.height[x]
                                      /\ v.count[x] = t.count[x]
         /\ v.height[n] = Larger(h(t, inner), h(t, t.right[n])) + 1
         /\ v.count[n] = 1 + cnt(t, inner) + cnt(t, t.right[n])
         /\ v.height[new] = Larger(h(t, t.left[new]), v.height[n]) + 1
         /\ v.count[new] = 1 + cnt(t, t.left[new]) + v.count[n]
<1> DEFINE a == Adopt(t, inner, n)
           b == [a EXCEPT !.left[n] = inner, !.parent[new] = t.parent[n],
                          !.right[new] = n, !.parent[n] = new]
           c == update(b, n)
           d == update(c, new)
<1>1. /\ a \in Tree /\ a.root = t.root /\ a.left = t.left /\ a.right = t.right
      /\ a.height = t.height /\ a.count = t.count
      /\ \A x \in Node : a.parent[x] = IF x = inner THEN n ELSE t.parent[x]
  <2>1. n \in NullOr
    BY DEF NullOr
  <2> QED BY ONLY t \in Tree, inner \in NullOr, <2>1, AdoptFields
<1>2. rot_right(t, n) = [tree |-> d, node |-> new]
  BY DEF rot_right
<1>3. v = d /\ rot_right(t, n).node = new
  BY <1>2
<1> HIDE DEF a
<1>4. /\ b \in Tree /\ b.root = a.root
      /\ b.left = [a.left EXCEPT ![n] = inner]
      /\ b.right = [a.right EXCEPT ![new] = n]
      /\ b.parent = [[a.parent EXCEPT ![new] = t.parent[n]] EXCEPT ![n] = new]
      /\ b.height = a.height /\ b.count = a.count
  <2>1. t.parent[n] \in NullOr /\ n \in NullOr /\ new \in NullOr
    BY TreeFields DEF NullOr
  <2> DEFINE b1 == [a EXCEPT !.left[n] = inner]
             b2 == [b1 EXCEPT !.parent[new] = t.parent[n]]
             b3 == [b2 EXCEPT !.right[new] = n]
             b4 == [b3 EXCEPT !.parent[n] = new]
  <2>2. /\ b1 \in Tree /\ b1.root = a.root /\ b1.left = [a.left EXCEPT ![n] = inner]
        /\ b1.right = a.right /\ b1.parent = a.parent
        /\ b1.height = a.height /\ b1.count = a.count
    BY <1>1 DEF Tree
  <2> HIDE DEF b1
  <2>3. /\ b2 \in Tree /\ b2.root = b1.root /\ b2.left = b1.left
        /\ b2.right = b1.right /\ b2.parent = [b1.parent EXCEPT ![new] = t.parent[n]]
        /\ b2.height = b1.height /\ b2.count = b1.count
    BY <2>1, <2>2 DEF Tree
  <2> HIDE DEF b2
  <2>4. /\ b3 \in Tree /\ b3.root = b2.root /\ b3.left = b2.left
        /\ b3.right = [b2.right EXCEPT ![new] = n] /\ b3.parent = b2.parent
        /\ b3.height = b2.height /\ b3.count = b2.count
    BY <2>1, <2>3 DEF Tree
  <2> HIDE DEF b3
  <2>5. /\ b4 \in Tree /\ b4.root = b3.root /\ b4.left = b3.left
        /\ b4.right = b3.right /\ b4.parent = [b3.parent EXCEPT ![n] = new]
        /\ b4.height = b3.height /\ b4.count = b3.count
    BY <2>1, <2>4 DEF Tree
  <2>6. b = b4
    BY DEF b1, b2, b3
  <2> HIDE DEF b4
  <2>7. b4.left = [a.left EXCEPT ![n] = inner] /\ b4.root = a.root
    BY <2>2, <2>3, <2>4, <2>5
  <2>8. b4.right = [a.right EXCEPT ![new] = n]
    BY <2>2, <2>3, <2>4, <2>5
  <2>9. b4.parent = [[a.parent EXCEPT ![new] = t.parent[n]] EXCEPT ![n] = new]
    BY <2>2, <2>3, <2>4, <2>5
  <2>10. b4.height = a.height /\ b4.count = a.count
    BY <2>2, <2>3, <2>4, <2>5
  <2> QED BY <2>5, <2>6, <2>7, <2>8, <2>9, <2>10
<1> HIDE DEF b
<1>5. /\ b \in Tree /\ b.root = t.root /\ b.height = t.height /\ b.count = t.count
      /\ \A x \in Node :
           /\ b.left[x] = IF x = n THEN inner ELSE t.left[x]
           /\ b.right[x] = IF x = new THEN n ELSE t.right[x]
           /\ b.parent[x] = IF x = n THEN new ELSE IF x = new THEN t.parent[n]
                            ELSE IF x = inner THEN n ELSE t.parent[x]
  BY <1>1, <1>4, TreeFields
<1>6. /\ c \in Tree /\ SameLinks(b, c)
      /\ c.height[n] = Larger(h(b, b.left[n]), h(b, b.right[n])) + 1
      /\ c.count[n] = 1 + cnt(b, b.left[n]) + cnt(b, b.right[n])
      /\ \A x \in Node \ {n} : c.height[x] = b.height[x] /\ c.count[x] = b.count[x]
  <2>1. b \in Tree
    BY <1>5
  <2> QED BY <2>1, UpdateFromLeft, Zenon
<1> HIDE DEF c
<1>7. /\ d \in Tree /\ SameLinks(c, d)
      /\ d.height[new] = Larger(h(c, c.left[new]), h(c, c.right[new])) + 1
      /\ d.count[new] = 1 + cnt(c, c.left[new]) + cnt(c, c.right[new])
      /\ \A x \in Node \ {new} : d.height[x] = c.height[x] /\ d.count[x] = c.count[x]
  <2>1. c \in Tree
    BY <1>6
  <2> QED BY <2>1, UpdateFromLeft, Zenon
<1> HIDE DEF d
<1>8. /\ c.height[n] = Larger(h(t, inner), h(t, t.right[n])) + 1
      /\ c.count[n] = 1 + cnt(t, inner) + cnt(t, t.right[n])
  BY <1>5, <1>6 DEF h, cnt
<1>9. c.left[new] = t.left[new] /\ c.right[new] = n /\ t.left[new] \in NullOr
  BY <1>5, <1>6, TreeFields DEF SameLinks
<1>10. /\ h(c, c.left[new]) = h(t, t.left[new]) /\ h(c, c.right[new]) = c.height[n]
       /\ cnt(c, c.left[new]) = cnt(t, t.left[new]) /\ cnt(c, c.right[new]) = c.count[n]
  BY <1>5, <1>6, <1>9, NodeAssumption DEF h, cnt, NullOr
<1>11. d.height[n] = c.height[n] /\ d.count[n] = c.count[n]
  BY <1>7
<1>12. /\ v.height[n] = Larger(h(t, inner), h(t, t.right[n])) + 1
       /\ v.count[n] = 1 + cnt(t, inner) + cnt(t, t.right[n])
       /\ v.height[new] = Larger(h(t, t.left[new]), v.height[n]) + 1
       /\ v.count[new] = 1 + cnt(t, t.left[new]) + v.count[n]
  BY <1>3, <1>7, <1>8, <1>10, <1>11, Zenon
<1>13. \A x \in Node : x \notin {n, new} => v.height[x] = t.height[x] /\ v.count[x] = t.count[x]
  BY <1>3, <1>5, <1>6, <1>7
<1>14. v.left = b.left /\ v.right = b.right /\ v.parent = b.parent /\ v.root = b.root
  BY <1>3, <1>6, <1>7 DEF SameLinks
<1>15. /\ v \in Tree /\ v.root = t.root
       /\ \A x \in Node :
            /\ v.left[x] = IF x = n THEN inner ELSE t.left[x]
            /\ v.right[x] = IF x = new THEN n ELSE t.right[x]
            /\ v.parent[x] = IF x = n THEN new ELSE IF x = new THEN t.parent[n]
                             ELSE IF x = inner THEN n ELSE t.parent[x]
  BY <1>3, <1>5, <1>7, <1>14
<1>16. rot_right(t, n).node = new
  BY <1>3
<1> HIDE DEF b
<1> QED BY ONLY <1>12, <1>13, <1>15, <1>16, Zenon

\* rot_left gives n the inner subtree and its place to its right child.
LEMMA RotLeftFields ==
  ASSUME NEW t \in Tree, NEW n \in Node, NEW new \in Node, NEW inner \in NullOr,
         NEW v, v = rot_left(t, n).tree,
         new = t.right[n], inner = t.left[new], new # n, t.right[new] # n
  PROVE  /\ rot_left(t, n).node = new
         /\ v \in Tree /\ v.root = t.root
         /\ \A x \in Node :
              /\ v.right[x] = IF x = n THEN inner ELSE t.right[x]
              /\ v.left[x] = IF x = new THEN n ELSE t.left[x]
              /\ v.parent[x] = IF x = n THEN new ELSE IF x = new THEN t.parent[n]
                               ELSE IF x = inner THEN n ELSE t.parent[x]
              /\ x \notin {n, new} => /\ v.height[x] = t.height[x]
                                      /\ v.count[x] = t.count[x]
         /\ v.height[n] = Larger(h(t, inner), h(t, t.left[n])) + 1
         /\ v.count[n] = 1 + cnt(t, inner) + cnt(t, t.left[n])
         /\ v.height[new] = Larger(h(t, t.right[new]), v.height[n]) + 1
         /\ v.count[new] = 1 + cnt(t, t.right[new]) + v.count[n]
<1> DEFINE a == Adopt(t, inner, n)
           b == [a EXCEPT !.right[n] = inner, !.parent[new] = t.parent[n],
                          !.left[new] = n, !.parent[n] = new]
           c == update(b, n)
           d == update(c, new)
<1>1. /\ a \in Tree /\ a.root = t.root /\ a.right = t.right /\ a.left = t.left
      /\ a.height = t.height /\ a.count = t.count
      /\ \A x \in Node : a.parent[x] = IF x = inner THEN n ELSE t.parent[x]
  <2>1. n \in NullOr
    BY DEF NullOr
  <2> QED BY ONLY t \in Tree, inner \in NullOr, <2>1, AdoptFields
<1>2. rot_left(t, n) = [tree |-> d, node |-> new]
  BY DEF rot_left
<1>3. v = d /\ rot_left(t, n).node = new
  BY <1>2
<1> HIDE DEF a
<1>4. /\ b \in Tree /\ b.root = a.root
      /\ b.right = [a.right EXCEPT ![n] = inner]
      /\ b.left = [a.left EXCEPT ![new] = n]
      /\ b.parent = [[a.parent EXCEPT ![new] = t.parent[n]] EXCEPT ![n] = new]
      /\ b.height = a.height /\ b.count = a.count
  <2>1. t.parent[n] \in NullOr /\ n \in NullOr /\ new \in NullOr
    BY TreeFields DEF NullOr
  <2> DEFINE b1 == [a EXCEPT !.right[n] = inner]
             b2 == [b1 EXCEPT !.parent[new] = t.parent[n]]
             b3 == [b2 EXCEPT !.left[new] = n]
             b4 == [b3 EXCEPT !.parent[n] = new]
  <2>2. /\ b1 \in Tree /\ b1.root = a.root /\ b1.right = [a.right EXCEPT ![n] = inner]
        /\ b1.left = a.left /\ b1.parent = a.parent
        /\ b1.height = a.height /\ b1.count = a.count
    BY <1>1 DEF Tree
  <2> HIDE DEF b1
  <2>3. /\ b2 \in Tree /\ b2.root = b1.root /\ b2.right = b1.right
        /\ b2.left = b1.left /\ b2.parent = [b1.parent EXCEPT ![new] = t.parent[n]]
        /\ b2.height = b1.height /\ b2.count = b1.count
    BY <2>1, <2>2 DEF Tree
  <2> HIDE DEF b2
  <2>4. /\ b3 \in Tree /\ b3.root = b2.root /\ b3.right = b2.right
        /\ b3.left = [b2.left EXCEPT ![new] = n] /\ b3.parent = b2.parent
        /\ b3.height = b2.height /\ b3.count = b2.count
    BY <2>1, <2>3 DEF Tree
  <2> HIDE DEF b3
  <2>5. /\ b4 \in Tree /\ b4.root = b3.root /\ b4.right = b3.right
        /\ b4.left = b3.left /\ b4.parent = [b3.parent EXCEPT ![n] = new]
        /\ b4.height = b3.height /\ b4.count = b3.count
    BY <2>1, <2>4 DEF Tree
  <2>6. b = b4
    BY DEF b1, b2, b3
  <2> HIDE DEF b4
  <2>7. b4.right = [a.right EXCEPT ![n] = inner] /\ b4.root = a.root
    BY <2>2, <2>3, <2>4, <2>5
  <2>8. b4.left = [a.left EXCEPT ![new] = n]
    BY <2>2, <2>3, <2>4, <2>5
  <2>9. b4.parent = [[a.parent EXCEPT ![new] = t.parent[n]] EXCEPT ![n] = new]
    BY <2>2, <2>3, <2>4, <2>5
  <2>10. b4.height = a.height /\ b4.count = a.count
    BY <2>2, <2>3, <2>4, <2>5
  <2> QED BY <2>5, <2>6, <2>7, <2>8, <2>9, <2>10
<1> HIDE DEF b
<1>5. /\ b \in Tree /\ b.root = t.root /\ b.height = t.height /\ b.count = t.count
      /\ \A x \in Node :
           /\ b.right[x] = IF x = n THEN inner ELSE t.right[x]
           /\ b.left[x] = IF x = new THEN n ELSE t.left[x]
           /\ b.parent[x] = IF x = n THEN new ELSE IF x = new THEN t.parent[n]
                            ELSE IF x = inner THEN n ELSE t.parent[x]
  BY <1>1, <1>4, TreeFields
<1>6. /\ c \in Tree /\ SameLinks(b, c)
      /\ c.height[n] = Larger(h(b, b.right[n]), h(b, b.left[n])) + 1
      /\ c.count[n] = 1 + cnt(b, b.right[n]) + cnt(b, b.left[n])
      /\ \A x \in Node \ {n} : c.height[x] = b.height[x] /\ c.count[x] = b.count[x]
  <2>1. b \in Tree
    BY <1>5
  <2> QED BY <2>1, UpdateFromRight, Zenon
<1> HIDE DEF c
<1>7. /\ d \in Tree /\ SameLinks(c, d)
      /\ d.height[new] = Larger(h(c, c.right[new]), h(c, c.left[new])) + 1
      /\ d.count[new] = 1 + cnt(c, c.right[new]) + cnt(c, c.left[new])
      /\ \A x \in Node \ {new} : d.height[x] = c.height[x] /\ d.count[x] = c.count[x]
  <2>1. c \in Tree
    BY <1>6
  <2> QED BY <2>1, UpdateFromRight, Zenon
<1> HIDE DEF d
<1>8. /\ c.height[n] = Larger(h(t, inner), h(t, t.left[n])) + 1
      /\ c.count[n] = 1 + cnt(t, inner) + cnt(t, t.left[n])
  BY <1>5, <1>6 DEF h, cnt
<1>9. c.right[new] = t.right[new] /\ c.left[new] = n /\ t.right[new] \in NullOr
  BY <1>5, <1>6, TreeFields DEF SameLinks
<1>10. /\ h(c, c.right[new]) = h(t, t.right[new]) /\ h(c, c.left[new]) = c.height[n]
       /\ cnt(c, c.right[new]) = cnt(t, t.right[new]) /\ cnt(c, c.left[new]) = c.count[n]
  BY <1>5, <1>6, <1>9, NodeAssumption DEF h, cnt, NullOr
<1>11. d.height[n] = c.height[n] /\ d.count[n] = c.count[n]
  BY <1>7
<1>12. /\ v.height[n] = Larger(h(t, inner), h(t, t.left[n])) + 1
       /\ v.count[n] = 1 + cnt(t, inner) + cnt(t, t.left[n])
       /\ v.height[new] = Larger(h(t, t.right[new]), v.height[n]) + 1
       /\ v.count[new] = 1 + cnt(t, t.right[new]) + v.count[n]
  BY <1>3, <1>7, <1>8, <1>10, <1>11, Zenon
<1>13. \A x \in Node : x \notin {n, new} => v.height[x] = t.height[x] /\ v.count[x] = t.count[x]
  BY <1>3, <1>5, <1>6, <1>7
<1>14. v.right = b.right /\ v.left = b.left /\ v.parent = b.parent /\ v.root = b.root
  BY <1>3, <1>6, <1>7 DEF SameLinks
<1>15. /\ v \in Tree /\ v.root = t.root
       /\ \A x \in Node :
            /\ v.right[x] = IF x = n THEN inner ELSE t.right[x]
            /\ v.left[x] = IF x = new THEN n ELSE t.left[x]
            /\ v.parent[x] = IF x = n THEN new ELSE IF x = new THEN t.parent[n]
                             ELSE IF x = inner THEN n ELSE t.parent[x]
  BY <1>3, <1>5, <1>7, <1>14
<1>16. rot_left(t, n).node = new
  BY <1>3
<1> HIDE DEF b
<1> QED BY ONLY <1>12, <1>13, <1>15, <1>16, Zenon

-----------------------------------------------------------------------------
(* The shape of a tree.  at gives each member its place from left to right, *)
(* lo and hi give the first and the last place in its subtree.              *)

LeftShape(t, M, at, lo, hi, n) ==
  IF t.left[n] = Null THEN lo[n] = at[n]
  ELSE /\ t.left[n] \in M /\ t.parent[t.left[n]] = n
       /\ lo[t.left[n]] = lo[n] /\ hi[t.left[n]] = at[n] - 1

RightShape(t, M, at, lo, hi, n) ==
  IF t.right[n] = Null THEN hi[n] = at[n]
  ELSE /\ t.right[n] \in M /\ t.parent[t.right[n]] = n
       /\ hi[t.right[n]] = hi[n] /\ lo[t.right[n]] = at[n] + 1

UpShape(t, M, n) ==
  IF t.parent[n] = Null THEN n = t.root
  ELSE /\ t.parent[n] \in M /\ n # t.root
       /\ n \in {t.left[t.parent[n]], t.right[t.parent[n]]}

NodeShape(t, M, at, lo, hi, n) ==
  /\ 1 <= lo[n] /\ lo[n] <= at[n] /\ at[n] <= hi[n] /\ hi[n] <= Cardinality(M)
  /\ LeftShape(t, M, at, lo, hi, n) /\ RightShape(t, M, at, lo, hi, n)
  /\ UpShape(t, M, n)

RootShape(t, M, lo, hi) ==
  IF t.root = Null THEN M = {}
  ELSE t.root \in M /\ lo[t.root] = 1 /\ hi[t.root] = Cardinality(M)

Places == [Node -> Int]

Shape(t, M, at, lo, hi) ==
  /\ t \in Tree /\ M \in SUBSET Node
  /\ at \in Places /\ lo \in Places /\ hi \in Places
  /\ RootShape(t, M, lo, hi)
  /\ \A n \in M : NodeShape(t, M, at, lo, hi, n)
  /\ \A m, n \in M : at[m] = at[n] => m = n

\* n is c or above it.
Above(at, lo, hi, n, c) == lo[n] <= at[c] /\ at[c] <= hi[n]

\* What Shape says of one member.
LEMMA ShapeNode ==
  ASSUME NEW t, NEW M, NEW at, NEW lo, NEW hi, Shape(t, M, at, lo, hi), NEW n \in M
  PROVE  /\ n \in Node /\ Null \notin M /\ n # Null
         /\ at[n] \in Int /\ lo[n] \in Int /\ hi[n] \in Int
         /\ 1 <= lo[n] /\ lo[n] <= at[n] /\ at[n] <= hi[n] /\ hi[n] <= Cardinality(M)
         /\ t.left[n] \in M \cup {Null} /\ t.right[n] \in M \cup {Null}
         /\ t.parent[n] \in M \cup {Null}
         /\ LeftShape(t, M, at, lo, hi, n) /\ RightShape(t, M, at, lo, hi, n)
         /\ UpShape(t, M, n)
<1>1. NodeShape(t, M, at, lo, hi, n)
  BY DEF Shape
<1>2. at[n] \in Int /\ lo[n] \in Int /\ hi[n] \in Int /\ n \in Node /\ Null \notin M
  BY NodeAssumption DEF Shape, Places
<1>3. /\ LeftShape(t, M, at, lo, hi, n) /\ RightShape(t, M, at, lo, hi, n)
      /\ UpShape(t, M, n)
      /\ 1 <= lo[n] /\ lo[n] <= at[n] /\ at[n] <= hi[n] /\ hi[n] <= Cardinality(M)
  BY <1>1, Zenon DEF NodeShape
<1>4. t.left[n] \in M \cup {Null} /\ t.right[n] \in M \cup {Null} /\ t.parent[n] \in M \cup {Null}
  BY <1>3, Zenon DEF LeftShape, RightShape, UpShape
<1> QED BY <1>2, <1>3, <1>4, Zenon

\* The number of members.
LEMMA ShapeSize ==
  ASSUME NEW t, NEW M, NEW at, NEW lo, NEW hi, Shape(t, M, at, lo, hi)
  PROVE  /\ IsFiniteSet(M) /\ Cardinality(M) \in Nat /\ PathBound \in Nat
         /\ Cardinality(M) <= PathBound
<1>1. M \subseteq Node
  BY DEF Shape
<1> QED BY <1>1, NodeAssumption, FS_Subset, FS_CardinalityType DEF PathBound

\* A left child lies within its parent, which has no other link to it.
LEMMA LeftChild ==
  ASSUME NEW t, NEW M, NEW at, NEW lo, NEW hi, Shape(t, M, at, lo, hi), NEW n \in M,
         NEW c, c = t.left[n], c # Null
  PROVE  /\ c \in M /\ t.parent[c] = n /\ lo[c] = lo[n] /\ hi[c] = at[n] - 1
         /\ c # n /\ c # t.right[n] /\ c # t.root
<1>1. c \in M /\ t.parent[c] = n /\ lo[c] = lo[n] /\ hi[c] = at[n] - 1
  BY ShapeNode DEF LeftShape
<1>2. /\ at[n] \in Int /\ hi[c] \in Int /\ lo[c] \in Int /\ at[c] \in Int
      /\ lo[c] <= at[c] /\ at[c] <= hi[c]
  BY <1>1, ShapeNode
<1>3. c # n
  BY <1>1, <1>2
<1>4. UpShape(t, M, c) /\ n # Null
  BY <1>1, ShapeNode
<1>5. c # t.root
  BY <1>1, <1>4 DEF UpShape
<1>6. CASE c = t.right[n]
  <2>1. lo[c] = at[n] + 1
    BY <1>6, ShapeNode DEF RightShape
  <2> QED BY <1>1, <1>2, <2>1
<1> QED BY <1>1, <1>3, <1>5, <1>6

\* A right child lies within its parent, which has no other link to it.
LEMMA RightChild ==
  ASSUME NEW t, NEW M, NEW at, NEW lo, NEW hi, Shape(t, M, at, lo, hi), NEW n \in M,
         NEW c, c = t.right[n], c # Null
  PROVE  /\ c \in M /\ t.parent[c] = n /\ hi[c] = hi[n] /\ lo[c] = at[n] + 1
         /\ c # n /\ c # t.left[n] /\ c # t.root
<1>1. c \in M /\ t.parent[c] = n /\ hi[c] = hi[n] /\ lo[c] = at[n] + 1
  BY ShapeNode DEF RightShape
<1>2. /\ at[n] \in Int /\ lo[c] \in Int /\ hi[c] \in Int /\ at[c] \in Int
      /\ hi[c] >= at[c] /\ at[c] >= lo[c]
  BY <1>1, ShapeNode
<1>3. c # n
  BY <1>1, <1>2
<1>4. UpShape(t, M, c) /\ n # Null
  BY <1>1, ShapeNode
<1>5. c # t.root
  BY <1>1, <1>4 DEF UpShape
<1>6. CASE c = t.left[n]
  <2>1. hi[c] = at[n] - 1
    BY <1>6, ShapeNode DEF LeftShape
  <2> QED BY <1>1, <1>2, <2>1
<1> QED BY <1>1, <1>3, <1>5, <1>6

\* A member that is not the root lies within its parent.
LEMMA ParentOf ==
  ASSUME NEW t, NEW M, NEW at, NEW lo, NEW hi, Shape(t, M, at, lo, hi), NEW n \in M,
         NEW p, p = t.parent[n], p # Null
  PROVE  /\ p \in M /\ p # n /\ n # t.root
         /\ \/ n = t.left[p] /\ lo[n] = lo[p] /\ hi[n] = at[p] - 1
            \/ n = t.right[p] /\ hi[n] = hi[p] /\ lo[n] = at[p] + 1
<1>1. p \in M /\ n # t.root /\ (n = t.left[p] \/ n = t.right[p]) /\ n # Null
  BY ShapeNode DEF UpShape
<1>2. CASE n = t.left[p]
  BY ONLY <1>1, <1>2, Shape(t, M, at, lo, hi), LeftChild
<1>3. CASE n = t.right[p]
  BY ONLY <1>1, <1>3, Shape(t, M, at, lo, hi), RightChild
<1> QED BY <1>1, <1>2, <1>3

\* The nodes above a member are the member and those above its parent, and all
\* that is below the member is below them.
LEMMA AboveParent ==
  ASSUME NEW t, NEW M, NEW at, NEW lo, NEW hi, Shape(t, M, at, lo, hi), NEW c \in M
  PROVE  \A m \in M : Above(at, lo, hi, m, c) /\ m # c =>
           /\ t.parent[c] # Null /\ Above(at, lo, hi, m, t.parent[c])
           /\ lo[m] <= lo[c] /\ hi[c] <= hi[m]
<1> DEFINE Good(m) == Above(at, lo, hi, m, c) /\ m # c =>
                        /\ t.parent[c] # Null /\ Above(at, lo, hi, m, t.parent[c])
                        /\ lo[m] <= lo[c] /\ hi[c] <= hi[m]
           N == Cardinality(M)
           P == {k \in 0 .. N : \A m \in M : hi[m] - lo[m] < k => Good(m)}
<1>0. N \in Nat /\ c \in Node
  BY ShapeSize, ShapeNode
<1>1. 0 \in P
  <2>1. \A m \in M : ~ (hi[m] - lo[m] < 0)
    BY ShapeNode
  <2> QED BY <1>0, <2>1
<1>2. ASSUME NEW k \in 1 .. N, k - 1 \in P PROVE k \in P
  <2>1. SUFFICES ASSUME NEW m \in M, hi[m] - lo[m] < k, Above(at, lo, hi, m, c), m # c
                 PROVE  /\ t.parent[c] # Null /\ Above(at, lo, hi, m, t.parent[c])
                        /\ lo[m] <= lo[c] /\ hi[c] <= hi[m]
    <3>1. k \in 0 .. N
      OBVIOUS
    <3> QED BY <2>1, <3>1
  <2>2. \A x \in M : hi[x] - lo[x] < k - 1 => Good(x)
    BY <1>2
  <2>3. at[m] # at[c]
    BY <2>1 DEF Shape
  <2>4. /\ at[m] \in Int /\ lo[m] \in Int /\ hi[m] \in Int /\ at[c] \in Int
        /\ lo[c] \in Int /\ hi[c] \in Int
        /\ lo[m] <= at[m] /\ at[m] <= hi[m] /\ lo[m] <= at[c] /\ at[c] <= hi[m]
        /\ hi[m] - lo[m] < k
    BY <2>1, ShapeNode DEF Above
  <2>5. Null \notin M
    BY ShapeNode
  <2>6. CASE at[c] < at[m]
    <3> DEFINE l == t.left[m]
    <3>1. l # Null
      BY <2>4, <2>6, ShapeNode DEF LeftShape
    <3>2. l \in M /\ t.parent[l] = m /\ lo[l] = lo[m] /\ hi[l] = at[m] - 1
      BY <3>1, LeftChild
    <3> HIDE DEF l
    <3>3. CASE c = l
      BY <2>4, <2>5, <3>2, <3>3 DEF Above
    <3>4. CASE c # l
      <4>1. Above(at, lo, hi, l, c) /\ hi[l] - lo[l] < k - 1
        BY <2>4, <2>6, <3>2 DEF Above
      <4>2. /\ t.parent[c] # Null /\ Above(at, lo, hi, l, t.parent[c])
            /\ lo[l] <= lo[c] /\ hi[c] <= hi[l]
        BY <2>2, <3>2, <3>4, <4>1
      <4>3. at[t.parent[c]] \in Int
        BY <4>2, ShapeNode
      <4> QED BY <2>4, <3>2, <4>2, <4>3 DEF Above
    <3> QED BY <3>3, <3>4
  <2>7. CASE at[c] > at[m]
    <3> DEFINE l == t.right[m]
    <3>1. l # Null
      BY <2>4, <2>7, ShapeNode DEF RightShape
    <3>2. l \in M /\ t.parent[l] = m /\ hi[l] = hi[m] /\ lo[l] = at[m] + 1
      BY <3>1, RightChild
    <3> HIDE DEF l
    <3>3. CASE c = l
      BY <2>4, <2>5, <3>2, <3>3 DEF Above
    <3>4. CASE c # l
      <4>1. Above(at, lo, hi, l, c) /\ hi[l] - lo[l] < k - 1
        BY <2>4, <2>7, <3>2 DEF Above
      <4>2. /\ t.parent[c] # Null /\ Above(at, lo, hi, l, t.parent[c])
            /\ lo[l] <= lo[c] /\ hi[c] <= hi[l]
        BY <2>2, <3>2, <3>4, <4>1
      <4>3. at[t.parent[c]] \in Int
        BY <4>2, ShapeNode
      <4> QED BY <2>4, <3>2, <4>2, <4>3 DEF Above
    <3> QED BY <3>3, <3>4
  <2> QED BY <2>3, <2>4, <2>6, <2>7
<1> HIDE DEF P
<1>3. \A i \in 0 .. N : i \in P
  BY <1>0, <1>1, <1>2, UpToInduction
<1>4. N \in P
  BY <1>0, <1>3
<1>5. \A m \in M : hi[m] - lo[m] < N
  BY <1>0, ShapeNode
<1> QED BY <1>4, <1>5 DEF P

-----------------------------------------------------------------------------
(* Rotations. *)

\* The links after rot_right, once the parent of n leads to its new child.
LEMMA RotRightLinks ==
  ASSUME NEW t, NEW M, NEW at, NEW lo, NEW hi, Shape(t, M, at, lo, hi), NEW n \in M,
         NEW new, new = t.left[n], new # Null, NEW p, p = t.parent[n],
         NEW inner, inner = t.right[new],
         NEW v, v = Relink(rot_right(t, n).tree, p, n, new)
  PROVE  /\ new \in M /\ p \in M \cup {Null} /\ inner \in M \cup {Null}
         /\ n \notin {new, p, inner} /\ new \notin {p, inner} /\ (p # Null => p # inner)
         /\ rot_right(t, n).node = new
         /\ v \in Tree /\ v.root = IF p = Null THEN new ELSE t.root
         /\ \A x \in Node :
              /\ v.left[x] = IF x = n THEN inner
                             ELSE IF x = p /\ t.left[x] = n THEN new ELSE t.left[x]
              /\ v.right[x] = IF x = new THEN n
                              ELSE IF x = p /\ t.right[x] = n THEN new ELSE t.right[x]
              /\ v.parent[x] = IF x = n THEN new ELSE IF x = new THEN p
                               ELSE IF x = inner THEN n ELSE t.parent[x]
              /\ x \notin {n, new} => /\ v.height[x] = t.height[x]
                                      /\ v.count[x] = t.count[x]
         /\ v.height[n] = Larger(h(t, inner), h(t, t.right[n])) + 1
         /\ v.count[n] = 1 + cnt(t, inner) + cnt(t, t.right[n])
         /\ v.height[new] = Larger(h(t, t.left[new]), v.height[n]) + 1
         /\ v.count[new] = 1 + cnt(t, t.left[new]) + v.count[n]
<1>1. /\ t \in Tree /\ n \in Node /\ n # Null /\ p \in M \cup {Null} /\ Null \notin M
      /\ M \subseteq Node
  BY ShapeNode DEF Shape
<1>2. new \in M /\ new # n /\ t.parent[new] = n /\ lo[new] = lo[n] /\ hi[new] = at[n] - 1
  BY LeftChild
<1>3. inner \in M \cup {Null} /\ t.left[new] \in M \cup {Null}
  BY <1>2, ShapeNode
<1>4. inner # Null => inner # new /\ t.parent[inner] = new
  BY <1>2, RightChild
<1>5. t.left[new] # Null => t.parent[t.left[new]] = new
  BY <1>2, LeftChild
<1>6. p # Null => /\ p \in M /\ p # n
                  /\ \/ n = t.left[p] /\ lo[n] = lo[p] /\ hi[n] = at[p] - 1
                     \/ n = t.right[p] /\ hi[n] = hi[p] /\ lo[n] = at[p] + 1
  BY ParentOf
<1>7. p # new
  <2> SUFFICES ASSUME p = new PROVE FALSE
    OBVIOUS
  <2>2. /\ lo[n] \in Int /\ hi[n] \in Int /\ lo[new] \in Int /\ hi[new] \in Int
        /\ at[new] \in Int /\ at[n] \in Int /\ lo[n] <= at[n] /\ at[n] <= hi[n]
        /\ lo[new] <= at[new] /\ at[new] <= hi[new]
    BY <1>2, ShapeNode
  <2> QED BY <1>2, <1>6, <2>2
<1>8. t.left[new] # n /\ inner # n
  BY <1>1, <1>4, <1>5, <1>7
<1>9. p # Null => p # inner
  <2> SUFFICES ASSUME p # Null, p = inner PROVE FALSE
    OBVIOUS
  <2>1. p \in M /\ t.parent[p] = new /\ lo[p] = at[new] + 1 /\ hi[p] = hi[new]
    BY <1>2, RightChild
  <2>2. /\ lo[n] \in Int /\ hi[n] \in Int /\ lo[new] \in Int /\ hi[new] \in Int
        /\ at[new] \in Int /\ at[n] \in Int /\ lo[n] <= at[n] /\ at[n] <= hi[n]
        /\ lo[new] <= at[new] /\ at[new] <= hi[new]
        /\ at[p] \in Int /\ lo[p] <= at[p] /\ at[p] <= hi[p] /\ lo[p] \in Int /\ hi[p] \in Int
    BY <1>2, <2>1, ShapeNode
  <2> QED BY <1>2, <1>6, <2>1, <2>2
<1>10. new \in Node /\ inner \in NullOr /\ p \in NullOr /\ new \in NullOr
  BY <1>1, <1>2, <1>3 DEF NullOr
<1> DEFINE w == rot_right(t, n).tree
<1>11. /\ rot_right(t, n).node = new
       /\ w \in Tree /\ w.root = t.root
       /\ \A x \in Node :
            /\ w.left[x] = IF x = n THEN inner ELSE t.left[x]
            /\ w.right[x] = IF x = new THEN n ELSE t.right[x]
            /\ w.parent[x] = IF x = n THEN new ELSE IF x = new THEN t.parent[n]
                             ELSE IF x = inner THEN n ELSE t.parent[x]
            /\ x \notin {n, new} => /\ w.height[x] = t.height[x]
                                    /\ w.count[x] = t.count[x]
       /\ w.height[n] = Larger(h(t, inner), h(t, t.right[n])) + 1
       /\ w.count[n] = 1 + cnt(t, inner) + cnt(t, t.right[n])
       /\ w.height[new] = Larger(h(t, t.left[new]), w.height[n]) + 1
       /\ w.count[new] = 1 + cnt(t, t.left[new]) + w.count[n]
  BY <1>1, <1>2, <1>8, <1>10, RotRightFields
<1> HIDE DEF w
<1>12. /\ v \in Tree /\ v.root = IF p = Null THEN new ELSE w.root
       /\ v.parent = w.parent /\ v.height = w.height /\ v.count = w.count
       /\ \A x \in Node :
            /\ v.left[x] = IF x = p /\ w.left[p] = n THEN new ELSE w.left[x]
            /\ v.right[x] = IF x = p /\ w.left[p] # n THEN new ELSE w.right[x]
  <2>1. v = Relink(w, p, n, new) /\ w \in Tree
    BY <1>11 DEF w
  <2> QED BY <1>10, <2>1, RelinkFields
<1>13. p # Null => /\ w.left[p] = t.left[p] /\ w.right[p] = t.right[p] /\ p \in Node
                   /\ (t.left[p] = n => t.right[p] # n)
                   /\ (t.left[p] = n \/ t.right[p] = n)
  BY <1>1, <1>6, <1>7, <1>11, LeftChild, RightChild
<1>14. \A x \in Node :
         /\ v.left[x] = IF x = n THEN inner
                        ELSE IF x = p /\ t.left[x] = n THEN new ELSE t.left[x]
         /\ v.right[x] = IF x = new THEN n
                         ELSE IF x = p /\ t.right[x] = n THEN new ELSE t.right[x]
  <2> SUFFICES ASSUME NEW x \in Node
               PROVE /\ v.left[x] = IF x = n THEN inner
                                    ELSE IF x = p /\ t.left[x] = n THEN new ELSE t.left[x]
                     /\ v.right[x] = IF x = new THEN n
                                     ELSE IF x = p /\ t.right[x] = n THEN new ELSE t.right[x]
    OBVIOUS
  <2>0. x # Null
    BY NodeAssumption
  <2>1. CASE x = p
    <3>1. w.left[x] = t.left[x] /\ w.right[x] = t.right[x]
      BY <1>6, <1>7, <1>11, <2>0, <2>1
    <3> QED BY <1>6, <1>7, <1>12, <1>13, <2>0, <2>1, <3>1
  <2>2. CASE x # p
    BY <1>11, <1>12, <2>2
  <2> QED BY <2>1, <2>2
<1>15. /\ new \in M /\ p \in M \cup {Null} /\ inner \in M \cup {Null}
       /\ n \notin {new, p, inner} /\ new \notin {p, inner} /\ (p # Null => p # inner)
  BY <1>1, <1>2, <1>3, <1>4, <1>6, <1>7, <1>8, <1>9
<1>16. v.root = IF p = Null THEN new ELSE t.root
  BY <1>11, <1>12
<1>17. /\ \A x \in Node :
            /\ v.parent[x] = IF x = n THEN new ELSE IF x = new THEN p
                             ELSE IF x = inner THEN n ELSE t.parent[x]
            /\ x \notin {n, new} => v.height[x] = t.height[x] /\ v.count[x] = t.count[x]
       /\ v.height[n] = Larger(h(t, inner), h(t, t.right[n])) + 1
       /\ v.count[n] = 1 + cnt(t, inner) + cnt(t, t.right[n])
       /\ v.height[new] = Larger(h(t, t.left[new]), v.height[n]) + 1
       /\ v.count[new] = 1 + cnt(t, t.left[new]) + v.count[n]
  BY <1>11, <1>12
<1> QED BY ONLY <1>11, <1>12, <1>14, <1>15, <1>16, <1>17, Zenon

\* The links after rot_left, once the parent of n leads to its new child.
LEMMA RotLeftLinks ==
  ASSUME NEW t, NEW M, NEW at, NEW lo, NEW hi, Shape(t, M, at, lo, hi), NEW n \in M,
         NEW new, new = t.right[n], new # Null, NEW p, p = t.parent[n],
         NEW inner, inner = t.left[new],
         NEW v, v = Relink(rot_left(t, n).tree, p, n, new)
  PROVE  /\ new \in M /\ p \in M \cup {Null} /\ inner \in M \cup {Null}
         /\ n \notin {new, p, inner} /\ new \notin {p, inner} /\ (p # Null => p # inner)
         /\ rot_left(t, n).node = new
         /\ v \in Tree /\ v.root = IF p = Null THEN new ELSE t.root
         /\ \A x \in Node :
              /\ v.right[x] = IF x = n THEN inner
                             ELSE IF x = p /\ t.right[x] = n THEN new ELSE t.right[x]
              /\ v.left[x] = IF x = new THEN n
                              ELSE IF x = p /\ t.left[x] = n THEN new ELSE t.left[x]
              /\ v.parent[x] = IF x = n THEN new ELSE IF x = new THEN p
                               ELSE IF x = inner THEN n ELSE t.parent[x]
              /\ x \notin {n, new} => /\ v.height[x] = t.height[x]
                                      /\ v.count[x] = t.count[x]
         /\ v.height[n] = Larger(h(t, inner), h(t, t.left[n])) + 1
         /\ v.count[n] = 1 + cnt(t, inner) + cnt(t, t.left[n])
         /\ v.height[new] = Larger(h(t, t.right[new]), v.height[n]) + 1
         /\ v.count[new] = 1 + cnt(t, t.right[new]) + v.count[n]
<1>1. /\ t \in Tree /\ n \in Node /\ n # Null /\ p \in M \cup {Null} /\ Null \notin M
      /\ M \subseteq Node
  BY ShapeNode DEF Shape
<1>2. new \in M /\ new # n /\ t.parent[new] = n /\ hi[new] = hi[n] /\ lo[new] = at[n] + 1
  BY RightChild
<1>3. inner \in M \cup {Null} /\ t.right[new] \in M \cup {Null}
  BY <1>2, ShapeNode
<1>4. inner # Null => inner # new /\ t.parent[inner] = new
  BY <1>2, LeftChild
<1>5. t.right[new] # Null => t.parent[t.right[new]] = new
  BY <1>2, RightChild
<1>6. p # Null => /\ p \in M /\ p # n
                  /\ \/ n = t.right[p] /\ hi[n] = hi[p] /\ lo[n] = at[p] + 1
                     \/ n = t.left[p] /\ lo[n] = lo[p] /\ hi[n] = at[p] - 1
  BY ParentOf
<1>7. p # new
  <2> SUFFICES ASSUME p = new PROVE FALSE
    OBVIOUS
  <2>2. /\ hi[n] \in Int /\ lo[n] \in Int /\ hi[new] \in Int /\ lo[new] \in Int
        /\ at[new] \in Int /\ at[n] \in Int /\ hi[n] >= at[n] /\ at[n] >= lo[n]
        /\ hi[new] >= at[new] /\ at[new] >= lo[new]
    BY <1>2, ShapeNode
  <2> QED BY <1>2, <1>6, <2>2
<1>8. t.right[new] # n /\ inner # n
  BY <1>1, <1>4, <1>5, <1>7
<1>9. p # Null => p # inner
  <2> SUFFICES ASSUME p # Null, p = inner PROVE FALSE
    OBVIOUS
  <2>1. p \in M /\ t.parent[p] = new /\ hi[p] = at[new] - 1 /\ lo[p] = lo[new]
    BY <1>2, LeftChild
  <2>2. /\ hi[n] \in Int /\ lo[n] \in Int /\ hi[new] \in Int /\ lo[new] \in Int
        /\ at[new] \in Int /\ at[n] \in Int /\ hi[n] >= at[n] /\ at[n] >= lo[n]
        /\ hi[new] >= at[new] /\ at[new] >= lo[new]
        /\ at[p] \in Int /\ hi[p] >= at[p] /\ at[p] >= lo[p] /\ hi[p] \in Int /\ lo[p] \in Int
    BY <1>2, <2>1, ShapeNode
  <2> QED BY <1>2, <1>6, <2>1, <2>2
<1>10. new \in Node /\ inner \in NullOr /\ p \in NullOr /\ new \in NullOr
  BY <1>1, <1>2, <1>3 DEF NullOr
<1> DEFINE w == rot_left(t, n).tree
<1>11. /\ rot_left(t, n).node = new
       /\ w \in Tree /\ w.root = t.root
       /\ \A x \in Node :
            /\ w.right[x] = IF x = n THEN inner ELSE t.right[x]
            /\ w.left[x] = IF x = new THEN n ELSE t.left[x]
            /\ w.parent[x] = IF x = n THEN new ELSE IF x = new THEN t.parent[n]
                             ELSE IF x = inner THEN n ELSE t.parent[x]
            /\ x \notin {n, new} => /\ w.height[x] = t.height[x]
                                    /\ w.count[x] = t.count[x]
       /\ w.height[n] = Larger(h(t, inner), h(t, t.left[n])) + 1
       /\ w.count[n] = 1 + cnt(t, inner) + cnt(t, t.left[n])
       /\ w.height[new] = Larger(h(t, t.right[new]), w.height[n]) + 1
       /\ w.count[new] = 1 + cnt(t, t.right[new]) + w.count[n]
  BY <1>1, <1>2, <1>8, <1>10, RotLeftFields
<1> HIDE DEF w
<1>12. /\ v \in Tree /\ v.root = IF p = Null THEN new ELSE w.root
       /\ v.parent = w.parent /\ v.height = w.height /\ v.count = w.count
       /\ \A x \in Node :
            /\ v.left[x] = IF x = p /\ w.left[p] = n THEN new ELSE w.left[x]
            /\ v.right[x] = IF x = p /\ w.left[p] # n THEN new ELSE w.right[x]
  <2>1. v = Relink(w, p, n, new) /\ w \in Tree
    BY <1>11 DEF w
  <2> QED BY <1>10, <2>1, RelinkFields
<1>13. p # Null => /\ w.right[p] = t.right[p] /\ w.left[p] = t.left[p] /\ p \in Node
                   /\ (t.right[p] = n => t.left[p] # n)
                   /\ (t.right[p] = n \/ t.left[p] = n)
  BY <1>1, <1>6, <1>7, <1>11, RightChild, LeftChild
<1>14. \A x \in Node :
         /\ v.right[x] = IF x = n THEN inner
                        ELSE IF x = p /\ t.right[x] = n THEN new ELSE t.right[x]
         /\ v.left[x] = IF x = new THEN n
                         ELSE IF x = p /\ t.left[x] = n THEN new ELSE t.left[x]
  <2> SUFFICES ASSUME NEW x \in Node
               PROVE /\ v.right[x] = IF x = n THEN inner
                                    ELSE IF x = p /\ t.right[x] = n THEN new ELSE t.right[x]
                     /\ v.left[x] = IF x = new THEN n
                                     ELSE IF x = p /\ t.left[x] = n THEN new ELSE t.left[x]
    OBVIOUS
  <2>0. x # Null
    BY NodeAssumption
  <2>1. CASE x = p
    <3>1. w.right[x] = t.right[x] /\ w.left[x] = t.left[x]
      BY <1>6, <1>7, <1>11, <2>0, <2>1
    <3> QED BY <1>6, <1>7, <1>12, <1>13, <2>0, <2>1, <3>1
  <2>2. CASE x # p
    BY <1>11, <1>12, <2>2
  <2> QED BY <2>1, <2>2
<1>15. /\ new \in M /\ p \in M \cup {Null} /\ inner \in M \cup {Null}
       /\ n \notin {new, p, inner} /\ new \notin {p, inner} /\ (p # Null => p # inner)
  BY <1>1, <1>2, <1>3, <1>4, <1>6, <1>7, <1>8, <1>9
<1>16. v.root = IF p = Null THEN new ELSE t.root
  BY <1>11, <1>12
<1>17. /\ \A x \in Node :
            /\ v.parent[x] = IF x = n THEN new ELSE IF x = new THEN p
                             ELSE IF x = inner THEN n ELSE t.parent[x]
            /\ x \notin {n, new} => v.height[x] = t.height[x] /\ v.count[x] = t.count[x]
       /\ v.height[n] = Larger(h(t, inner), h(t, t.left[n])) + 1
       /\ v.count[n] = 1 + cnt(t, inner) + cnt(t, t.left[n])
       /\ v.height[new] = Larger(h(t, t.right[new]), v.height[n]) + 1
       /\ v.count[new] = 1 + cnt(t, t.right[new]) + v.count[n]
  BY <1>11, <1>12
<1> QED BY ONLY <1>11, <1>12, <1>14, <1>15, <1>16, <1>17, Zenon

\* rot_right keeps the places: only the parts of the places below n and below
\* its left child change.
LEMMA RotRightShape ==
  ASSUME NEW t, NEW M, NEW at, NEW lo, NEW hi, Shape(t, M, at, lo, hi), NEW n \in M,
         NEW new, new = t.left[n], new # Null, NEW p, p = t.parent[n],
         NEW v, v = Relink(rot_right(t, n).tree, p, n, new),
         NEW lo2, lo2 = [lo EXCEPT ![n] = at[new] + 1],
         NEW hi2, hi2 = [hi EXCEPT ![new] = hi[n]]
  PROVE  Shape(v, M, at, lo2, hi2)
<1> DEFINE inner == t.right[new]
<1>1. /\ new \in M /\ p \in M \cup {Null} /\ inner \in M \cup {Null}
      /\ n \notin {new, p, inner} /\ new \notin {p, inner} /\ (p # Null => p # inner)
      /\ v \in Tree /\ v.root = IF p = Null THEN new ELSE t.root
  BY RotRightLinks
<1>2. \A x \in Node :
        /\ v.left[x] = IF x = n THEN inner
                       ELSE IF x = p /\ t.left[x] = n THEN new ELSE t.left[x]
        /\ v.right[x] = IF x = new THEN n
                        ELSE IF x = p /\ t.right[x] = n THEN new ELSE t.right[x]
        /\ v.parent[x] = IF x = n THEN new ELSE IF x = new THEN p
                         ELSE IF x = inner THEN n ELSE t.parent[x]
  BY RotRightLinks
<1>3. /\ M \subseteq Node /\ Null \notin M /\ at \in Places /\ lo \in Places /\ hi \in Places
      /\ \A x \in M : x \in Node /\ at[x] \in Int /\ lo[x] \in Int /\ hi[x] \in Int
  BY ShapeNode DEF Shape
<1>4. /\ t.parent[new] = n /\ lo[new] = lo[n] /\ hi[new] = at[n] - 1
  BY LeftChild
<1>5. lo2 \in Places /\ hi2 \in Places
  BY <1>1, <1>3 DEF Places
<1>6. \A x \in M : /\ lo2[x] = IF x = n THEN at[new] + 1 ELSE lo[x]
                   /\ hi2[x] = IF x = new THEN hi[n] ELSE hi[x]
  BY <1>1, <1>3 DEF Places
<1>7. \A x \in M : /\ 1 <= lo[x] /\ lo[x] <= at[x] /\ at[x] <= hi[x]
                   /\ hi[x] <= Cardinality(M)
  BY ShapeNode
<1>8. inner # Null => /\ t.parent[inner] = new /\ hi[inner] = hi[new]
                      /\ lo[inner] = at[new] + 1
  BY <1>1, RightChild
<1>9. inner = Null => hi[new] = at[new]
  BY <1>1, ShapeNode DEF RightShape
<1> HIDE DEF inner
<1>10. /\ at[n] \in Int /\ lo[n] \in Int /\ hi[n] \in Int
       /\ at[new] \in Int /\ lo[new] \in Int /\ hi[new] \in Int
       /\ lo[n] <= at[n] /\ at[n] <= hi[n] /\ lo[new] <= at[new] /\ at[new] <= hi[new]
       /\ 1 <= lo[n] /\ hi[n] <= Cardinality(M) /\ 1 <= lo[new] /\ hi[new] <= Cardinality(M)
  BY <1>1, <1>3, <1>7
<1>11. Cardinality(M) \in Nat
  BY ShapeSize
<1>12. ASSUME NEW x \in M
       PROVE  /\ 1 <= lo2[x] /\ lo2[x] <= at[x] /\ at[x] <= hi2[x]
              /\ hi2[x] <= Cardinality(M)
  <2>1. CASE x = n
    BY <1>1, <1>4, <1>6, <1>10, <1>11, <2>1
  <2>2. CASE x = new
    BY <1>1, <1>4, <1>6, <1>10, <1>11, <2>2
  <2>3. CASE x \notin {n, new}
    BY <1>6, <1>7, <2>3
  <2> QED BY <2>1, <2>2, <2>3
<1>13. ASSUME NEW x \in M PROVE LeftShape(v, M, at, lo2, hi2, x)
  <2>1. CASE x = n
    <3>1. v.left[x] = inner
      BY <1>2, <1>3, <2>1
    <3>2. CASE inner = Null
      BY <1>1, <1>4, <1>6, <1>9, <1>10, <2>1, <3>1, <3>2 DEF LeftShape
    <3>3. CASE inner # Null
      <4>1. inner \in M /\ inner \in Node /\ v.parent[inner] = n
        BY <1>1, <1>2, <1>3, <3>3
      <4>2. /\ lo2[inner] = lo[inner] /\ hi2[inner] = hi[inner] /\ lo2[n] = at[new] + 1
        BY <1>1, <1>6, <4>1
      <4> QED BY <1>1, <1>4, <1>8, <2>1, <3>1, <3>3, <4>1, <4>2 DEF LeftShape
    <3> QED BY <3>2, <3>3
  <2>2. CASE x # n /\ x = p /\ t.left[x] = n
    <3>1. v.left[x] = new /\ new # Null /\ v.parent[new] = x
      BY <1>1, <1>2, <1>3, <2>2
    <3>2. LeftShape(t, M, at, lo, hi, x) /\ n # Null
      BY <1>3, ShapeNode
    <3>3. lo[n] = lo[x] /\ hi[n] = at[x] - 1
      BY <2>2, <3>2 DEF LeftShape
    <3>4. lo2[new] = lo[new] /\ hi2[new] = hi[n] /\ lo2[x] = lo[x]
      BY <1>1, <1>6, <2>2
    <3> QED BY <1>1, <1>4, <3>1, <3>3, <3>4 DEF LeftShape
  <2>3. CASE x # n /\ ~ (x = p /\ t.left[x] = n)
    <3>1. v.left[x] = t.left[x] /\ lo2[x] = lo[x]
      BY <1>2, <1>3, <1>6, <2>3
    <3>2. CASE t.left[x] = Null
      <4>1. lo[x] = at[x]
        BY <3>2, ShapeNode DEF LeftShape
      <4> QED BY <3>1, <3>2, <4>1 DEF LeftShape
    <3>3. CASE t.left[x] # Null
      <4> DEFINE c == t.left[x]
      <4>1. c \in M /\ t.parent[c] = x /\ lo[c] = lo[x] /\ hi[c] = at[x] - 1
            /\ c # t.right[x]
        BY <3>3, LeftChild
      <4> HIDE DEF c
      <4>2. c # n
        BY <2>3, <4>1 DEF c
      <4>3. c # new
        BY <1>4, <2>3, <4>1
      <4>4. c # inner
        BY <1>1, <1>8, <4>1, <1>3 DEF inner, c
      <4>5. v.parent[c] = x
        BY <1>2, <1>3, <4>1, <4>2, <4>3, <4>4
      <4>6. lo2[c] = lo[c] /\ hi2[c] = hi[c]
        BY <1>6, <4>1, <4>2, <4>3
      <4>7. v.left[x] = c /\ c # Null
        BY <3>1, <3>3 DEF c
      <4> QED BY <3>1, <4>1, <4>5, <4>6, <4>7 DEF LeftShape
    <3> QED BY <3>2, <3>3
  <2> QED BY <2>1, <2>2, <2>3
<1>14. ASSUME NEW x \in M PROVE RightShape(v, M, at, lo2, hi2, x)
  <2>1. CASE x = new
    <3>1. v.right[x] = n /\ v.parent[n] = x /\ n # Null
      BY <1>1, <1>2, <1>3, <2>1
    <3>2. /\ hi2[x] = hi[n] /\ hi2[n] = hi[n] /\ lo2[n] = at[x] + 1
      BY <1>1, <1>6, <2>1
    <3> QED BY <3>1, <3>2 DEF RightShape
  <2>2. CASE x # new /\ x = p /\ t.right[x] = n
    <3>1. v.right[x] = new /\ v.parent[new] = x
      BY <1>1, <1>2, <1>3, <2>2
    <3>2. RightShape(t, M, at, lo, hi, x) /\ n # Null
      BY <1>3, ShapeNode
    <3>3. hi[n] = hi[x] /\ lo[n] = at[x] + 1
      BY <2>2, <3>2 DEF RightShape
    <3>4. lo2[new] = lo[new] /\ hi2[new] = hi[n] /\ hi2[x] = hi[x]
      BY <1>1, <1>6, <2>2
    <3> QED BY <1>1, <1>4, <3>1, <3>3, <3>4 DEF RightShape
  <2>3. CASE x # new /\ ~ (x = p /\ t.right[x] = n)
    <3>1. v.right[x] = t.right[x] /\ hi2[x] = hi[x]
      BY <1>2, <1>3, <1>6, <2>3
    <3>2. CASE t.right[x] = Null
      <4>1. hi[x] = at[x]
        BY <3>2, ShapeNode DEF RightShape
      <4> QED BY <3>1, <3>2, <4>1 DEF RightShape
    <3>3. CASE t.right[x] # Null
      <4> DEFINE c == t.right[x]
      <4>1. c \in M /\ t.parent[c] = x /\ hi[c] = hi[x] /\ lo[c] = at[x] + 1
            /\ c # t.left[x]
        BY <3>3, RightChild
      <4> HIDE DEF c
      <4>2. c # n
        BY <2>3, <4>1 DEF c
      <4>3. c # new
        BY <1>4, <4>1 DEF c
      <4>4. c # inner
        BY <1>1, <1>8, <2>3, <4>1, <1>3
      <4>5. v.parent[c] = x
        BY <1>2, <1>3, <4>1, <4>2, <4>3, <4>4
      <4>6. lo2[c] = lo[c] /\ hi2[c] = hi[c]
        BY <1>6, <4>1, <4>2, <4>3
      <4>7. v.right[x] = c /\ c # Null
        BY <3>1, <3>3 DEF c
      <4> QED BY <3>1, <4>1, <4>5, <4>6, <4>7 DEF RightShape
    <3> QED BY <3>2, <3>3
  <2> QED BY <2>1, <2>2, <2>3
<1>15. t.root # new /\ t.root \in M
  <2>1. t.root # new
    BY LeftChild
  <2>2. RootShape(t, M, lo, hi) /\ n \in M
    BY DEF Shape
  <2> QED BY <2>1, <2>2 DEF RootShape
<1>16. ASSUME NEW x \in M PROVE UpShape(v, M, x)
  <2>0. UpShape(t, M, x) /\ UpShape(t, M, n) /\ x \in Node /\ n \in Node /\ new \in Node /\ n # Null
    BY <1>1, <1>3, ShapeNode
  <2>1. CASE x = n
    BY <1>1, <1>2, <1>3, <1>15, <2>0, <2>1 DEF UpShape
  <2>2. CASE x = new
    <3>1. v.parent[x] = p
      BY <1>1, <1>2, <2>0, <2>2
    <3>2. CASE p = Null
      BY <1>1, <2>2, <3>1, <3>2 DEF UpShape
    <3>3. CASE p # Null
      <4>1. p \in M /\ (t.left[p] = n \/ t.right[p] = n) /\ p \in Node
        BY <1>1, <1>3, <2>0, <3>3 DEF UpShape
      <4>2. v.left[p] = new \/ v.right[p] = new
        BY <1>1, <1>2, <4>1
      <4> QED BY <1>1, <1>15, <2>2, <3>1, <3>3, <4>1, <4>2 DEF UpShape
    <3> QED BY <3>2, <3>3
  <2>3. CASE x = inner
    <3>1. v.parent[x] = n /\ v.left[n] = x
      BY <1>1, <1>2, <2>0, <2>3
    <3>2. x # t.root
      BY <1>1, <1>8, <1>3, <2>0, <2>3 DEF UpShape
    <3> QED BY <1>1, <2>0, <2>3, <3>1, <3>2 DEF UpShape
  <2>4. CASE x \notin {n, new, inner}
    <3>1. v.parent[x] = t.parent[x]
      BY <1>2, <2>0, <2>4
    <3>2. CASE t.parent[x] = Null
      <4>1. x = t.root
        BY <2>0, <3>2 DEF UpShape
      <4>2. p # Null
        BY <2>0, <2>4, <4>1 DEF UpShape
      <4> QED BY <1>1, <3>1, <3>2, <4>1, <4>2 DEF UpShape
    <3>3. CASE t.parent[x] # Null
      <4> DEFINE q == t.parent[x]
      <4>1. q \in M /\ x # t.root /\ (x = t.left[q] \/ x = t.right[q]) /\ q \in Node
        BY <1>3, <2>0, <3>3 DEF UpShape
      <4> HIDE DEF q
      <4>2. x # v.root
        BY <1>1, <2>4, <4>1
      <4>3. CASE x = t.left[q]
        <5>1. q # n
          BY <2>4, <4>3
        <5>2. v.left[q] = x
          BY <1>2, <2>4, <4>1, <4>3, <5>1
        <5> QED BY <3>1, <3>3, <4>1, <4>2, <5>2 DEF UpShape, q
      <4>4. CASE x = t.right[q]
        <5>1. q # new
          BY <2>4, <4>4 DEF inner
        <5>2. v.right[q] = x
          BY <1>2, <2>4, <4>1, <4>4, <5>1
        <5> QED BY <3>1, <3>3, <4>1, <4>2, <5>2 DEF UpShape, q
      <4> QED BY <4>1, <4>3, <4>4
    <3> QED BY <3>2, <3>3
  <2> QED BY <2>1, <2>2, <2>3, <2>4
<1>17. RootShape(v, M, lo2, hi2)
  <2>1. RootShape(t, M, lo, hi) /\ UpShape(t, M, n) /\ n # Null
    BY <1>3, ShapeNode DEF Shape
  <2>2. CASE p = Null
    <3>1. n = t.root /\ v.root = new
      BY <1>1, <2>1, <2>2 DEF UpShape
    <3> QED BY <1>1, <1>3, <1>4, <1>6, <2>1, <3>1 DEF RootShape
  <2>3. CASE p # Null
    <3>1. n # t.root /\ v.root = t.root
      BY <1>1, <2>1, <2>3 DEF UpShape
    <3> QED BY <1>6, <1>15, <2>1, <3>1 DEF RootShape
  <2> QED BY <2>2, <2>3
<1>18. \A x \in M : NodeShape(v, M, at, lo2, hi2, x)
  BY <1>12, <1>13, <1>14, <1>16 DEF NodeShape
<1>19. \A m, x \in M : at[m] = at[x] => m = x
  BY DEF Shape
<1> QED BY <1>1, <1>3, <1>5, <1>17, <1>18, <1>19 DEF Shape

\* rot_left keeps the places: only the parts of the places below n and below
\* its right child change.
LEMMA RotLeftShape ==
  ASSUME NEW t, NEW M, NEW at, NEW lo, NEW hi, Shape(t, M, at, lo, hi), NEW n \in M,
         NEW new, new = t.right[n], new # Null, NEW p, p = t.parent[n],
         NEW v, v = Relink(rot_left(t, n).tree, p, n, new),
         NEW hi2, hi2 = [hi EXCEPT ![n] = at[new] - 1],
         NEW lo2, lo2 = [lo EXCEPT ![new] = lo[n]]
  PROVE  Shape(v, M, at, lo2, hi2)
<1> DEFINE inner == t.left[new]
<1>1. /\ new \in M /\ p \in M \cup {Null} /\ inner \in M \cup {Null}
      /\ n \notin {new, p, inner} /\ new \notin {p, inner} /\ (p # Null => p # inner)
      /\ v \in Tree /\ v.root = IF p = Null THEN new ELSE t.root
  BY RotLeftLinks
<1>2. \A x \in Node :
        /\ v.right[x] = IF x = n THEN inner
                       ELSE IF x = p /\ t.right[x] = n THEN new ELSE t.right[x]
        /\ v.left[x] = IF x = new THEN n
                        ELSE IF x = p /\ t.left[x] = n THEN new ELSE t.left[x]
        /\ v.parent[x] = IF x = n THEN new ELSE IF x = new THEN p
                         ELSE IF x = inner THEN n ELSE t.parent[x]
  BY RotLeftLinks
<1>3. /\ M \subseteq Node /\ Null \notin M /\ at \in Places /\ hi \in Places /\ lo \in Places
      /\ \A x \in M : x \in Node /\ at[x] \in Int /\ hi[x] \in Int /\ lo[x] \in Int
  BY ShapeNode DEF Shape
<1>4. /\ t.parent[new] = n /\ hi[new] = hi[n] /\ lo[new] = at[n] + 1
  BY RightChild
<1>5. hi2 \in Places /\ lo2 \in Places
  BY <1>1, <1>3 DEF Places
<1>6. \A x \in M : /\ hi2[x] = IF x = n THEN at[new] - 1 ELSE hi[x]
                   /\ lo2[x] = IF x = new THEN lo[n] ELSE lo[x]
  BY <1>1, <1>3 DEF Places
<1>7. \A x \in M : /\ 1 <= lo[x] /\ hi[x] >= at[x] /\ at[x] >= lo[x]
                   /\ hi[x] <= Cardinality(M)
  BY ShapeNode
<1>8. inner # Null => /\ t.parent[inner] = new /\ lo[inner] = lo[new]
                      /\ hi[inner] = at[new] - 1
  BY <1>1, LeftChild
<1>9. inner = Null => lo[new] = at[new]
  BY <1>1, ShapeNode DEF LeftShape
<1> HIDE DEF inner
<1>10. /\ at[n] \in Int /\ hi[n] \in Int /\ lo[n] \in Int
       /\ at[new] \in Int /\ hi[new] \in Int /\ lo[new] \in Int
       /\ hi[n] >= at[n] /\ at[n] >= lo[n] /\ hi[new] >= at[new] /\ at[new] >= lo[new]
       /\ 1 <= lo[n] /\ hi[n] <= Cardinality(M) /\ 1 <= lo[new] /\ hi[new] <= Cardinality(M)
  BY <1>1, <1>3, <1>7
<1>11. Cardinality(M) \in Nat
  BY ShapeSize
<1>12. ASSUME NEW x \in M
       PROVE  /\ 1 <= lo2[x] /\ hi2[x] >= at[x] /\ at[x] >= lo2[x]
              /\ hi2[x] <= Cardinality(M)
  <2>1. CASE x = n
    BY <1>1, <1>4, <1>6, <1>10, <1>11, <2>1
  <2>2. CASE x = new
    BY <1>1, <1>4, <1>6, <1>10, <1>11, <2>2
  <2>3. CASE x \notin {n, new}
    BY <1>6, <1>7, <2>3
  <2> QED BY <2>1, <2>2, <2>3
<1>13. ASSUME NEW x \in M PROVE RightShape(v, M, at, lo2, hi2, x)
  <2>1. CASE x = n
    <3>1. v.right[x] = inner
      BY <1>2, <1>3, <2>1
    <3>2. CASE inner = Null
      BY <1>1, <1>4, <1>6, <1>9, <1>10, <2>1, <3>1, <3>2 DEF RightShape
    <3>3. CASE inner # Null
      <4>1. inner \in M /\ inner \in Node /\ v.parent[inner] = n
        BY <1>1, <1>2, <1>3, <3>3
      <4>2. /\ hi2[inner] = hi[inner] /\ lo2[inner] = lo[inner] /\ hi2[n] = at[new] - 1
        BY <1>1, <1>6, <4>1
      <4> QED BY <1>1, <1>4, <1>8, <2>1, <3>1, <3>3, <4>1, <4>2 DEF RightShape
    <3> QED BY <3>2, <3>3
  <2>2. CASE x # n /\ x = p /\ t.right[x] = n
    <3>1. v.right[x] = new /\ new # Null /\ v.parent[new] = x
      BY <1>1, <1>2, <1>3, <2>2
    <3>2. RightShape(t, M, at, lo, hi, x) /\ n # Null
      BY <1>3, ShapeNode
    <3>3. hi[n] = hi[x] /\ lo[n] = at[x] + 1
      BY <2>2, <3>2 DEF RightShape
    <3>4. hi2[new] = hi[new] /\ lo2[new] = lo[n] /\ hi2[x] = hi[x]
      BY <1>1, <1>6, <2>2
    <3> QED BY <1>1, <1>4, <3>1, <3>3, <3>4 DEF RightShape
  <2>3. CASE x # n /\ ~ (x = p /\ t.right[x] = n)
    <3>1. v.right[x] = t.right[x] /\ hi2[x] = hi[x]
      BY <1>2, <1>3, <1>6, <2>3
    <3>2. CASE t.right[x] = Null
      <4>1. hi[x] = at[x]
        BY <3>2, ShapeNode DEF RightShape
      <4> QED BY <3>1, <3>2, <4>1 DEF RightShape
    <3>3. CASE t.right[x] # Null
      <4> DEFINE c == t.right[x]
      <4>1. c \in M /\ t.parent[c] = x /\ hi[c] = hi[x] /\ lo[c] = at[x] + 1
            /\ c # t.left[x]
        BY <3>3, RightChild
      <4> HIDE DEF c
      <4>2. c # n
        BY <2>3, <4>1 DEF c
      <4>3. c # new
        BY <1>4, <2>3, <4>1
      <4>4. c # inner
        BY <1>1, <1>8, <4>1, <1>3 DEF inner, c
      <4>5. v.parent[c] = x
        BY <1>2, <1>3, <4>1, <4>2, <4>3, <4>4
      <4>6. hi2[c] = hi[c] /\ lo2[c] = lo[c]
        BY <1>6, <4>1, <4>2, <4>3
      <4>7. v.right[x] = c /\ c # Null
        BY <3>1, <3>3 DEF c
      <4> QED BY <3>1, <4>1, <4>5, <4>6, <4>7 DEF RightShape
    <3> QED BY <3>2, <3>3
  <2> QED BY <2>1, <2>2, <2>3
<1>14. ASSUME NEW x \in M PROVE LeftShape(v, M, at, lo2, hi2, x)
  <2>1. CASE x = new
    <3>1. v.left[x] = n /\ v.parent[n] = x /\ n # Null
      BY <1>1, <1>2, <1>3, <2>1
    <3>2. /\ lo2[x] = lo[n] /\ lo2[n] = lo[n] /\ hi2[n] = at[x] - 1
      BY <1>1, <1>6, <2>1
    <3> QED BY <3>1, <3>2 DEF LeftShape
  <2>2. CASE x # new /\ x = p /\ t.left[x] = n
    <3>1. v.left[x] = new /\ v.parent[new] = x
      BY <1>1, <1>2, <1>3, <2>2
    <3>2. LeftShape(t, M, at, lo, hi, x) /\ n # Null
      BY <1>3, ShapeNode
    <3>3. lo[n] = lo[x] /\ hi[n] = at[x] - 1
      BY <2>2, <3>2 DEF LeftShape
    <3>4. hi2[new] = hi[new] /\ lo2[new] = lo[n] /\ lo2[x] = lo[x]
      BY <1>1, <1>6, <2>2
    <3> QED BY <1>1, <1>4, <3>1, <3>3, <3>4 DEF LeftShape
  <2>3. CASE x # new /\ ~ (x = p /\ t.left[x] = n)
    <3>1. v.left[x] = t.left[x] /\ lo2[x] = lo[x]
      BY <1>2, <1>3, <1>6, <2>3
    <3>2. CASE t.left[x] = Null
      <4>1. lo[x] = at[x]
        BY <3>2, ShapeNode DEF LeftShape
      <4> QED BY <3>1, <3>2, <4>1 DEF LeftShape
    <3>3. CASE t.left[x] # Null
      <4> DEFINE c == t.left[x]
      <4>1. c \in M /\ t.parent[c] = x /\ lo[c] = lo[x] /\ hi[c] = at[x] - 1
            /\ c # t.right[x]
        BY <3>3, LeftChild
      <4> HIDE DEF c
      <4>2. c # n
        BY <2>3, <4>1 DEF c
      <4>3. c # new
        BY <1>4, <4>1 DEF c
      <4>4. c # inner
        BY <1>1, <1>8, <2>3, <4>1, <1>3
      <4>5. v.parent[c] = x
        BY <1>2, <1>3, <4>1, <4>2, <4>3, <4>4
      <4>6. hi2[c] = hi[c] /\ lo2[c] = lo[c]
        BY <1>6, <4>1, <4>2, <4>3
      <4>7. v.left[x] = c /\ c # Null
        BY <3>1, <3>3 DEF c
      <4> QED BY <3>1, <4>1, <4>5, <4>6, <4>7 DEF LeftShape
    <3> QED BY <3>2, <3>3
  <2> QED BY <2>1, <2>2, <2>3
<1>15. t.root # new /\ t.root \in M
  <2>1. t.root # new
    BY RightChild
  <2>2. RootShape(t, M, lo, hi) /\ n \in M
    BY DEF Shape
  <2> QED BY <2>1, <2>2 DEF RootShape
<1>16. ASSUME NEW x \in M PROVE UpShape(v, M, x)
  <2>0. UpShape(t, M, x) /\ UpShape(t, M, n) /\ x \in Node /\ n \in Node /\ new \in Node /\ n # Null
    BY <1>1, <1>3, ShapeNode
  <2>1. CASE x = n
    BY <1>1, <1>2, <1>3, <1>15, <2>0, <2>1 DEF UpShape
  <2>2. CASE x = new
    <3>1. v.parent[x] = p
      BY <1>1, <1>2, <2>0, <2>2
    <3>2. CASE p = Null
      BY <1>1, <2>2, <3>1, <3>2 DEF UpShape
    <3>3. CASE p # Null
      <4>1. p \in M /\ (t.right[p] = n \/ t.left[p] = n) /\ p \in Node
        BY <1>1, <1>3, <2>0, <3>3 DEF UpShape
      <4>2. v.right[p] = new \/ v.left[p] = new
        BY <1>1, <1>2, <4>1
      <4> QED BY <1>1, <1>15, <2>2, <3>1, <3>3, <4>1, <4>2 DEF UpShape
    <3> QED BY <3>2, <3>3
  <2>3. CASE x = inner
    <3>1. v.parent[x] = n /\ v.right[n] = x
      BY <1>1, <1>2, <2>0, <2>3
    <3>2. x # t.root
      BY <1>1, <1>8, <1>3, <2>0, <2>3 DEF UpShape
    <3> QED BY <1>1, <2>0, <2>3, <3>1, <3>2 DEF UpShape
  <2>4. CASE x \notin {n, new, inner}
    <3>1. v.parent[x] = t.parent[x]
      BY <1>2, <2>0, <2>4
    <3>2. CASE t.parent[x] = Null
      <4>1. x = t.root
        BY <2>0, <3>2 DEF UpShape
      <4>2. p # Null
        BY <2>0, <2>4, <4>1 DEF UpShape
      <4> QED BY <1>1, <3>1, <3>2, <4>1, <4>2 DEF UpShape
    <3>3. CASE t.parent[x] # Null
      <4> DEFINE q == t.parent[x]
      <4>1. q \in M /\ x # t.root /\ (x = t.right[q] \/ x = t.left[q]) /\ q \in Node
        BY <1>3, <2>0, <3>3 DEF UpShape
      <4> HIDE DEF q
      <4>2. x # v.root
        BY <1>1, <2>4, <4>1
      <4>3. CASE x = t.right[q]
        <5>1. q # n
          BY <2>4, <4>3
        <5>2. v.right[q] = x
          BY <1>2, <2>4, <4>1, <4>3, <5>1
        <5> QED BY <3>1, <3>3, <4>1, <4>2, <5>2 DEF UpShape, q
      <4>4. CASE x = t.left[q]
        <5>1. q # new
          BY <2>4, <4>4 DEF inner
        <5>2. v.left[q] = x
          BY <1>2, <2>4, <4>1, <4>4, <5>1
        <5> QED BY <3>1, <3>3, <4>1, <4>2, <5>2 DEF UpShape, q
      <4> QED BY <4>1, <4>3, <4>4
    <3> QED BY <3>2, <3>3
  <2> QED BY <2>1, <2>2, <2>3, <2>4
<1>17. RootShape(v, M, lo2, hi2)
  <2>1. RootShape(t, M, lo, hi) /\ UpShape(t, M, n) /\ n # Null
    BY <1>3, ShapeNode DEF Shape
  <2>2. CASE p = Null
    <3>1. n = t.root /\ v.root = new
      BY <1>1, <2>1, <2>2 DEF UpShape
    <3> QED BY <1>1, <1>3, <1>4, <1>6, <2>1, <3>1 DEF RootShape
  <2>3. CASE p # Null
    <3>1. n # t.root /\ v.root = t.root
      BY <1>1, <2>1, <2>3 DEF UpShape
    <3> QED BY <1>6, <1>15, <2>1, <3>1 DEF RootShape
  <2> QED BY <2>2, <2>3
<1>18. \A x \in M : NodeShape(v, M, at, lo2, hi2, x)
  BY <1>12, <1>13, <1>14, <1>16 DEF NodeShape
<1>19. \A m, x \in M : at[m] = at[x] => m = x
  BY DEF Shape
<1> QED BY <1>1, <1>3, <1>5, <1>17, <1>18, <1>19 DEF Shape

-----------------------------------------------------------------------------
(* The loop of fix. *)

\* One of two heights is at most one more than the other.
Within(a, b) == a <= b + 1 /\ b <= a + 1

\* The node has the height and the count of its subtree and is balanced.
Exact(t, lo, hi, n) ==
  /\ t.height[n] = Larger(h(t, t.left[n]), h(t, t.right[n])) + 1
  /\ Within(h(t, t.left[n]), h(t, t.right[n]))
  /\ t.height[n] >= 1 /\ t.count[n] = hi[n] - lo[n] + 1

\* The heights while that of c is still taken to be a.
OldHeight(t, c, a, x) == IF x = c THEN a ELSE h(t, x)

\* The height of n is right for these.
Outdated(t, c, a, n) ==
  /\ t.height[n] = Larger(OldHeight(t, c, a, t.left[n]), OldHeight(t, c, a, t.right[n])) + 1
  /\ Within(OldHeight(t, c, a, t.left[n]), OldHeight(t, c, a, t.right[n]))

\* The heights of two subtrees after one of them has changed by one: their
\* parent had the height a before.
Loosened(l, r, a) ==
  \/ Within(l, r) /\ Within(a, Larger(l, r) + 1)
  \/ l = r + 2 /\ a \in {l, l + 1}
  \/ r = l + 2 /\ a \in {r, r + 1}

\* fix is at c, which had the height a.
ToFix(t, M, at, lo, hi, c, a) ==
  /\ Shape(t, M, at, lo, hi) /\ c \in M /\ a \in Int
  /\ Loosened(h(t, t.left[c]), h(t, t.right[c]), a)
  /\ \A n \in M : ~ Above(at, lo, hi, n, c) => Exact(t, lo, hi, n)
  /\ \A n \in M : Above(at, lo, hi, n, c) /\ n # c => Outdated(t, c, a, n)

\* fix has just been at c, which had the height a.
Fixed(t, M, at, lo, hi, c, a) ==
  /\ Shape(t, M, at, lo, hi) /\ c \in M /\ a \in Int
  /\ Within(t.height[c], a)
  /\ \A n \in M : ~ Above(at, lo, hi, n, c) \/ n = c => Exact(t, lo, hi, n)
  /\ \A n \in M : Above(at, lo, hi, n, c) /\ n # c => Outdated(t, c, a, n)

\* Heights of children are numbers.
LEMMA MemberHeights ==
  ASSUME NEW t, NEW M, NEW at, NEW lo, NEW hi, Shape(t, M, at, lo, hi), NEW n \in M
  PROVE  /\ t.height[n] \in Int /\ t.count[n] \in Int
         /\ h(t, t.left[n]) \in Int /\ h(t, t.right[n]) \in Int
         /\ cnt(t, t.left[n]) \in Int /\ cnt(t, t.right[n]) \in Int
         /\ h(t, n) = t.height[n] /\ cnt(t, n) = t.count[n]
<1>1. t \in Tree /\ n \in Node /\ n # Null
  BY ShapeNode DEF Shape
<1>2. t.left[n] \in NullOr /\ t.right[n] \in NullOr
  BY <1>1, TreeFields
<1> QED BY <1>1, <1>2, TreeFields, ChildInt DEF h, cnt

\* When c is the root, nothing is left to do.
LEMMA FixedTop ==
  ASSUME NEW t, NEW M, NEW at, NEW lo, NEW hi, NEW c, NEW a,
         Fixed(t, M, at, lo, hi, c, a), t.parent[c] = Null
  PROVE  \A n \in M : Exact(t, lo, hi, n)
<1>1. \A n \in M : ~ (Above(at, lo, hi, n, c) /\ n # c)
  BY AboveParent DEF Fixed
<1> QED BY <1>1 DEF Fixed

\* Otherwise its parent is next.
LEMMA FixedUp ==
  ASSUME NEW t, NEW M, NEW at, NEW lo, NEW hi, NEW c, NEW a,
         Fixed(t, M, at, lo, hi, c, a), NEW p, p = t.parent[c], p # Null
  PROVE  ToFix(t, M, at, lo, hi, p, t.height[p])
<1>1. Shape(t, M, at, lo, hi) /\ c \in M /\ a \in Int /\ Within(t.height[c], a)
  BY DEF Fixed
<1>2. /\ p \in M /\ p # c
      /\ \/ c = t.left[p] /\ lo[c] = lo[p] /\ hi[c] = at[p] - 1 /\ c # t.right[p]
         \/ c = t.right[p] /\ hi[c] = hi[p] /\ lo[c] = at[p] + 1 /\ c # t.left[p]
  <2>1. /\ p \in M /\ p # c
        /\ \/ c = t.left[p] /\ lo[c] = lo[p] /\ hi[c] = at[p] - 1
           \/ c = t.right[p] /\ hi[c] = hi[p] /\ lo[c] = at[p] + 1
    BY <1>1, ParentOf
  <2>2. c # Null
    BY <1>1, ShapeNode
  <2>3. \A q \in M : t.left[q] # Null => t.left[q] # t.right[q]
    BY <1>1, LeftChild
  <2> QED BY <2>1, <2>2, <2>3
<1>3. /\ at[c] \in Int /\ lo[c] \in Int /\ hi[c] \in Int
      /\ at[p] \in Int /\ lo[p] \in Int /\ hi[p] \in Int
      /\ lo[c] <= at[c] /\ at[c] <= hi[c] /\ lo[p] <= at[p] /\ at[p] <= hi[p] /\ c # Null
  BY <1>1, <1>2, ShapeNode
<1>4. Above(at, lo, hi, p, c) /\ ~ Above(at, lo, hi, c, p)
  BY <1>2, <1>3 DEF Above
<1>5. Outdated(t, c, a, p)
  BY <1>2, <1>4 DEF Fixed
<1>6. /\ t.height[p] \in Int /\ t.height[c] \in Int /\ h(t, c) = t.height[c] /\ h(t, p) = t.height[p]
      /\ h(t, t.left[p]) \in Int /\ h(t, t.right[p]) \in Int
  BY <1>1, <1>2, MemberHeights
<1>7. Loosened(h(t, t.left[p]), h(t, t.right[p]), t.height[p])
  <2>1. CASE c = t.left[p] /\ c # t.right[p]
    <3>1. t.height[p] = Larger(a, h(t, t.right[p])) + 1 /\ Within(a, h(t, t.right[p]))
      BY <1>5, <2>1 DEF Outdated, OldHeight
    <3>2. h(t, t.left[p]) = t.height[c]
      BY <1>6, <2>1
    <3> QED BY <1>1, <1>6, <3>1, <3>2 DEF Loosened, Within, Larger
  <2>2. CASE c = t.right[p] /\ c # t.left[p]
    <3>1. t.height[p] = Larger(h(t, t.left[p]), a) + 1 /\ Within(h(t, t.left[p]), a)
      BY <1>5, <2>2 DEF Outdated, OldHeight
    <3>2. h(t, t.right[p]) = t.height[c]
      BY <1>6, <2>2
    <3> QED BY <1>1, <1>6, <3>1, <3>2 DEF Loosened, Within, Larger
  <2> QED BY <1>2, <2>1, <2>2
<1>8. ASSUME NEW n \in M, ~ Above(at, lo, hi, n, p) PROVE Exact(t, lo, hi, n)
  <2>1. ~ Above(at, lo, hi, n, c) \/ n = c
    BY <1>1, <1>8, AboveParent
  <2> QED BY <2>1 DEF Fixed
<1>9. ASSUME NEW n \in M, Above(at, lo, hi, n, p), n # p PROVE Outdated(t, p, t.height[p], n)
  <2>1. lo[n] <= lo[p] /\ hi[p] <= hi[n]
    BY <1>1, <1>2, <1>9, AboveParent
  <2>2. Above(at, lo, hi, n, c)
    <3>1. lo[n] \in Int /\ hi[n] \in Int
      BY <1>1, ShapeNode
    <3> QED BY <1>2, <1>3, <2>1, <3>1 DEF Above
  <2>3. n # c
    BY <1>4, <1>9
  <2>4. Outdated(t, c, a, n)
    BY <2>2, <2>3 DEF Fixed
  <2>5. t.left[n] # c /\ t.right[n] # c
    BY <1>1, <1>3, <1>9, LeftChild, RightChild
  <2>6. \A x : OldHeight(t, p, t.height[p], x) = h(t, x)
    BY <1>6 DEF OldHeight
  <2> QED BY <2>4, <2>5, <2>6 DEF Outdated, OldHeight
<1> QED BY <1>1, <1>2, <1>6, <1>7, <1>8, <1>9 DEF ToFix

\* The nodes S below c are given other links, heights and counts, after which
\* c2 has the place of c, and the rest of the tree is as it was.
LEMMA Rearranged ==
  ASSUME NEW t, NEW M, NEW at, NEW lo, NEW hi, NEW c, NEW a, ToFix(t, M, at, lo, hi, c, a),
         NEW v, NEW lo2, NEW hi2, Shape(v, M, at, lo2, hi2),
         NEW S \in SUBSET M, c \in S, NEW c2 \in S, NEW p, p = t.parent[c], v.parent[c2] = p,
         lo2[c2] = lo[c], hi2[c2] = hi[c],
         \A x \in S : /\ lo[c] <= lo[x] /\ hi[x] <= hi[c] /\ lo[c] <= lo2[x] /\ hi2[x] <= hi[c]
                      /\ x # c => t.parent[x] \in S
                      /\ Exact(v, lo2, hi2, x),
         \A x \in M \ S : /\ lo2[x] = lo[x] /\ hi2[x] = hi[x]
                          /\ v.height[x] = t.height[x] /\ v.count[x] = t.count[x]
                          /\ x # p => v.left[x] = t.left[x] /\ v.right[x] = t.right[x]
                          /\ x = p => /\ v.left[x] = IF t.left[x] = c THEN c2 ELSE t.left[x]
                                      /\ v.right[x] = IF t.right[x] = c THEN c2 ELSE t.right[x],
         Within(v.height[c2], a)
  PROVE  Fixed(v, M, at, lo2, hi2, c2, a)
<1>1. Shape(t, M, at, lo, hi) /\ c \in M /\ a \in Int
  BY DEF ToFix
<1>2. c2 \in M /\ Null \notin M
  BY <1>1, ShapeNode
<1>3. /\ at[c] \in Int /\ lo[c] \in Int /\ hi[c] \in Int /\ at[c2] \in Int
      /\ lo[c] <= at[c] /\ at[c] <= hi[c] /\ lo[c] <= at[c2] /\ at[c2] <= hi[c]
  <2>1. lo2[c2] <= at[c2] /\ at[c2] <= hi2[c2] /\ at[c2] \in Int
    BY <1>2, ShapeNode
  <2> QED BY <1>1, <2>1, ShapeNode
<1>4. p # Null => /\ p \in M /\ ~ (lo[c] <= at[p] /\ at[p] <= hi[c]) /\ at[p] \in Int
                  /\ lo[p] <= lo[c] /\ hi[c] <= hi[p] /\ lo[p] \in Int /\ hi[p] \in Int
  <2> SUFFICES ASSUME p # Null
               PROVE /\ p \in M /\ ~ (lo[c] <= at[p] /\ at[p] <= hi[c]) /\ at[p] \in Int
                     /\ lo[p] <= lo[c] /\ hi[c] <= hi[p] /\ lo[p] \in Int /\ hi[p] \in Int
    OBVIOUS
  <2>1. /\ p \in M /\ p # c
        /\ \/ c = t.left[p] /\ lo[c] = lo[p] /\ hi[c] = at[p] - 1
           \/ c = t.right[p] /\ hi[c] = hi[p] /\ lo[c] = at[p] + 1
    BY <1>1, ParentOf
  <2>2. at[p] \in Int /\ lo[p] \in Int /\ hi[p] \in Int /\ lo[p] <= at[p] /\ at[p] <= hi[p]
    BY <1>1, <2>1, ShapeNode
  <2> QED BY <1>3, <2>1, <2>2
<1>6. ASSUME NEW n \in M, Above(at, lo2, hi2, n, c2), n # c2
      PROVE  n \notin S /\ Above(at, lo, hi, n, c) /\ n # c
  <2>1. p # Null /\ Above(at, lo2, hi2, n, p)
    BY <1>2, <1>6, AboveParent
  <2>2. lo[n] \in Int /\ hi[n] \in Int /\ lo2[n] \in Int /\ hi2[n] \in Int
    BY <1>1, ShapeNode
  <2>3. n \notin S
    BY <1>3, <1>4, <2>1, <2>2 DEF Above
  <2>4. Above(at, lo, hi, n, p)
    BY <2>1, <2>3 DEF Above
  <2>5. lo[n] <= lo[p] /\ hi[p] <= hi[n]
    BY <1>1, <1>4, <2>1, <2>2, <2>4, AboveParent
  <2>6. Above(at, lo, hi, n, c)
    BY <1>3, <1>4, <2>1, <2>2, <2>5 DEF Above
  <2> QED BY <2>3, <2>6
<1>7. ASSUME NEW n \in M \ S, NEW y, y \in {t.left[n], t.right[n]}, y # Null
      PROVE  y \in M /\ (y \in S => y = c /\ n = p)
  BY <1>1, <1>7, LeftChild, RightChild
<1>8. ASSUME NEW y, y = Null \/ y \in M \ S PROVE h(v, y) = h(t, y)
  BY <1>2, <1>8 DEF h
<1>9. ASSUME NEW n \in M, ~ Above(at, lo2, hi2, n, c2) \/ n = c2 PROVE Exact(v, lo2, hi2, n)
  <2>1. CASE n \in S
    BY <2>1
  <2>2. CASE n \notin S
    <3>1. ~ Above(at, lo, hi, n, c)
      <4> SUFFICES ASSUME Above(at, lo, hi, n, c) PROVE FALSE
        OBVIOUS
      <4>1. lo[n] <= lo[c] /\ hi[c] <= hi[n] /\ lo[n] \in Int /\ hi[n] \in Int
        BY <1>1, <2>2, AboveParent, ShapeNode
      <4>2. lo2[n] = lo[n] /\ hi2[n] = hi[n]
        BY <2>2
      <4> QED BY <1>3, <1>9, <2>2, <4>1, <4>2 DEF Above
    <3>2. Exact(t, lo, hi, n)
      BY <3>1 DEF ToFix
    <3>3. n # p
      BY <1>3, <1>4, <3>1, <1>2 DEF Above
    <3>4. h(v, t.left[n]) = h(t, t.left[n]) /\ h(v, t.right[n]) = h(t, t.right[n])
      BY <1>7, <1>8, <2>2, <3>3
    <3> QED BY <2>2, <3>2, <3>3, <3>4 DEF Exact
  <2> QED BY <2>1, <2>2
<1>10. ASSUME NEW n \in M, Above(at, lo2, hi2, n, c2), n # c2 PROVE Outdated(v, c2, a, n)
  <2>1. n \notin S /\ Outdated(t, c, a, n)
    BY <1>6, <1>10 DEF ToFix
  <2>2. CASE n # p
    <3>1. v.left[n] = t.left[n] /\ v.right[n] = t.right[n]
      BY <2>1, <2>2
    <3>2. ASSUME NEW y \in {t.left[n], t.right[n]}
          PROVE  OldHeight(v, c2, a, y) = OldHeight(t, c, a, y)
      <4>1. y = Null \/ y \in M \ S
        BY <1>7, <2>1, <2>2
      <4>2. y # c2 /\ y # c
        BY <1>2, <4>1
      <4> QED BY <1>8, <4>1, <4>2 DEF OldHeight
    <3> QED BY <2>1, <3>1, <3>2 DEF Outdated
  <2>3. CASE n = p
    <3>1. ASSUME NEW y \in {t.left[n], t.right[n]}
          PROVE  OldHeight(v, c2, a, IF y = c THEN c2 ELSE y) = OldHeight(t, c, a, y)
      <4>1. CASE y = c
        BY <4>1 DEF OldHeight
      <4>2. CASE y # c
        <5>1. y = Null \/ y \in M \ S
          BY <1>7, <2>1, <4>2
        <5>2. y # c2
          BY <1>2, <5>1
        <5> QED BY <1>8, <4>2, <5>1, <5>2 DEF OldHeight
      <4> QED BY <4>1, <4>2
    <3>2. /\ v.left[n] = (IF t.left[n] = c THEN c2 ELSE t.left[n])
          /\ v.right[n] = (IF t.right[n] = c THEN c2 ELSE t.right[n])
          /\ v.height[n] = t.height[n]
      BY <2>1, <2>3
    <3>3. /\ OldHeight(v, c2, a, v.left[n]) = OldHeight(t, c, a, t.left[n])
          /\ OldHeight(v, c2, a, v.right[n]) = OldHeight(t, c, a, t.right[n])
      BY <3>1, <3>2
    <3> QED BY <2>1, <3>2, <3>3 DEF Outdated
  <2> QED BY <2>2, <2>3
<1> QED BY <1>1, <1>2, <1>9, <1>10 DEF Fixed

\* The nodes outside the tree have the fields they had before.
Rest(t, u, M) ==
  \A x \in Node \ M :
    /\ u.parent[x] = t.parent[x] /\ u.left[x] = t.left[x] /\ u.right[x] = t.right[x]
    /\ u.height[x] = t.height[x] /\ u.count[x] = t.count[x]

\* What the exact left child of a node says of it.
LEMMA LeftExact ==
  ASSUME NEW t, NEW M, NEW at, NEW lo, NEW hi, Shape(t, M, at, lo, hi), NEW n \in M,
         t.left[n] # Null => Exact(t, lo, hi, t.left[n])
  PROVE  /\ at[n] - cnt(t, t.left[n]) = lo[n]
         /\ h(t, t.left[n]) >= 0
         /\ t.left[n] # Null => h(t, t.left[n]) = t.height[t.left[n]] /\ h(t, t.left[n]) >= 1
         /\ t.left[n] = Null => h(t, t.left[n]) = 0
<1>1. at[n] \in Int /\ lo[n] \in Int
  BY ShapeNode
<1>2. CASE t.left[n] = Null
  <2>1. lo[n] = at[n]
    BY <1>2, ShapeNode DEF LeftShape
  <2> QED BY <1>1, <1>2, <2>1 DEF h, cnt
<1>3. CASE t.left[n] # Null
  <2> DEFINE c == t.left[n]
  <2>1. c \in M /\ lo[c] = lo[n] /\ hi[c] = at[n] - 1
    BY <1>3, LeftChild
  <2>2. t.height[c] >= 1 /\ t.count[c] = hi[c] - lo[c] + 1 /\ t.height[c] \in Int
    BY <1>3, <2>1, MemberHeights DEF Exact
  <2>3. h(t, c) = t.height[c] /\ cnt(t, c) = t.count[c]
    BY <2>1, MemberHeights
  <2> HIDE DEF c
  <2>4. at[n] - cnt(t, c) = lo[n]
    BY <1>1, <2>1, <2>2, <2>3
  <2>5. h(t, c) >= 0 /\ h(t, c) >= 1
    BY <2>2, <2>3
  <2> QED BY <1>3, <2>3, <2>4, <2>5 DEF c
<1> QED BY <1>2, <1>3

\* What the exact right child of a node says of it.
LEMMA RightExact ==
  ASSUME NEW t, NEW M, NEW at, NEW lo, NEW hi, Shape(t, M, at, lo, hi), NEW n \in M,
         t.right[n] # Null => Exact(t, lo, hi, t.right[n])
  PROVE  /\ at[n] + cnt(t, t.right[n]) = hi[n]
         /\ h(t, t.right[n]) >= 0
         /\ t.right[n] # Null => h(t, t.right[n]) = t.height[t.right[n]] /\ h(t, t.right[n]) >= 1
         /\ t.right[n] = Null => h(t, t.right[n]) = 0
<1>1. at[n] \in Int /\ hi[n] \in Int
  BY ShapeNode
<1>2. CASE t.right[n] = Null
  <2>1. hi[n] = at[n]
    BY <1>2, ShapeNode DEF RightShape
  <2> QED BY <1>1, <1>2, <2>1 DEF h, cnt
<1>3. CASE t.right[n] # Null
  <2> DEFINE c == t.right[n]
  <2>1. c \in M /\ hi[c] = hi[n] /\ lo[c] = at[n] + 1
    BY <1>3, RightChild
  <2>2. t.height[c] >= 1 /\ t.count[c] = hi[c] - lo[c] + 1 /\ t.height[c] \in Int
    BY <1>3, <2>1, MemberHeights DEF Exact
  <2>3. h(t, c) = t.height[c] /\ cnt(t, c) = t.count[c]
    BY <2>1, MemberHeights
  <2> HIDE DEF c
  <2>4. at[n] + cnt(t, c) = hi[n]
    BY <1>1, <2>1, <2>2, <2>3
  <2>5. h(t, c) >= 0 /\ h(t, c) >= 1
    BY <2>2, <2>3
  <2> QED BY <1>3, <2>3, <2>4, <2>5 DEF c
<1> QED BY <1>2, <1>3

\* Links alone make the shape.
LEMMA ShapeOfLinks ==
  ASSUME NEW t, NEW M, NEW at, NEW lo, NEW hi, Shape(t, M, at, lo, hi),
         NEW u \in Tree, SameLinks(t, u)
  PROVE  Shape(u, M, at, lo, hi)
<1>1. /\ RootShape(t, M, lo, hi) <=> RootShape(u, M, lo, hi)
      /\ \A n \in M : NodeShape(t, M, at, lo, hi, n) <=> NodeShape(u, M, at, lo, hi, n)
  BY DEF SameLinks, RootShape, NodeShape, LeftShape, RightShape, UpShape
<1> QED BY <1>1 DEF Shape

\* Nodes below c but not c itself are not above it.
LEMMA BelowExact ==
  ASSUME NEW t, NEW M, NEW at, NEW lo, NEW hi, NEW c, NEW a, ToFix(t, M, at, lo, hi, c, a),
         NEW x \in M, lo[x] > at[c] \/ hi[x] < at[c]
  PROVE  Exact(t, lo, hi, x)
<1>1. lo[x] \in Int /\ hi[x] \in Int /\ at[c] \in Int
  BY ShapeNode DEF ToFix
<1>2. ~ Above(at, lo, hi, x, c)
  BY <1>1 DEF Above
<1> QED BY <1>2 DEF ToFix

\* The node itself after update.
LEMMA UpdatedNode ==
  ASSUME NEW t, NEW M, NEW at, NEW lo, NEW hi, NEW c, NEW a, ToFix(t, M, at, lo, hi, c, a),
         NEW u, u = update(t, c)
  PROVE  /\ Shape(u, M, at, lo, hi) /\ SameLinks(t, u)
         /\ \A x \in Node \ {c} : u.height[x] = t.height[x] /\ u.count[x] = t.count[x]
         /\ u.height[c] = Larger(h(t, t.left[c]), h(t, t.right[c])) + 1
         /\ u.count[c] = hi[c] - lo[c] + 1
         /\ h(t, t.left[c]) >= 0 /\ h(t, t.right[c]) >= 0
         /\ h(t, t.left[c]) \in Int /\ h(t, t.right[c]) \in Int
         /\ \A x \in M \ {c} : h(u, x) = h(t, x) /\ cnt(u, x) = cnt(t, x)
         /\ h(u, Null) = h(t, Null) /\ cnt(u, Null) = cnt(t, Null)
<1>1. Shape(t, M, at, lo, hi) /\ c \in M
  BY DEF ToFix
<1>2. t \in Tree /\ c \in Node /\ Null \notin M /\ M \subseteq Node /\ at[c] \in Int /\ lo[c] \in Int /\ hi[c] \in Int
  BY <1>1, ShapeNode DEF Shape
<1>3. /\ u \in Tree /\ SameLinks(t, u)
      /\ u.height[c] = Larger(h(t, t.left[c]), h(t, t.right[c])) + 1
      /\ u.count[c] = 1 + cnt(t, t.left[c]) + cnt(t, t.right[c])
      /\ \A x \in Node \ {c} : u.height[x] = t.height[x] /\ u.count[x] = t.count[x]
  BY <1>2, UpdateFromLeft
<1>4. Shape(u, M, at, lo, hi)
  BY <1>1, <1>3, ShapeOfLinks
<1>5. t.left[c] # Null => Exact(t, lo, hi, t.left[c])
  <2> SUFFICES ASSUME t.left[c] # Null PROVE Exact(t, lo, hi, t.left[c])
    OBVIOUS
  <2>1. t.left[c] \in M /\ hi[t.left[c]] = at[c] - 1
    BY <1>1, LeftChild
  <2>2. hi[t.left[c]] < at[c]
    BY <1>2, <2>1
  <2> QED BY <2>1, <2>2, BelowExact
<1>6. t.right[c] # Null => Exact(t, lo, hi, t.right[c])
  <2> SUFFICES ASSUME t.right[c] # Null PROVE Exact(t, lo, hi, t.right[c])
    OBVIOUS
  <2>1. t.right[c] \in M /\ lo[t.right[c]] = at[c] + 1
    BY <1>1, RightChild
  <2>2. lo[t.right[c]] > at[c]
    BY <1>2, <2>1
  <2> QED BY <2>1, <2>2, BelowExact
<1>7. /\ at[c] - cnt(t, t.left[c]) = lo[c] /\ at[c] + cnt(t, t.right[c]) = hi[c]
      /\ h(t, t.left[c]) >= 0 /\ h(t, t.right[c]) >= 0
  BY <1>1, <1>5, <1>6, LeftExact, RightExact
<1>8. /\ h(t, t.left[c]) \in Int /\ h(t, t.right[c]) \in Int
      /\ cnt(t, t.left[c]) \in Int /\ cnt(t, t.right[c]) \in Int
  BY <1>1, MemberHeights
<1>9. u.count[c] = hi[c] - lo[c] + 1
  BY <1>2, <1>3, <1>7, <1>8
<1>10. /\ \A x \in M \ {c} : h(u, x) = h(t, x) /\ cnt(u, x) = cnt(t, x)
       /\ h(u, Null) = h(t, Null) /\ cnt(u, Null) = cnt(t, Null)
  BY <1>2, <1>3 DEF h, cnt
<1> QED BY <1>3, <1>4, <1>7, <1>8, <1>9, <1>10

\* A round of fix without a rotation.
LEMMA RoundPlain ==
  ASSUME NEW t, NEW M, NEW at, NEW lo, NEW hi, NEW c, NEW a, ToFix(t, M, at, lo, hi, c, a),
         NEW u, u = update(t, c), Within(h(t, t.left[c]), h(t, t.right[c]))
  PROVE  Fixed(u, M, at, lo, hi, c, a) /\ Rest(t, u, M)
<1>1. /\ Shape(u, M, at, lo, hi) /\ SameLinks(t, u)
      /\ \A x \in Node \ {c} : u.height[x] = t.height[x] /\ u.count[x] = t.count[x]
      /\ u.height[c] = Larger(h(t, t.left[c]), h(t, t.right[c])) + 1
      /\ u.count[c] = hi[c] - lo[c] + 1
      /\ h(t, t.left[c]) >= 0 /\ h(t, t.right[c]) >= 0
      /\ h(t, t.left[c]) \in Int /\ h(t, t.right[c]) \in Int
      /\ \A x \in M \ {c} : h(u, x) = h(t, x)
      /\ h(u, Null) = h(t, Null)
  BY UpdatedNode
<1>2. /\ Shape(t, M, at, lo, hi) /\ c \in M /\ a \in Int
      /\ Loosened(h(t, t.left[c]), h(t, t.right[c]), a)
  BY DEF ToFix
<1>3. t.left[c] \in (M \ {c}) \cup {Null} /\ t.right[c] \in (M \ {c}) \cup {Null}
  BY <1>2, ShapeNode, LeftChild, RightChild
<1>4. h(u, u.left[c]) = h(t, t.left[c]) /\ h(u, u.right[c]) = h(t, t.right[c])
  BY <1>1, <1>3 DEF SameLinks
<1>5. Exact(u, lo, hi, c)
  BY <1>1, <1>4 DEF Exact, Larger
<1>6. Within(u.height[c], a)
  BY <1>1, <1>2 DEF Within, Larger, Loosened
<1> DEFINE S == {c}
<1>7. S \in SUBSET M /\ c \in S /\ u.parent[c] = t.parent[c]
  BY <1>1, <1>2 DEF SameLinks
<1>8. \A x \in S : /\ lo[c] <= lo[x] /\ hi[x] <= hi[c] /\ lo[c] <= lo[x] /\ hi[x] <= hi[c]
                   /\ x # c => t.parent[x] \in S
                   /\ Exact(u, lo, hi, x)
  BY <1>2, <1>5, ShapeNode
<1>9. \A x \in M \ S : /\ lo[x] = lo[x] /\ hi[x] = hi[x]
                       /\ u.height[x] = t.height[x] /\ u.count[x] = t.count[x]
                       /\ x # t.parent[c] => u.left[x] = t.left[x] /\ u.right[x] = t.right[x]
                       /\ x = t.parent[c] => /\ u.left[x] = IF t.left[x] = c THEN c ELSE t.left[x]
                                             /\ u.right[x] = IF t.right[x] = c THEN c ELSE t.right[x]
  BY <1>1, <1>2, ShapeNode DEF SameLinks
<1> HIDE DEF S
<1>10. Rest(t, u, M)
  BY <1>1, <1>2 DEF Rest, SameLinks
<1> QED BY <1>1, <1>6, <1>7, <1>8, <1>9, <1>10, Rearranged

\* The order of the arguments does not matter.
LEMMA LargerOfTwo ==
  \A i, j \in Int : Larger(i, j) = Larger(j, i) /\ (Within(i, j) <=> Within(j, i))
BY DEF Larger, Within

\* The heights before and after one rotation: b and d are those of the outer
\* and the inner subtree of the higher child, e that of the other child.
LEMMA SingleHeights ==
  ASSUME NEW b \in Int, NEW d \in Int, NEW e \in Int,
         Larger(b, d) + 1 = e + 2, b >= d, Within(b, d)
  PROVE  /\ Larger(d, e) + 1 = d + 1 /\ Larger(b, d + 1) + 1 = d + 2
         /\ Within(d, e) /\ Within(b, d + 1)
         /\ e + 2 \in {d + 1, d + 2} /\ b = e + 1
<1>1. b = e + 1 /\ (d = e \/ d = e + 1)
  BY DEF Larger, Within
<1> QED BY <1>1 DEF Larger, Within

\* A round of fix with one rotation to the right.
LEMMA RoundRight ==
  ASSUME NEW t, NEW M, NEW at, NEW lo, NEW hi, NEW c, NEW a, ToFix(t, M, at, lo, hi, c, a),
         NEW u, u = update(t, c), h(t, t.left[c]) = h(t, t.right[c]) + 2,
         NEW l, l = t.left[c], h(t, t.left[l]) >= h(t, t.right[l]),
         NEW p, p = t.parent[c], NEW v, v = Relink(rot_right(u, c).tree, p, c, l)
  PROVE  /\ rot_right(u, c).node = l /\ v.parent[l] = p /\ Rest(t, v, M)
         /\ \E lo2, hi2 : Fixed(v, M, at, lo2, hi2, l, a) /\ lo2[l] = lo[c] /\ hi2[l] = hi[c]
<1>0. PICK lo2, hi2 : lo2 = [lo EXCEPT ![c] = at[l] + 1] /\ hi2 = [hi EXCEPT ![l] = hi[c]]
  OBVIOUS
<1>1. /\ Shape(t, M, at, lo, hi) /\ c \in M /\ a \in Int
      /\ Loosened(h(t, t.left[c]), h(t, t.right[c]), a)
  BY DEF ToFix
<1>2. /\ Shape(u, M, at, lo, hi) /\ SameLinks(t, u)
      /\ \A x \in Node \ {c} : u.height[x] = t.height[x] /\ u.count[x] = t.count[x]
      /\ h(t, t.left[c]) >= 0 /\ h(t, t.right[c]) >= 0
      /\ h(t, t.left[c]) \in Int /\ h(t, t.right[c]) \in Int
      /\ \A x \in M \ {c} : h(u, x) = h(t, x) /\ cnt(u, x) = cnt(t, x)
      /\ h(u, Null) = h(t, Null) /\ cnt(u, Null) = cnt(t, Null)
  BY UpdatedNode
<1>3. l # Null
  <2>1. h(t, l) >= 2
    BY <1>2
  <2> QED BY <2>1 DEF h
<1>4. l \in M /\ l # c /\ t.parent[l] = c /\ lo[l] = lo[c] /\ hi[l] = at[c] - 1
  BY <1>1, <1>3, LeftChild
<1>5. /\ at[c] \in Int /\ lo[c] \in Int /\ hi[c] \in Int /\ at[l] \in Int /\ lo[l] \in Int /\ hi[l] \in Int
      /\ lo[c] <= at[c] /\ at[c] <= hi[c] /\ lo[l] <= at[l] /\ at[l] <= hi[l]
      /\ c \in Node /\ l \in Node /\ Null \notin M /\ M \subseteq Node
      /\ lo \in Places /\ hi \in Places
  BY <1>1, <1>4, ShapeNode DEF Shape
<1>6. Exact(t, lo, hi, l)
  <2>1. hi[l] < at[c]
    BY <1>4, <1>5
  <2> QED BY <1>4, <2>1, BelowExact
<1> DEFINE b == t.left[l]
           d == t.right[l]
           e == t.right[c]
<1>7. /\ b \in (M \ {c, l}) \cup {Null} /\ d \in (M \ {c, l}) \cup {Null}
      /\ b # Null => Exact(t, lo, hi, b)
      /\ d # Null => Exact(t, lo, hi, d)
  <2>1. b # Null => b \in M /\ t.parent[b] = l /\ b # l /\ lo[b] = lo[l] /\ hi[b] = at[l] - 1
    BY <1>1, <1>4, LeftChild
  <2>2. d # Null => d \in M /\ t.parent[d] = l /\ d # l /\ hi[d] = hi[l] /\ lo[d] = at[l] + 1
    BY <1>1, <1>4, RightChild
  <2> HIDE DEF b, d
  <2>3. b # Null => hi[b] < at[c] /\ b # c
    BY <1>4, <1>5, <2>1
  <2>4. d # Null => hi[d] < at[c] /\ d # c
    BY <1>4, <1>5, <2>2
  <2>5. b # Null => Exact(t, lo, hi, b)
    BY <2>1, <2>3, BelowExact
  <2>6. d # Null => Exact(t, lo, hi, d)
    BY <2>2, <2>4, BelowExact
  <2> QED BY <2>1, <2>2, <2>3, <2>4, <2>5, <2>6
<1>8. e \in (M \ {c, l}) \cup {Null} /\ (e # Null => Exact(t, lo, hi, e))
  <2>1. e # Null => e \in M /\ e # c /\ e # l /\ lo[e] = at[c] + 1
    BY <1>1, RightChild
  <2> HIDE DEF e
  <2>2. e # Null => lo[e] > at[c]
    BY <1>5, <2>1
  <2>3. e # Null => Exact(t, lo, hi, e)
    BY <2>1, <2>2, BelowExact
  <2> QED BY <2>1, <2>3, <1>1, ShapeNode DEF e
<1>9. /\ at[l] - cnt(t, b) = lo[l] /\ at[l] + cnt(t, d) = hi[l] /\ at[c] + cnt(t, e) = hi[c]
      /\ h(t, b) >= 0 /\ h(t, d) >= 0 /\ h(t, e) >= 0
  BY <1>1, <1>4, <1>7, <1>8, LeftExact, RightExact
<1>10. /\ h(t, b) \in Int /\ h(t, d) \in Int /\ h(t, e) \in Int
       /\ cnt(t, b) \in Int /\ cnt(t, d) \in Int /\ cnt(t, e) \in Int
       /\ h(t, l) = t.height[l] /\ t.height[l] \in Int
  BY <1>1, <1>4, MemberHeights
<1>11. t.height[l] = Larger(h(t, t.left[l]), h(t, t.right[l])) + 1 /\ Within(h(t, t.left[l]), h(t, t.right[l]))
  BY <1>6 DEF Exact
<1>12. /\ h(u, b) = h(t, b) /\ h(u, d) = h(t, d) /\ h(u, e) = h(t, e)
       /\ cnt(u, b) = cnt(t, b) /\ cnt(u, d) = cnt(t, d) /\ cnt(u, e) = cnt(t, e)
  BY <1>2, <1>7, <1>8
<1>13. u.left[c] = l /\ u.parent[c] = p /\ u.left[l] = b /\ u.right[l] = d /\ u.right[c] = e
  BY <1>2 DEF SameLinks
<1>14. Shape(v, M, at, lo2, hi2)
  BY <1>0, <1>1, <1>2, <1>3, <1>13, RotRightShape
<1>15. /\ rot_right(u, c).node = l /\ p \in M \cup {Null} /\ c # p /\ l # p
       /\ \A x \in Node :
            /\ v.left[x] = IF x = c THEN d
                           ELSE IF x = p /\ u.left[x] = c THEN l ELSE u.left[x]
            /\ v.right[x] = IF x = l THEN c
                            ELSE IF x = p /\ u.right[x] = c THEN l ELSE u.right[x]
            /\ v.parent[x] = IF x = c THEN l ELSE IF x = l THEN p
                             ELSE IF x = d THEN c ELSE u.parent[x]
            /\ x \notin {c, l} => v.height[x] = u.height[x] /\ v.count[x] = u.count[x]
       /\ v.height[c] = Larger(h(u, d), h(u, e)) + 1
       /\ v.count[c] = 1 + cnt(u, d) + cnt(u, e)
       /\ v.height[l] = Larger(h(u, b), v.height[c]) + 1
       /\ v.count[l] = 1 + cnt(u, b) + v.count[c]
  BY ONLY <1>1, <1>2, <1>3, <1>13, v = Relink(rot_right(u, c).tree, p, c, l), RotRightLinks
<1> HIDE DEF b, d, e
<1>16. h(t, l) = h(t, e) + 2 /\ h(t, b) >= h(t, d)
  BY DEF b, d, e
<1>17. /\ t.height[l] = Larger(h(t, b), h(t, d)) + 1 /\ Within(h(t, b), h(t, d))
  BY <1>10, <1>11 DEF b, d, Larger, Within
<1>18. /\ v.height[c] = h(t, d) + 1 /\ v.height[l] = h(t, d) + 2
       /\ Within(h(t, d), h(t, e)) /\ Within(h(t, b), v.height[c])
       /\ h(t, l) \in {h(t, d) + 1, h(t, d) + 2} /\ h(t, b) = h(t, e) + 1
  <2>1. v.height[c] = Larger(h(t, d), h(t, e)) + 1 /\ v.height[l] = Larger(h(t, b), v.height[c]) + 1
    BY <1>12, <1>15
  <2>2. /\ h(t, b) \in Int /\ h(t, d) \in Int /\ h(t, e) \in Int
        /\ Larger(h(t, b), h(t, d)) + 1 = h(t, e) + 2 /\ h(t, b) >= h(t, d)
        /\ Within(h(t, b), h(t, d))
    BY <1>10, <1>16, <1>17
  <2>3. /\ Larger(h(t, d), h(t, e)) + 1 = h(t, d) + 1
        /\ Larger(h(t, b), h(t, d) + 1) + 1 = h(t, d) + 2
        /\ Within(h(t, d), h(t, e)) /\ Within(h(t, b), h(t, d) + 1)
        /\ h(t, e) + 2 \in {h(t, d) + 1, h(t, d) + 2} /\ h(t, b) = h(t, e) + 1
    BY ONLY <2>2, SingleHeights
  <2> QED BY ONLY <1>16, <2>1, <2>3
<1>19. /\ v.left[c] = d /\ v.right[c] = e /\ v.left[l] = b /\ v.right[l] = c /\ v.parent[l] = p
  BY <1>4, <1>5, <1>13, <1>15
<1>20. h(v, b) = h(t, b) /\ h(v, d) = h(t, d) /\ h(v, e) = h(t, e) /\ h(v, c) = v.height[c]
  <2>1. ASSUME NEW x \in M \ {c, l} PROVE h(v, x) = h(t, x)
    <3>1. v.height[x] = u.height[x] /\ u.height[x] = t.height[x]
      BY ONLY <1>2, <1>5, <1>15
    <3> QED BY ONLY <3>1 DEF h
  <2>2. h(v, Null) = h(t, Null) /\ h(v, c) = v.height[c]
    BY <1>1, <1>5 DEF h
  <2> QED BY ONLY <1>7, <1>8, <2>1, <2>2
<1>21. /\ lo2[c] = at[l] + 1 /\ hi2[c] = hi[c] /\ lo2[l] = lo[l] /\ hi2[l] = hi[c]
       /\ \A x \in M \ {c, l} : lo2[x] = lo[x] /\ hi2[x] = hi[x]
  BY <1>0, <1>4, <1>5 DEF Places
<1>22. Exact(v, lo2, hi2, c)
  <2>1. v.count[c] = hi2[c] - lo2[c] + 1
    <3>1. v.count[c] = 1 + cnt(t, d) + cnt(t, e)
      BY <1>12, <1>15
    <3> QED BY ONLY <1>4, <1>5, <1>9, <1>10, <1>21, <3>1
  <2>2. v.height[c] >= 1
    BY <1>9, <1>10, <1>18
  <2>3. v.height[c] = Larger(h(v, v.left[c]), h(v, v.right[c])) + 1
    BY ONLY <1>12, <1>15, <1>19, <1>20
  <2>4. Within(h(v, v.left[c]), h(v, v.right[c]))
    BY <1>18, <1>19, <1>20 DEF Within
  <2> QED BY <2>1, <2>2, <2>3, <2>4 DEF Exact
<1>23. Exact(v, lo2, hi2, l)
  <2>1. v.count[l] = hi2[l] - lo2[l] + 1
    <3>1. v.count[l] = 1 + cnt(t, b) + (1 + cnt(t, d) + cnt(t, e))
      BY <1>12, <1>15
    <3> QED BY ONLY <1>4, <1>5, <1>9, <1>10, <1>21, <3>1
  <2>2. v.height[l] >= 1
    BY <1>9, <1>10, <1>18
  <2>3. v.height[l] = Larger(h(v, v.left[l]), h(v, v.right[l])) + 1
    BY ONLY <1>12, <1>15, <1>19, <1>20 DEF Larger
  <2>4. Within(h(v, v.left[l]), h(v, v.right[l]))
    BY <1>18, <1>19, <1>20 DEF Within
  <2> QED BY <2>1, <2>2, <2>3, <2>4 DEF Exact
<1>24. Within(v.height[l], a)
  BY <1>1, <1>10, <1>16, <1>18 DEF Loosened, Within, Larger, e
<1> DEFINE S == {c, l}
<1>25. S \in SUBSET M /\ c \in S /\ l \in S
  BY <1>1, <1>4
<1>26. \A x \in S : /\ lo[c] <= lo[x] /\ hi[x] <= hi[c] /\ lo[c] <= lo2[x] /\ hi2[x] <= hi[c]
                    /\ x # c => t.parent[x] \in S
                    /\ Exact(v, lo2, hi2, x)
  BY <1>4, <1>5, <1>21, <1>22, <1>23
<1>27. \A x \in M \ S : /\ lo2[x] = lo[x] /\ hi2[x] = hi[x]
                        /\ v.height[x] = t.height[x] /\ v.count[x] = t.count[x]
                        /\ x # p => v.left[x] = t.left[x] /\ v.right[x] = t.right[x]
                        /\ x = p => /\ v.left[x] = IF t.left[x] = c THEN l ELSE t.left[x]
                                    /\ v.right[x] = IF t.right[x] = c THEN l ELSE t.right[x]
  BY ONLY <1>2, <1>5, <1>15, <1>21 DEF SameLinks
<1> HIDE DEF S
<1>28. lo2[l] = lo[c] /\ hi2[l] = hi[c]
  BY <1>4, <1>21
<1>29. Fixed(v, M, at, lo2, hi2, l, a)
  <2>1. v.parent[l] = p
    BY <1>19
  <2> QED BY ONLY ToFix(t, M, at, lo, hi, c, a), p = t.parent[c], <1>14, <1>24, <1>25, <1>26,
                  <1>27, <1>28, <2>1, Rearranged
<1>30. ASSUME NEW x \in Node \ M
       PROVE  /\ v.parent[x] = t.parent[x] /\ v.left[x] = t.left[x] /\ v.right[x] = t.right[x]
              /\ v.height[x] = t.height[x] /\ v.count[x] = t.count[x]
  <2>1. x \in Node /\ x # c /\ x # l /\ x # d /\ x # p
    BY ONLY <1>1, <1>4, <1>7, <1>15, <1>30, NodeAssumption
  <2>2. /\ u.parent[x] = t.parent[x] /\ u.left[x] = t.left[x] /\ u.right[x] = t.right[x]
        /\ u.height[x] = t.height[x] /\ u.count[x] = t.count[x]
    BY ONLY <1>2, <2>1 DEF SameLinks
  <2> QED BY ONLY <1>15, <2>1, <2>2
<1>31. Rest(t, v, M)
  BY ONLY <1>30 DEF Rest
<1>32. \E l2, h2 : Fixed(v, M, at, l2, h2, l, a) /\ lo[c] = l2[l] /\ hi[c] = h2[l]
  BY ONLY <1>28, <1>29
<1> QED BY ONLY <1>15, <1>19, <1>31, <1>32

\* A round of fix with one rotation to the left.
LEMMA RoundLeft ==
  ASSUME NEW t, NEW M, NEW at, NEW lo, NEW hi, NEW c, NEW a, ToFix(t, M, at, lo, hi, c, a),
         NEW u, u = update(t, c), h(t, t.right[c]) = h(t, t.left[c]) + 2,
         NEW l, l = t.right[c], h(t, t.right[l]) >= h(t, t.left[l]),
         NEW p, p = t.parent[c], NEW v, v = Relink(rot_left(u, c).tree, p, c, l)
  PROVE  /\ rot_left(u, c).node = l /\ v.parent[l] = p /\ Rest(t, v, M)
         /\ \E lo2, hi2 : Fixed(v, M, at, lo2, hi2, l, a) /\ hi2[l] = hi[c] /\ lo2[l] = lo[c]
<1>0. PICK lo2, hi2 : hi2 = [hi EXCEPT ![c] = at[l] - 1] /\ lo2 = [lo EXCEPT ![l] = lo[c]]
  OBVIOUS
<1>1. /\ Shape(t, M, at, lo, hi) /\ c \in M /\ a \in Int
      /\ Loosened(h(t, t.left[c]), h(t, t.right[c]), a)
  BY DEF ToFix
<1>2. /\ Shape(u, M, at, lo, hi) /\ SameLinks(t, u)
      /\ \A x \in Node \ {c} : u.height[x] = t.height[x] /\ u.count[x] = t.count[x]
      /\ h(t, t.right[c]) >= 0 /\ h(t, t.left[c]) >= 0
      /\ h(t, t.right[c]) \in Int /\ h(t, t.left[c]) \in Int
      /\ \A x \in M \ {c} : h(u, x) = h(t, x) /\ cnt(u, x) = cnt(t, x)
      /\ h(u, Null) = h(t, Null) /\ cnt(u, Null) = cnt(t, Null)
  BY UpdatedNode
<1>3. l # Null
  <2>1. h(t, l) >= 2
    BY <1>2
  <2> QED BY <2>1 DEF h
<1>4. l \in M /\ l # c /\ t.parent[l] = c /\ hi[l] = hi[c] /\ lo[l] = at[c] + 1
  BY <1>1, <1>3, RightChild
<1>5. /\ at[c] \in Int /\ hi[c] \in Int /\ lo[c] \in Int /\ at[l] \in Int /\ hi[l] \in Int /\ lo[l] \in Int
      /\ hi[c] >= at[c] /\ at[c] >= lo[c] /\ hi[l] >= at[l] /\ at[l] >= lo[l]
      /\ c \in Node /\ l \in Node /\ Null \notin M /\ M \subseteq Node
      /\ hi \in Places /\ lo \in Places
  BY <1>1, <1>4, ShapeNode DEF Shape
<1>6. Exact(t, lo, hi, l)
  <2>1. lo[l] > at[c]
    BY <1>4, <1>5
  <2> QED BY <1>4, <2>1, BelowExact
<1> DEFINE b == t.right[l]
           d == t.left[l]
           e == t.left[c]
<1>7. /\ b \in (M \ {c, l}) \cup {Null} /\ d \in (M \ {c, l}) \cup {Null}
      /\ b # Null => Exact(t, lo, hi, b)
      /\ d # Null => Exact(t, lo, hi, d)
  <2>1. b # Null => b \in M /\ t.parent[b] = l /\ b # l /\ hi[b] = hi[l] /\ lo[b] = at[l] + 1
    BY <1>1, <1>4, RightChild
  <2>2. d # Null => d \in M /\ t.parent[d] = l /\ d # l /\ lo[d] = lo[l] /\ hi[d] = at[l] - 1
    BY <1>1, <1>4, LeftChild
  <2> HIDE DEF b, d
  <2>3. b # Null => lo[b] > at[c] /\ b # c
    BY <1>4, <1>5, <2>1
  <2>4. d # Null => lo[d] > at[c] /\ d # c
    BY <1>4, <1>5, <2>2
  <2>5. b # Null => Exact(t, lo, hi, b)
    BY <2>1, <2>3, BelowExact
  <2>6. d # Null => Exact(t, lo, hi, d)
    BY <2>2, <2>4, BelowExact
  <2> QED BY <2>1, <2>2, <2>3, <2>4, <2>5, <2>6
<1>8. e \in (M \ {c, l}) \cup {Null} /\ (e # Null => Exact(t, lo, hi, e))
  <2>1. e # Null => e \in M /\ e # c /\ e # l /\ hi[e] = at[c] - 1
    BY <1>1, LeftChild
  <2> HIDE DEF e
  <2>2. e # Null => hi[e] < at[c]
    BY <1>5, <2>1
  <2>3. e # Null => Exact(t, lo, hi, e)
    BY <2>1, <2>2, BelowExact
  <2> QED BY <2>1, <2>3, <1>1, ShapeNode DEF e
<1>9. /\ at[l] + cnt(t, b) = hi[l] /\ at[l] - cnt(t, d) = lo[l] /\ at[c] - cnt(t, e) = lo[c]
      /\ h(t, b) >= 0 /\ h(t, d) >= 0 /\ h(t, e) >= 0
  BY <1>1, <1>4, <1>7, <1>8, RightExact, LeftExact
<1>10. /\ h(t, b) \in Int /\ h(t, d) \in Int /\ h(t, e) \in Int
       /\ cnt(t, b) \in Int /\ cnt(t, d) \in Int /\ cnt(t, e) \in Int
       /\ h(t, l) = t.height[l] /\ t.height[l] \in Int
  BY <1>1, <1>4, MemberHeights
<1>11. t.height[l] = Larger(h(t, t.left[l]), h(t, t.right[l])) + 1 /\ Within(h(t, t.left[l]), h(t, t.right[l]))
  BY <1>6 DEF Exact
<1>12. /\ h(u, b) = h(t, b) /\ h(u, d) = h(t, d) /\ h(u, e) = h(t, e)
       /\ cnt(u, b) = cnt(t, b) /\ cnt(u, d) = cnt(t, d) /\ cnt(u, e) = cnt(t, e)
  BY <1>2, <1>7, <1>8
<1>13. u.right[c] = l /\ u.parent[c] = p /\ u.right[l] = b /\ u.left[l] = d /\ u.left[c] = e
  BY <1>2 DEF SameLinks
<1>14. Shape(v, M, at, lo2, hi2)
  BY <1>0, <1>1, <1>2, <1>3, <1>13, RotLeftShape
<1>15. /\ rot_left(u, c).node = l /\ p \in M \cup {Null} /\ c # p /\ l # p
       /\ \A x \in Node :
            /\ v.right[x] = IF x = c THEN d
                           ELSE IF x = p /\ u.right[x] = c THEN l ELSE u.right[x]
            /\ v.left[x] = IF x = l THEN c
                            ELSE IF x = p /\ u.left[x] = c THEN l ELSE u.left[x]
            /\ v.parent[x] = IF x = c THEN l ELSE IF x = l THEN p
                             ELSE IF x = d THEN c ELSE u.parent[x]
            /\ x \notin {c, l} => v.height[x] = u.height[x] /\ v.count[x] = u.count[x]
       /\ v.height[c] = Larger(h(u, d), h(u, e)) + 1
       /\ v.count[c] = 1 + cnt(u, d) + cnt(u, e)
       /\ v.height[l] = Larger(h(u, b), v.height[c]) + 1
       /\ v.count[l] = 1 + cnt(u, b) + v.count[c]
  BY ONLY <1>1, <1>2, <1>3, <1>13, v = Relink(rot_left(u, c).tree, p, c, l), RotLeftLinks
<1> HIDE DEF b, d, e
<1>16. h(t, l) = h(t, e) + 2 /\ h(t, b) >= h(t, d)
  BY DEF b, d, e
<1>17. /\ t.height[l] = Larger(h(t, b), h(t, d)) + 1 /\ Within(h(t, b), h(t, d))
  BY <1>10, <1>11 DEF b, d, Larger, Within
<1>18. /\ v.height[c] = h(t, d) + 1 /\ v.height[l] = h(t, d) + 2
       /\ Within(h(t, d), h(t, e)) /\ Within(h(t, b), v.height[c])
       /\ h(t, l) \in {h(t, d) + 1, h(t, d) + 2} /\ h(t, b) = h(t, e) + 1
  <2>1. v.height[c] = Larger(h(t, d), h(t, e)) + 1 /\ v.height[l] = Larger(h(t, b), v.height[c]) + 1
    BY <1>12, <1>15
  <2>2. /\ h(t, b) \in Int /\ h(t, d) \in Int /\ h(t, e) \in Int
        /\ Larger(h(t, b), h(t, d)) + 1 = h(t, e) + 2 /\ h(t, b) >= h(t, d)
        /\ Within(h(t, b), h(t, d))
    BY <1>10, <1>16, <1>17
  <2>3. /\ Larger(h(t, d), h(t, e)) + 1 = h(t, d) + 1
        /\ Larger(h(t, b), h(t, d) + 1) + 1 = h(t, d) + 2
        /\ Within(h(t, d), h(t, e)) /\ Within(h(t, b), h(t, d) + 1)
        /\ h(t, e) + 2 \in {h(t, d) + 1, h(t, d) + 2} /\ h(t, b) = h(t, e) + 1
    BY ONLY <2>2, SingleHeights
  <2> QED BY ONLY <1>16, <2>1, <2>3
<1>19. /\ v.right[c] = d /\ v.left[c] = e /\ v.right[l] = b /\ v.left[l] = c /\ v.parent[l] = p
  BY <1>4, <1>5, <1>13, <1>15
<1>20. h(v, b) = h(t, b) /\ h(v, d) = h(t, d) /\ h(v, e) = h(t, e) /\ h(v, c) = v.height[c]
  <2>1. ASSUME NEW x \in M \ {c, l} PROVE h(v, x) = h(t, x)
    <3>1. v.height[x] = u.height[x] /\ u.height[x] = t.height[x]
      BY ONLY <1>2, <1>5, <1>15
    <3> QED BY ONLY <3>1 DEF h
  <2>2. h(v, Null) = h(t, Null) /\ h(v, c) = v.height[c]
    BY <1>1, <1>5 DEF h
  <2> QED BY ONLY <1>7, <1>8, <2>1, <2>2
<1>21. /\ hi2[c] = at[l] - 1 /\ lo2[c] = lo[c] /\ hi2[l] = hi[l] /\ lo2[l] = lo[c]
       /\ \A x \in M \ {c, l} : hi2[x] = hi[x] /\ lo2[x] = lo[x]
  BY <1>0, <1>4, <1>5 DEF Places
<1>22. Exact(v, lo2, hi2, c)
  <2>1. v.count[c] = hi2[c] - lo2[c] + 1
    <3>1. v.count[c] = 1 + cnt(t, d) + cnt(t, e)
      BY <1>12, <1>15
    <3> QED BY ONLY <1>4, <1>5, <1>9, <1>10, <1>21, <3>1
  <2>2. v.height[c] >= 1
    BY <1>9, <1>10, <1>18
  <2>3. v.height[c] = Larger(h(v, v.left[c]), h(v, v.right[c])) + 1
    <3>1. v.height[c] = Larger(h(t, d), h(t, e)) + 1
      BY ONLY <1>12, <1>15
    <3>2. Larger(h(t, d), h(t, e)) = Larger(h(t, e), h(t, d))
      BY ONLY <1>10, LargerOfTwo
    <3> QED BY ONLY <1>19, <1>20, <3>1, <3>2
  <2>4. Within(h(v, v.left[c]), h(v, v.right[c]))
    BY <1>18, <1>19, <1>20 DEF Within
  <2> QED BY <2>1, <2>2, <2>3, <2>4 DEF Exact
<1>23. Exact(v, lo2, hi2, l)
  <2>1. v.count[l] = hi2[l] - lo2[l] + 1
    <3>1. v.count[l] = 1 + cnt(t, b) + (1 + cnt(t, d) + cnt(t, e))
      BY <1>12, <1>15
    <3> QED BY ONLY <1>4, <1>5, <1>9, <1>10, <1>21, <3>1
  <2>2. v.height[l] >= 1
    BY <1>9, <1>10, <1>18
  <2>3. v.height[l] = Larger(h(v, v.left[l]), h(v, v.right[l])) + 1
    <3>1. v.height[l] = Larger(h(t, b), v.height[c]) + 1
      BY ONLY <1>12, <1>15
    <3>2. Larger(h(t, b), v.height[c]) = Larger(v.height[c], h(t, b))
      BY ONLY <1>10, <1>18, LargerOfTwo
    <3> QED BY ONLY <1>19, <1>20, <3>1, <3>2
  <2>4. Within(h(v, v.left[l]), h(v, v.right[l]))
    BY <1>18, <1>19, <1>20 DEF Within
  <2> QED BY <2>1, <2>2, <2>3, <2>4 DEF Exact
<1>24. Within(v.height[l], a)
  BY <1>1, <1>10, <1>16, <1>18 DEF Loosened, Within, Larger, e
<1> DEFINE S == {c, l}
<1>25. S \in SUBSET M /\ c \in S /\ l \in S
  BY <1>1, <1>4
<1>26. \A x \in S : /\ lo[c] <= lo[x] /\ hi[x] <= hi[c] /\ lo[c] <= lo2[x] /\ hi2[x] <= hi[c]
                    /\ x # c => t.parent[x] \in S
                    /\ Exact(v, lo2, hi2, x)
  BY <1>4, <1>5, <1>21, <1>22, <1>23
<1>27. \A x \in M \ S : /\ hi2[x] = hi[x] /\ lo2[x] = lo[x]
                        /\ v.height[x] = t.height[x] /\ v.count[x] = t.count[x]
                        /\ x # p => v.left[x] = t.left[x] /\ v.right[x] = t.right[x]
                        /\ x = p => /\ v.left[x] = IF t.left[x] = c THEN l ELSE t.left[x]
                                    /\ v.right[x] = IF t.right[x] = c THEN l ELSE t.right[x]
  BY ONLY <1>2, <1>5, <1>15, <1>21 DEF SameLinks
<1> HIDE DEF S
<1>28. hi2[l] = hi[c] /\ lo2[l] = lo[c]
  BY <1>4, <1>21
<1>29. Fixed(v, M, at, lo2, hi2, l, a)
  <2>1. v.parent[l] = p
    BY <1>19
  <2> QED BY ONLY ToFix(t, M, at, lo, hi, c, a), p = t.parent[c], <1>14, <1>24, <1>25, <1>26,
                  <1>27, <1>28, <2>1, Rearranged
<1>30. ASSUME NEW x \in Node \ M
       PROVE  /\ v.parent[x] = t.parent[x] /\ v.right[x] = t.right[x] /\ v.left[x] = t.left[x]
              /\ v.height[x] = t.height[x] /\ v.count[x] = t.count[x]
  <2>1. x \in Node /\ x # c /\ x # l /\ x # d /\ x # p
    BY ONLY <1>1, <1>4, <1>7, <1>15, <1>30, NodeAssumption
  <2>2. /\ u.parent[x] = t.parent[x] /\ u.right[x] = t.right[x] /\ u.left[x] = t.left[x]
        /\ u.height[x] = t.height[x] /\ u.count[x] = t.count[x]
    BY ONLY <1>2, <2>1 DEF SameLinks
  <2> QED BY ONLY <1>15, <2>1, <2>2
<1>31. Rest(t, v, M)
  BY ONLY <1>30 DEF Rest
<1>32. \E l2, h2 : Fixed(v, M, at, l2, h2, l, a) /\ lo[c] = l2[l] /\ hi[c] = h2[l]
  BY ONLY <1>28, <1>29
<1> QED BY ONLY <1>15, <1>19, <1>31, <1>32

\* The heights before and after two rotations: b is that of the outer subtree
\* of the higher child, d and e are those of the subtrees of its inner child,
\* f is that of the other child.
LEMMA DoubleHeights ==
  ASSUME NEW b \in Int, NEW d \in Int, NEW e \in Int, NEW f \in Int, NEW k \in Int,
         k = Larger(d, e) + 1, Larger(b, k) + 1 = f + 2, b < k, Within(b, k), Within(d, e)
  PROVE  /\ Larger(b, d) + 1 = f + 1 /\ Larger(e, f) + 1 = f + 1 /\ b = f
         /\ Within(b, d) /\ Within(e, f)
<1>1. b = f /\ k = f + 1
  BY DEF Larger, Within
<1>2. d \in {f, f - 1} /\ e \in {f, f - 1}
  BY <1>1 DEF Larger, Within
<1> QED BY <1>1, <1>2 DEF Larger, Within

\* v is t after a round of fix at c that turns twice: the left child l of c to
\* the left, which gives w, and then c to the right.
TurnsLeftRight(t, c, u, l, m, w, p, v) ==
  /\ u = update(t, c) /\ h(t, t.left[c]) = h(t, t.right[c]) + 2
  /\ l = t.left[c] /\ m = t.right[l] /\ h(t, t.left[l]) < h(t, t.right[l])
  /\ w = Relink(rot_left(u, l).tree, c, l, m)
  /\ p = t.parent[c] /\ v = Relink(rot_right(w, c).tree, p, c, m)

\* A round of fix with a rotation of the left child to the left and then one
\* to the right.
LEMMA RoundDoubleRight ==
  ASSUME NEW t, NEW M, NEW at, NEW lo, NEW hi, NEW c, NEW a, ToFix(t, M, at, lo, hi, c, a),
         NEW u, NEW l, NEW m, NEW w, NEW p, NEW v, TurnsLeftRight(t, c, u, l, m, w, p, v)
  PROVE  /\ rot_right(w, c).node = m /\ v.parent[m] = p /\ Rest(t, v, M)
         /\ \E lo2, hi2 : Fixed(v, M, at, lo2, hi2, m, a) /\ lo2[m] = lo[c] /\ hi2[m] = hi[c]
<1>l. l = t.left[c] /\ m = t.right[l] /\ p = t.parent[c] /\ u = update(t, c)
  BY DEF TurnsLeftRight
<1>h. h(t, t.left[c]) = h(t, t.right[c]) + 2 /\ h(t, t.left[l]) < h(t, t.right[l])
  BY DEF TurnsLeftRight
<1>w. w = Relink(rot_left(u, l).tree, c, l, m)
  BY DEF TurnsLeftRight
<1>v. v = Relink(rot_right(w, c).tree, p, c, m)
  BY DEF TurnsLeftRight
<1>a. PICK lo1, hi1 : lo1 = [lo EXCEPT ![m] = lo[l]] /\ hi1 = [hi EXCEPT ![l] = at[m] - 1]
  OBVIOUS
<1>b. PICK lo2, hi2 : lo2 = [lo1 EXCEPT ![c] = at[m] + 1] /\ hi2 = [hi1 EXCEPT ![m] = hi1[c]]
  OBVIOUS
<1>1. /\ Shape(t, M, at, lo, hi) /\ c \in M /\ a \in Int
      /\ Loosened(h(t, t.left[c]), h(t, t.right[c]), a)
  BY DEF ToFix
<1>2. /\ Shape(u, M, at, lo, hi) /\ SameLinks(t, u)
      /\ \A x \in Node \ {c} : u.height[x] = t.height[x] /\ u.count[x] = t.count[x]
      /\ h(t, t.left[c]) >= 0 /\ h(t, t.right[c]) >= 0
      /\ h(t, t.left[c]) \in Int /\ h(t, t.right[c]) \in Int
      /\ \A x \in M \ {c} : h(u, x) = h(t, x) /\ cnt(u, x) = cnt(t, x)
      /\ h(u, Null) = h(t, Null) /\ cnt(u, Null) = cnt(t, Null)
  BY ONLY <1>l, ToFix(t, M, at, lo, hi, c, a), UpdatedNode
<1>c. \A q \in M :
        /\ t.left[q] # Null =>
             /\ t.left[q] \in M /\ t.parent[t.left[q]] = q /\ t.left[q] # q
             /\ lo[t.left[q]] = lo[q] /\ hi[t.left[q]] = at[q] - 1 /\ t.left[q] # t.right[q]
        /\ t.right[q] # Null =>
             /\ t.right[q] \in M /\ t.parent[t.right[q]] = q /\ t.right[q] # q
             /\ hi[t.right[q]] = hi[q] /\ lo[t.right[q]] = at[q] + 1
  <2>1. \A q \in M : t.left[q] # Null =>
          /\ t.left[q] \in M /\ t.parent[t.left[q]] = q /\ t.left[q] # q
          /\ lo[t.left[q]] = lo[q] /\ hi[t.left[q]] = at[q] - 1 /\ t.left[q] # t.right[q]
    BY ONLY <1>1, LeftChild
  <2>2. \A q \in M : t.right[q] # Null =>
          /\ t.right[q] \in M /\ t.parent[t.right[q]] = q /\ t.right[q] # q
          /\ hi[t.right[q]] = hi[q] /\ lo[t.right[q]] = at[q] + 1 /\ t.right[q] # t.left[q]
    BY ONLY <1>1, RightChild
  <2> QED BY ONLY <2>1, <2>2
<1>e. \A x \in M : lo[x] > at[c] \/ hi[x] < at[c] => Exact(t, lo, hi, x)
  BY ONLY ToFix(t, M, at, lo, hi, c, a), BelowExact
<1>3. l # Null
  <2>1. h(t, l) >= 2
    BY ONLY <1>2, <1>h, <1>l
  <2> QED BY ONLY <2>1 DEF h
<1>4. l \in M /\ l # c /\ t.parent[l] = c /\ lo[l] = lo[c] /\ hi[l] = at[c] - 1
  BY ONLY <1>1, <1>3, <1>c, <1>l
<1>5. /\ at[c] \in Int /\ lo[c] \in Int /\ hi[c] \in Int /\ at[l] \in Int /\ lo[l] \in Int /\ hi[l] \in Int
      /\ lo[c] <= at[c] /\ at[c] <= hi[c] /\ lo[l] <= at[l] /\ at[l] <= hi[l]
      /\ c \in Node /\ l \in Node /\ Null \notin M /\ M \subseteq Node
      /\ lo \in Places /\ hi \in Places
  <2>1. lo \in Places /\ hi \in Places /\ M \subseteq Node
    BY ONLY <1>1 DEF Shape
  <2> QED BY ONLY <1>1, <1>4, <2>1, ShapeNode
<1>6. Exact(t, lo, hi, l)
  BY ONLY <1>4, <1>5, <1>e
<1> DEFINE b == t.left[l]
           d == t.left[m]
           e == t.right[m]
           f == t.right[c]
<1>7. /\ b \in (M \ {c, l}) \cup {Null} /\ (b # Null => Exact(t, lo, hi, b))
      /\ (b # Null => b # m)
  <2>1. b # Null => /\ b \in M /\ t.parent[b] = l /\ b # l /\ lo[b] = lo[l] /\ hi[b] = at[l] - 1
                    /\ b # m
    BY ONLY <1>4, <1>c, <1>l
  <2> HIDE DEF b
  <2>2. b # Null => hi[b] < at[c] /\ b # c
    BY ONLY <1>4, <1>5, <2>1
  <2>3. b # Null => Exact(t, lo, hi, b)
    BY ONLY <2>1, <2>2, <1>e
  <2> QED BY ONLY <2>1, <2>2, <2>3
<1>8. m # Null
  <2>1. b # Null => Exact(t, lo, hi, b)
    BY ONLY <1>7
  <2>2. h(t, t.left[l]) >= 0
    BY ONLY <1>1, <1>4, <2>1, LeftExact
  <2>3. h(t, t.left[l]) \in Int /\ h(t, t.right[l]) \in Int
    BY ONLY <1>1, <1>4, MemberHeights
  <2>4. h(t, m) > 0
    BY ONLY <1>h, <1>l, <2>2, <2>3
  <2> QED BY ONLY <2>4 DEF h
<1>9. m \in M /\ t.parent[m] = l /\ m # l /\ hi[m] = hi[l] /\ lo[m] = at[l] + 1
  BY ONLY <1>4, <1>8, <1>c, <1>l
<1>10. /\ at[m] \in Int /\ lo[m] \in Int /\ hi[m] \in Int /\ lo[m] <= at[m] /\ at[m] <= hi[m]
       /\ m \in Node /\ hi[m] < at[c] /\ m # c
  <2>1. /\ at[m] \in Int /\ lo[m] \in Int /\ hi[m] \in Int /\ lo[m] <= at[m] /\ at[m] <= hi[m]
        /\ m \in Node
    BY ONLY <1>1, <1>9, ShapeNode
  <2> QED BY ONLY <1>4, <1>5, <1>9, <2>1
<1>11. Exact(t, lo, hi, m)
  BY ONLY <1>9, <1>10, <1>e
<1>12. /\ d \in (M \ {c, l, m}) \cup {Null} /\ e \in (M \ {c, l, m}) \cup {Null}
       /\ d # Null => Exact(t, lo, hi, d)
       /\ e # Null => Exact(t, lo, hi, e)
  <2>1. d # Null => d \in M /\ t.parent[d] = m /\ d # m /\ lo[d] = lo[m] /\ hi[d] = at[m] - 1
    BY ONLY <1>9, <1>c
  <2>2. e # Null => e \in M /\ t.parent[e] = m /\ e # m /\ hi[e] = hi[m] /\ lo[e] = at[m] + 1
    BY ONLY <1>9, <1>c
  <2> HIDE DEF d, e
  <2>3. d # Null => hi[d] < at[c] /\ d # c /\ d # l
    BY ONLY <1>4, <1>5, <1>9, <1>10, <2>1
  <2>4. e # Null => hi[e] < at[c] /\ e # c /\ e # l
    BY ONLY <1>4, <1>5, <1>9, <1>10, <2>2
  <2>5. d # Null => Exact(t, lo, hi, d)
    BY ONLY <2>1, <2>3, <1>e
  <2>6. e # Null => Exact(t, lo, hi, e)
    BY ONLY <2>2, <2>4, <1>e
  <2> QED BY ONLY <2>1, <2>2, <2>3, <2>4, <2>5, <2>6
<1>13. f \in (M \ {c, l, m}) \cup {Null} /\ (f # Null => Exact(t, lo, hi, f))
  <2>1. f # Null => f \in M /\ t.parent[f] = c /\ f # c /\ f # l /\ lo[f] = at[c] + 1
    BY ONLY <1>1, <1>3, <1>c, <1>l
  <2> HIDE DEF f
  <2>2. f # Null => f # m
    BY ONLY <1>4, <1>9, <2>1
  <2>3. f # Null => lo[f] > at[c]
    BY ONLY <1>5, <2>1
  <2>4. f # Null => Exact(t, lo, hi, f)
    BY ONLY <2>1, <2>3, <1>e
  <2> QED BY ONLY <2>1, <2>2, <2>4
<1>14. /\ at[l] - cnt(t, b) = lo[l] /\ at[c] + cnt(t, f) = hi[c]
       /\ at[m] - cnt(t, d) = lo[m] /\ at[m] + cnt(t, e) = hi[m]
       /\ h(t, b) >= 0 /\ h(t, d) >= 0 /\ h(t, e) >= 0 /\ h(t, f) >= 0
  <2>1. \A q \in M : (t.left[q] # Null => Exact(t, lo, hi, t.left[q])) =>
          at[q] - cnt(t, t.left[q]) = lo[q] /\ h(t, t.left[q]) >= 0
    BY ONLY <1>1, LeftExact
  <2>2. \A q \in M : (t.right[q] # Null => Exact(t, lo, hi, t.right[q])) =>
          at[q] + cnt(t, t.right[q]) = hi[q] /\ h(t, t.right[q]) >= 0
    BY ONLY <1>1, RightExact
  <2>3. at[l] - cnt(t, b) = lo[l] /\ h(t, b) >= 0
    BY ONLY <1>4, <1>7, <2>1
  <2>4. at[m] - cnt(t, d) = lo[m] /\ h(t, d) >= 0
    BY ONLY <1>9, <1>12, <2>1
  <2>5. at[m] + cnt(t, e) = hi[m] /\ h(t, e) >= 0
    BY ONLY <1>9, <1>12, <2>2
  <2>6. at[c] + cnt(t, f) = hi[c] /\ h(t, f) >= 0
    BY ONLY <1>1, <1>13, <2>2
  <2> QED BY ONLY <2>3, <2>4, <2>5, <2>6
<1>15. /\ h(t, b) \in Int /\ h(t, d) \in Int /\ h(t, e) \in Int /\ h(t, f) \in Int
       /\ cnt(t, b) \in Int /\ cnt(t, d) \in Int /\ cnt(t, e) \in Int /\ cnt(t, f) \in Int
       /\ h(t, l) = t.height[l] /\ t.height[l] \in Int /\ h(t, m) = t.height[m] /\ t.height[m] \in Int
  BY ONLY <1>1, <1>4, <1>9, MemberHeights
<1>16. /\ t.height[l] = Larger(h(t, t.left[l]), h(t, t.right[l])) + 1 /\ Within(h(t, t.left[l]), h(t, t.right[l]))
       /\ t.height[m] = Larger(h(t, t.left[m]), h(t, t.right[m])) + 1 /\ Within(h(t, t.left[m]), h(t, t.right[m]))
  BY ONLY <1>6, <1>11 DEF Exact
<1>17. /\ h(u, b) = h(t, b) /\ h(u, d) = h(t, d) /\ h(u, e) = h(t, e) /\ h(u, f) = h(t, f)
       /\ cnt(u, b) = cnt(t, b) /\ cnt(u, d) = cnt(t, d) /\ cnt(u, e) = cnt(t, e) /\ cnt(u, f) = cnt(t, f)
  BY ONLY <1>2, <1>7, <1>12, <1>13
<1>18. /\ u.left[c] = l /\ u.parent[c] = p /\ u.left[l] = b /\ u.right[l] = m /\ u.right[c] = f
       /\ u.left[m] = d /\ u.right[m] = e /\ u.parent[l] = c
  BY ONLY <1>2, <1>4, <1>l DEF SameLinks
<1> HIDE DEF b, d, e, f
<1>19. Shape(w, M, at, lo1, hi1)
  BY ONLY <1>2, <1>4, <1>8, <1>18, <1>w,
          <1>a, RotLeftShape
<1>20. /\ rot_left(u, l).node = m /\ w \in Tree
       /\ \A x \in Node :
            /\ w.right[x] = IF x = l THEN d
                            ELSE IF x = c /\ u.right[x] = l THEN m ELSE u.right[x]
            /\ w.left[x] = IF x = m THEN l
                           ELSE IF x = c /\ u.left[x] = l THEN m ELSE u.left[x]
            /\ w.parent[x] = IF x = l THEN m ELSE IF x = m THEN c
                             ELSE IF x = d THEN l ELSE u.parent[x]
            /\ x \notin {l, m} => w.height[x] = u.height[x] /\ w.count[x] = u.count[x]
       /\ w.height[l] = Larger(h(u, d), h(u, b)) + 1
       /\ w.count[l] = 1 + cnt(u, d) + cnt(u, b)
  BY ONLY <1>2, <1>4, <1>8, <1>18, <1>w, RotLeftLinks
<1>21. /\ w.left[c] = m /\ w.parent[c] = p /\ w.left[m] = l /\ w.right[m] = e /\ w.right[c] = f
       /\ w.left[l] = b /\ w.right[l] = d
  <2>1. /\ m # l /\ c # l /\ m # c /\ c # m /\ f # l
    BY ONLY <1>3, <1>4, <1>9, <1>10, <1>13
  <2>2. c # d /\ c \in Node /\ l \in Node /\ m \in Node
    BY ONLY <1>5, <1>10, <1>12, <1>3, <1>1
  <2> QED BY ONLY <1>18, <1>20, <2>1, <2>2
<1>22. Shape(v, M, at, lo2, hi2)
  BY ONLY <1>1, <1>8, <1>19, <1>21, <1>v,
          <1>b, RotRightShape
<1>23. /\ rot_right(w, c).node = m /\ p \in M \cup {Null} /\ c # p /\ m # p
       /\ \A x \in Node :
            /\ v.left[x] = IF x = c THEN e
                           ELSE IF x = p /\ w.left[x] = c THEN m ELSE w.left[x]
            /\ v.right[x] = IF x = m THEN c
                            ELSE IF x = p /\ w.right[x] = c THEN m ELSE w.right[x]
            /\ v.parent[x] = IF x = c THEN m ELSE IF x = m THEN p
                             ELSE IF x = e THEN c ELSE w.parent[x]
            /\ x \notin {c, m} => v.height[x] = w.height[x] /\ v.count[x] = w.count[x]
       /\ v.height[c] = Larger(h(w, e), h(w, f)) + 1
       /\ v.count[c] = 1 + cnt(w, e) + cnt(w, f)
       /\ v.height[m] = Larger(h(w, l), v.height[c]) + 1
       /\ v.count[m] = 1 + cnt(w, l) + v.count[c]
  BY ONLY <1>1, <1>8, <1>19, <1>21, <1>v, RotRightLinks
<1>24. /\ h(w, e) = h(t, e) /\ h(w, f) = h(t, f) /\ cnt(w, e) = cnt(t, e) /\ cnt(w, f) = cnt(t, f)
       /\ h(w, l) = w.height[l] /\ cnt(w, l) = w.count[l]
  <2>1. \A x \in M \ {c, l, m} : h(w, x) = h(t, x) /\ cnt(w, x) = cnt(t, x)
    <3>1. ASSUME NEW x \in M \ {c, l, m} PROVE h(w, x) = h(t, x) /\ cnt(w, x) = cnt(t, x)
      <4>1. x \in Node /\ x # Null /\ w.height[x] = u.height[x] /\ w.count[x] = u.count[x]
        BY ONLY <1>5, <1>20, <3>1
      <4>2. u.height[x] = t.height[x] /\ u.count[x] = t.count[x]
        BY ONLY <1>2, <3>1, <4>1
      <4> QED BY ONLY <4>1, <4>2 DEF h, cnt
    <3> QED BY ONLY <3>1
  <2>2. /\ h(w, Null) = h(t, Null) /\ cnt(w, Null) = cnt(t, Null)
        /\ h(w, l) = w.height[l] /\ cnt(w, l) = w.count[l]
    BY ONLY <1>3 DEF h, cnt
  <2> QED BY ONLY <1>12, <1>13, <2>1, <2>2
<1>25. /\ v.height[c] = Larger(h(t, e), h(t, f)) + 1 /\ v.height[l] = Larger(h(t, d), h(t, b)) + 1
       /\ v.height[m] = Larger(v.height[l], v.height[c]) + 1
       /\ v.count[c] = 1 + cnt(t, e) + cnt(t, f) /\ v.count[l] = 1 + cnt(t, d) + cnt(t, b)
       /\ v.count[m] = 1 + v.count[l] + v.count[c]
  <2>1. l # c /\ l # m /\ l \in Node
    BY ONLY <1>4, <1>5, <1>9
  <2>2. v.height[l] = w.height[l] /\ v.count[l] = w.count[l]
    BY ONLY <1>23, <2>1
  <2>3. v.height[c] = Larger(h(t, e), h(t, f)) + 1 /\ v.count[c] = 1 + cnt(t, e) + cnt(t, f)
    BY ONLY <1>23, <1>24
  <2>4. w.height[l] = Larger(h(t, d), h(t, b)) + 1 /\ w.count[l] = 1 + cnt(t, d) + cnt(t, b)
    BY ONLY <1>17, <1>20
  <2>5. /\ v.height[m] = Larger(v.height[l], v.height[c]) + 1
        /\ v.count[m] = 1 + v.count[l] + v.count[c]
    BY ONLY <1>23, <1>24, <2>2
  <2> QED BY ONLY <2>2, <2>3, <2>4, <2>5
<1>26. /\ Larger(h(t, b), h(t, d)) + 1 = h(t, f) + 1 /\ Larger(h(t, e), h(t, f)) + 1 = h(t, f) + 1
       /\ h(t, b) = h(t, f) /\ Within(h(t, b), h(t, d)) /\ Within(h(t, e), h(t, f))
  <2>1. /\ t.height[m] = Larger(h(t, d), h(t, e)) + 1 /\ Within(h(t, d), h(t, e))
        /\ t.height[l] = Larger(h(t, b), t.height[m]) + 1 /\ Within(h(t, b), t.height[m])
        /\ h(t, b) < t.height[m]
    <3>1. /\ t.height[m] = Larger(h(t, d), h(t, e)) + 1 \/ t.height[m] = Larger(h(t, e), h(t, d)) + 1
          /\ Within(h(t, d), h(t, e)) \/ Within(h(t, e), h(t, d))
      BY ONLY <1>16 DEF d, e
    <3>2. /\ t.height[l] = Larger(h(t, b), h(t, m)) + 1 \/ t.height[l] = Larger(h(t, m), h(t, b)) + 1
          /\ Within(h(t, b), h(t, m)) \/ Within(h(t, m), h(t, b))
      BY ONLY <1>16, <1>l DEF b
    <3>3. h(t, b) < t.height[m]
      BY ONLY <1>h, <1>l, <1>15 DEF b
    <3> QED BY ONLY <1>15, <3>1, <3>2, <3>3, LargerOfTwo
  <2>2. t.height[l] = h(t, f) + 2
    BY ONLY <1>15, <1>h, <1>l DEF f
  <2>3. Larger(h(t, b), t.height[m]) + 1 = h(t, f) + 2
    BY ONLY <2>1, <2>2
  <2> QED BY ONLY <1>15, <2>1, <2>3, DoubleHeights
<1>27. v.height[c] = h(t, f) + 1 /\ v.height[l] = h(t, f) + 1 /\ v.height[m] = h(t, f) + 2
  <2>1. v.height[c] = h(t, f) + 1
    BY ONLY <1>25, <1>26
  <2>2. v.height[l] = h(t, f) + 1
    BY ONLY <1>15, <1>25, <1>26 DEF Larger
  <2> QED BY ONLY <1>15, <1>25, <2>1, <2>2 DEF Larger
<1>28. /\ v.left[c] = e /\ v.right[c] = f /\ v.left[l] = b /\ v.right[l] = d
       /\ v.left[m] = l /\ v.right[m] = c /\ v.parent[m] = p
  <2>1. p # l
    <3>1. p # Null => \/ c = t.left[p] /\ lo[c] = lo[p] /\ hi[c] = at[p] - 1
                      \/ c = t.right[p] /\ hi[c] = hi[p] /\ lo[c] = at[p] + 1
      BY ONLY <1>1, <1>l, ParentOf
    <3> QED BY ONLY <1>3, <1>4, <1>5, <3>1
  <2>2. c # l /\ c # m /\ l # m /\ c \in Node /\ l \in Node /\ m \in Node /\ c # p /\ m # p
    BY ONLY <1>4, <1>5, <1>9, <1>10, <1>23
  <2> QED BY ONLY <1>21, <1>23, <2>1, <2>2
<1>29. /\ h(v, b) = h(t, b) /\ h(v, d) = h(t, d) /\ h(v, e) = h(t, e) /\ h(v, f) = h(t, f)
       /\ h(v, c) = v.height[c] /\ h(v, l) = v.height[l]
  <2>1. \A x \in M \ {c, l, m} : h(v, x) = h(t, x)
    <3>1. ASSUME NEW x \in M \ {c, l, m} PROVE h(v, x) = h(t, x)
      <4>1. x \in Node /\ x # Null /\ w.height[x] = u.height[x] /\ v.height[x] = w.height[x]
        BY ONLY <1>5, <1>20, <1>23, <3>1
      <4>2. u.height[x] = t.height[x]
        BY ONLY <1>2, <3>1, <4>1
      <4> QED BY ONLY <4>1, <4>2 DEF h
    <3> QED BY ONLY <3>1
  <2>2. h(v, Null) = h(t, Null) /\ h(v, c) = v.height[c] /\ h(v, l) = v.height[l]
    BY ONLY <1>1, <1>4, <1>5 DEF h
  <2> QED BY ONLY <1>7, <1>12, <1>13, <2>1, <2>2
<1>30. /\ lo2[c] = at[m] + 1 /\ hi2[c] = hi[c] /\ lo2[l] = lo[l] /\ hi2[l] = at[m] - 1
       /\ lo2[m] = lo[l] /\ hi2[m] = hi[c]
       /\ \A x \in M \ {c, l, m} : lo2[x] = lo[x] /\ hi2[x] = hi[x]
  BY ONLY <1>a, <1>b, <1>4, <1>5, <1>9, <1>10 DEF Places
<1>31. Exact(v, lo2, hi2, c)
  <2>1. v.count[c] = hi2[c] - lo2[c] + 1
    BY ONLY <1>4, <1>5, <1>9, <1>10, <1>14, <1>15, <1>25, <1>30
  <2>2. v.height[c] >= 1
    BY ONLY <1>14, <1>15, <1>27
  <2>3. v.height[c] = Larger(h(v, v.left[c]), h(v, v.right[c])) + 1
    BY ONLY <1>15, <1>25, <1>28, <1>29 DEF Larger
  <2>4. Within(h(v, v.left[c]), h(v, v.right[c]))
    BY ONLY <1>26, <1>28, <1>29 DEF Within
  <2> QED BY ONLY <2>1, <2>2, <2>3, <2>4 DEF Exact
<1>32. Exact(v, lo2, hi2, l)
  <2>1. v.count[l] = hi2[l] - lo2[l] + 1
    BY ONLY <1>4, <1>5, <1>9, <1>10, <1>14, <1>15, <1>25, <1>30
  <2>2. v.height[l] >= 1
    BY ONLY <1>14, <1>15, <1>27
  <2>3. v.height[l] = Larger(h(v, v.left[l]), h(v, v.right[l])) + 1
    BY ONLY <1>15, <1>25, <1>28, <1>29 DEF Larger
  <2>4. Within(h(v, v.left[l]), h(v, v.right[l]))
    BY ONLY <1>26, <1>28, <1>29 DEF Within
  <2> QED BY ONLY <2>1, <2>2, <2>3, <2>4 DEF Exact
<1>33. Exact(v, lo2, hi2, m)
  <2>1. v.count[m] = hi2[m] - lo2[m] + 1
    <3>1. v.count[m] = 1 + (1 + cnt(t, d) + cnt(t, b)) + (1 + cnt(t, e) + cnt(t, f))
      BY ONLY <1>25
    <3> QED BY ONLY <1>4, <1>5, <1>9, <1>10, <1>14, <1>15, <1>30, <3>1
  <2>2. v.height[m] >= 1
    BY ONLY <1>14, <1>15, <1>27
  <2>3. v.height[m] = Larger(h(v, v.left[m]), h(v, v.right[m])) + 1
    BY ONLY <1>15, <1>25, <1>27, <1>28, <1>29 DEF Larger
  <2>4. Within(h(v, v.left[m]), h(v, v.right[m]))
    BY ONLY <1>15, <1>27, <1>28, <1>29 DEF Within
  <2> QED BY ONLY <2>1, <2>2, <2>3, <2>4 DEF Exact
<1>34. Within(v.height[m], a)
  <2>1. h(t, l) = h(t, f) + 2
    BY ONLY <1>h, <1>l DEF f
  <2>2. Loosened(h(t, l), h(t, f), a) \/ Loosened(h(t, f), h(t, l), a)
    BY ONLY <1>1, <1>l DEF f
  <2> QED BY ONLY <1>1, <1>15, <1>27, <2>1, <2>2 DEF Loosened, Within, Larger
<1> DEFINE S == {c, l, m}
<1>35. S \in SUBSET M /\ c \in S /\ m \in S
  BY ONLY <1>1, <1>4, <1>9
<1>36. \A x \in S : /\ lo[c] <= lo[x] /\ hi[x] <= hi[c] /\ lo[c] <= lo2[x] /\ hi2[x] <= hi[c]
                    /\ x # c => t.parent[x] \in S
                    /\ Exact(v, lo2, hi2, x)
  <2>1. /\ lo[c] <= lo[c] /\ hi[c] <= hi[c] /\ lo[c] <= lo2[c] /\ hi2[c] <= hi[c]
    BY ONLY <1>4, <1>5, <1>9, <1>10, <1>30
  <2>2. /\ lo[c] <= lo[l] /\ hi[l] <= hi[c] /\ lo[c] <= lo2[l] /\ hi2[l] <= hi[c]
    BY ONLY <1>4, <1>5, <1>9, <1>10, <1>30
  <2>3. /\ lo[c] <= lo[m] /\ hi[m] <= hi[c] /\ lo[c] <= lo2[m] /\ hi2[m] <= hi[c]
    BY ONLY <1>4, <1>5, <1>9, <1>10, <1>30
  <2>4. t.parent[l] \in S /\ t.parent[m] \in S
    BY ONLY <1>4, <1>9
  <2> QED BY ONLY <1>31, <1>32, <1>33, <2>1, <2>2, <2>3, <2>4
<1>37. ASSUME NEW x \in M \ S
       PROVE  /\ lo2[x] = lo[x] /\ hi2[x] = hi[x]
              /\ v.height[x] = t.height[x] /\ v.count[x] = t.count[x]
              /\ x # p => v.left[x] = t.left[x] /\ v.right[x] = t.right[x]
              /\ x = p => /\ v.left[x] = IF t.left[x] = c THEN m ELSE t.left[x]
                          /\ v.right[x] = IF t.right[x] = c THEN m ELSE t.right[x]
  <2>1. x \in Node /\ x # c /\ x # l /\ x # m
    BY ONLY <1>5, <1>37
  <2>2. lo2[x] = lo[x] /\ hi2[x] = hi[x]
    BY ONLY <1>30, <1>37, <2>1
  <2>3. /\ u.height[x] = t.height[x] /\ u.count[x] = t.count[x]
        /\ u.left[x] = t.left[x] /\ u.right[x] = t.right[x]
    BY ONLY <1>2, <2>1 DEF SameLinks
  <2>4. /\ w.height[x] = u.height[x] /\ w.count[x] = u.count[x]
        /\ w.left[x] = u.left[x] /\ w.right[x] = u.right[x]
    BY ONLY <1>20, <2>1
  <2>5. /\ v.height[x] = w.height[x] /\ v.count[x] = w.count[x]
        /\ v.left[x] = (IF x = p /\ w.left[x] = c THEN m ELSE w.left[x])
        /\ v.right[x] = (IF x = p /\ w.right[x] = c THEN m ELSE w.right[x])
    BY ONLY <1>23, <2>1
  <2> QED BY ONLY <2>2, <2>3, <2>4, <2>5
<1> HIDE DEF S
<1>38. lo2[m] = lo[c] /\ hi2[m] = hi[c] /\ v.parent[m] = p
  BY ONLY <1>4, <1>28, <1>30
<1>39. Fixed(v, M, at, lo2, hi2, m, a)
  <2>1. p = t.parent[c]
    BY ONLY <1>l
  <2>2. c \in S /\ m \in S /\ S \in SUBSET M
    BY ONLY <1>35
  <2>3. v.parent[m] = p /\ lo2[m] = lo[c] /\ hi2[m] = hi[c]
    BY ONLY <1>38
  <2>4. \A x \in M \ S : /\ lo2[x] = lo[x] /\ hi2[x] = hi[x]
                         /\ v.height[x] = t.height[x] /\ v.count[x] = t.count[x]
                         /\ x # p => v.left[x] = t.left[x] /\ v.right[x] = t.right[x]
                         /\ x = p => /\ v.left[x] = IF t.left[x] = c THEN m ELSE t.left[x]
                                     /\ v.right[x] = IF t.right[x] = c THEN m ELSE t.right[x]
    BY ONLY <1>37
  <2> QED BY ONLY ToFix(t, M, at, lo, hi, c, a), <1>22, <1>34, <1>36, <2>1, <2>2, <2>3, <2>4, Rearranged
<1>40. ASSUME NEW x \in Node \ M
       PROVE  /\ v.parent[x] = t.parent[x] /\ v.left[x] = t.left[x] /\ v.right[x] = t.right[x]
              /\ v.height[x] = t.height[x] /\ v.count[x] = t.count[x]
  <2>1. x \in Node /\ x # c /\ x # l /\ x # m /\ x # d /\ x # e /\ x # p
    BY ONLY <1>1, <1>4, <1>9, <1>12, <1>23, <1>40, NodeAssumption
  <2>2. /\ u.parent[x] = t.parent[x] /\ u.left[x] = t.left[x] /\ u.right[x] = t.right[x]
        /\ u.height[x] = t.height[x] /\ u.count[x] = t.count[x]
    BY ONLY <1>2, <2>1 DEF SameLinks
  <2>3. /\ w.parent[x] = u.parent[x] /\ w.left[x] = u.left[x] /\ w.right[x] = u.right[x]
        /\ w.height[x] = u.height[x] /\ w.count[x] = u.count[x]
    BY ONLY <1>20, <2>1
  <2>4. /\ v.parent[x] = w.parent[x] /\ v.left[x] = w.left[x] /\ v.right[x] = w.right[x]
        /\ v.height[x] = w.height[x] /\ v.count[x] = w.count[x]
    BY ONLY <1>23, <2>1
  <2> QED BY ONLY <2>2, <2>3, <2>4
<1>41. Rest(t, v, M)
  BY ONLY <1>40 DEF Rest
<1>42. \E l2, h2 : Fixed(v, M, at, l2, h2, m, a) /\ lo[c] = l2[m] /\ hi[c] = h2[m]
  BY ONLY <1>38, <1>39
<1> QED BY ONLY <1>23, <1>38, <1>41, <1>42

\* v is t after a round of fix at c that turns twice: the right child l of c to
\* the right, which gives w, and then c to the left.
TurnsRightLeft(t, c, u, l, m, w, p, v) ==
  /\ u = update(t, c) /\ h(t, t.right[c]) = h(t, t.left[c]) + 2
  /\ l = t.right[c] /\ m = t.left[l] /\ h(t, t.right[l]) < h(t, t.left[l])
  /\ w = Relink(rot_right(u, l).tree, c, l, m)
  /\ p = t.parent[c] /\ v = Relink(rot_left(w, c).tree, p, c, m)

\* A round of fix with a rotation of the right child to the right and then one
\* to the left.
LEMMA RoundDoubleLeft ==
  ASSUME NEW t, NEW M, NEW at, NEW lo, NEW hi, NEW c, NEW a, ToFix(t, M, at, lo, hi, c, a),
         NEW u, NEW l, NEW m, NEW w, NEW p, NEW v, TurnsRightLeft(t, c, u, l, m, w, p, v)
  PROVE  /\ rot_left(w, c).node = m /\ v.parent[m] = p /\ Rest(t, v, M)
         /\ \E lo2, hi2 : Fixed(v, M, at, lo2, hi2, m, a) /\ hi2[m] = hi[c] /\ lo2[m] = lo[c]
<1>l. l = t.right[c] /\ m = t.left[l] /\ p = t.parent[c] /\ u = update(t, c)
  BY DEF TurnsRightLeft
<1>h. h(t, t.right[c]) = h(t, t.left[c]) + 2 /\ h(t, t.right[l]) < h(t, t.left[l])
  BY DEF TurnsRightLeft
<1>w. w = Relink(rot_right(u, l).tree, c, l, m)
  BY DEF TurnsRightLeft
<1>v. v = Relink(rot_left(w, c).tree, p, c, m)
  BY DEF TurnsRightLeft
<1>a. PICK lo1, hi1 : hi1 = [hi EXCEPT ![m] = hi[l]] /\ lo1 = [lo EXCEPT ![l] = at[m] + 1]
  OBVIOUS
<1>b. PICK lo2, hi2 : hi2 = [hi1 EXCEPT ![c] = at[m] - 1] /\ lo2 = [lo1 EXCEPT ![m] = lo1[c]]
  OBVIOUS
<1>1. /\ Shape(t, M, at, lo, hi) /\ c \in M /\ a \in Int
      /\ Loosened(h(t, t.left[c]), h(t, t.right[c]), a)
  BY DEF ToFix
<1>2. /\ Shape(u, M, at, lo, hi) /\ SameLinks(t, u)
      /\ \A x \in Node \ {c} : u.height[x] = t.height[x] /\ u.count[x] = t.count[x]
      /\ h(t, t.right[c]) >= 0 /\ h(t, t.left[c]) >= 0
      /\ h(t, t.right[c]) \in Int /\ h(t, t.left[c]) \in Int
      /\ \A x \in M \ {c} : h(u, x) = h(t, x) /\ cnt(u, x) = cnt(t, x)
      /\ h(u, Null) = h(t, Null) /\ cnt(u, Null) = cnt(t, Null)
  BY ONLY <1>l, ToFix(t, M, at, lo, hi, c, a), UpdatedNode
<1>c. \A q \in M :
        /\ t.right[q] # Null =>
             /\ t.right[q] \in M /\ t.parent[t.right[q]] = q /\ t.right[q] # q
             /\ hi[t.right[q]] = hi[q] /\ lo[t.right[q]] = at[q] + 1 /\ t.right[q] # t.left[q]
        /\ t.left[q] # Null =>
             /\ t.left[q] \in M /\ t.parent[t.left[q]] = q /\ t.left[q] # q
             /\ lo[t.left[q]] = lo[q] /\ hi[t.left[q]] = at[q] - 1
  <2>1. \A q \in M : t.left[q] # Null =>
          /\ t.left[q] \in M /\ t.parent[t.left[q]] = q /\ t.left[q] # q
          /\ lo[t.left[q]] = lo[q] /\ hi[t.left[q]] = at[q] - 1 /\ t.left[q] # t.right[q]
    BY ONLY <1>1, LeftChild
  <2>2. \A q \in M : t.right[q] # Null =>
          /\ t.right[q] \in M /\ t.parent[t.right[q]] = q /\ t.right[q] # q
          /\ hi[t.right[q]] = hi[q] /\ lo[t.right[q]] = at[q] + 1 /\ t.right[q] # t.left[q]
    BY ONLY <1>1, RightChild
  <2> QED BY ONLY <2>1, <2>2
<1>e. \A x \in M : lo[x] > at[c] \/ hi[x] < at[c] => Exact(t, lo, hi, x)
  BY ONLY ToFix(t, M, at, lo, hi, c, a), BelowExact
<1>3. l # Null
  <2>1. h(t, l) >= 2
    BY ONLY <1>2, <1>h, <1>l
  <2> QED BY ONLY <2>1 DEF h
<1>4. l \in M /\ l # c /\ t.parent[l] = c /\ hi[l] = hi[c] /\ lo[l] = at[c] + 1
  BY ONLY <1>1, <1>3, <1>c, <1>l
<1>5. /\ at[c] \in Int /\ lo[c] \in Int /\ hi[c] \in Int /\ at[l] \in Int /\ lo[l] \in Int /\ hi[l] \in Int
      /\ lo[c] <= at[c] /\ at[c] <= hi[c] /\ lo[l] <= at[l] /\ at[l] <= hi[l]
      /\ c \in Node /\ l \in Node /\ Null \notin M /\ M \subseteq Node
      /\ lo \in Places /\ hi \in Places
  <2>1. lo \in Places /\ hi \in Places /\ M \subseteq Node
    BY ONLY <1>1 DEF Shape
  <2> QED BY ONLY <1>1, <1>4, <2>1, ShapeNode
<1>6. Exact(t, lo, hi, l)
  BY ONLY <1>4, <1>5, <1>e
<1> DEFINE b == t.right[l]
           d == t.right[m]
           e == t.left[m]
           f == t.left[c]
<1>7. /\ b \in (M \ {c, l}) \cup {Null} /\ (b # Null => Exact(t, lo, hi, b))
      /\ (b # Null => b # m)
  <2>1. b # Null => /\ b \in M /\ t.parent[b] = l /\ b # l /\ hi[b] = hi[l] /\ lo[b] = at[l] + 1
                    /\ b # m
    BY ONLY <1>4, <1>c, <1>l
  <2> HIDE DEF b
  <2>2. b # Null => lo[b] > at[c] /\ b # c
    BY ONLY <1>4, <1>5, <2>1
  <2>3. b # Null => Exact(t, lo, hi, b)
    BY ONLY <2>1, <2>2, <1>e
  <2> QED BY ONLY <2>1, <2>2, <2>3
<1>8. m # Null
  <2>1. b # Null => Exact(t, lo, hi, b)
    BY ONLY <1>7
  <2>2. h(t, t.right[l]) >= 0
    BY ONLY <1>1, <1>4, <2>1, RightExact
  <2>3. h(t, t.right[l]) \in Int /\ h(t, t.left[l]) \in Int
    BY ONLY <1>1, <1>4, MemberHeights
  <2>4. h(t, m) > 0
    BY ONLY <1>h, <1>l, <2>2, <2>3
  <2> QED BY ONLY <2>4 DEF h
<1>9. m \in M /\ t.parent[m] = l /\ m # l /\ lo[m] = lo[l] /\ hi[m] = at[l] - 1
  BY ONLY <1>4, <1>8, <1>c, <1>l
<1>10. /\ at[m] \in Int /\ lo[m] \in Int /\ hi[m] \in Int /\ lo[m] <= at[m] /\ at[m] <= hi[m]
       /\ m \in Node /\ lo[m] > at[c] /\ m # c
  <2>1. /\ at[m] \in Int /\ lo[m] \in Int /\ hi[m] \in Int /\ lo[m] <= at[m] /\ at[m] <= hi[m]
        /\ m \in Node
    BY ONLY <1>1, <1>9, ShapeNode
  <2> QED BY ONLY <1>4, <1>5, <1>9, <2>1
<1>11. Exact(t, lo, hi, m)
  BY ONLY <1>9, <1>10, <1>e
<1>12. /\ d \in (M \ {c, l, m}) \cup {Null} /\ e \in (M \ {c, l, m}) \cup {Null}
       /\ d # Null => Exact(t, lo, hi, d)
       /\ e # Null => Exact(t, lo, hi, e)
  <2>1. d # Null => d \in M /\ t.parent[d] = m /\ d # m /\ hi[d] = hi[m] /\ lo[d] = at[m] + 1
    BY ONLY <1>9, <1>c
  <2>2. e # Null => e \in M /\ t.parent[e] = m /\ e # m /\ lo[e] = lo[m] /\ hi[e] = at[m] - 1
    BY ONLY <1>9, <1>c
  <2> HIDE DEF d, e
  <2>3. d # Null => lo[d] > at[c] /\ d # c /\ d # l
    BY ONLY <1>4, <1>5, <1>9, <1>10, <2>1
  <2>4. e # Null => lo[e] > at[c] /\ e # c /\ e # l
    BY ONLY <1>4, <1>5, <1>9, <1>10, <2>2
  <2>5. d # Null => Exact(t, lo, hi, d)
    BY ONLY <2>1, <2>3, <1>e
  <2>6. e # Null => Exact(t, lo, hi, e)
    BY ONLY <2>2, <2>4, <1>e
  <2> QED BY ONLY <2>1, <2>2, <2>3, <2>4, <2>5, <2>6
<1>13. f \in (M \ {c, l, m}) \cup {Null} /\ (f # Null => Exact(t, lo, hi, f))
  <2>1. f # Null => f \in M /\ t.parent[f] = c /\ f # c /\ f # l /\ hi[f] = at[c] - 1
    BY ONLY <1>1, <1>3, <1>c, <1>l
  <2> HIDE DEF f
  <2>2. f # Null => f # m
    BY ONLY <1>4, <1>9, <2>1
  <2>3. f # Null => hi[f] < at[c]
    BY ONLY <1>5, <2>1
  <2>4. f # Null => Exact(t, lo, hi, f)
    BY ONLY <2>1, <2>3, <1>e
  <2> QED BY ONLY <2>1, <2>2, <2>4
<1>14. /\ at[l] + cnt(t, b) = hi[l] /\ at[c] - cnt(t, f) = lo[c]
       /\ at[m] + cnt(t, d) = hi[m] /\ at[m] - cnt(t, e) = lo[m]
       /\ h(t, b) >= 0 /\ h(t, d) >= 0 /\ h(t, e) >= 0 /\ h(t, f) >= 0
  <2>1. \A q \in M : (t.right[q] # Null => Exact(t, lo, hi, t.right[q])) =>
          at[q] + cnt(t, t.right[q]) = hi[q] /\ h(t, t.right[q]) >= 0
    BY ONLY <1>1, RightExact
  <2>2. \A q \in M : (t.left[q] # Null => Exact(t, lo, hi, t.left[q])) =>
          at[q] - cnt(t, t.left[q]) = lo[q] /\ h(t, t.left[q]) >= 0
    BY ONLY <1>1, LeftExact
  <2>3. at[l] + cnt(t, b) = hi[l] /\ h(t, b) >= 0
    BY ONLY <1>4, <1>7, <2>1
  <2>4. at[m] + cnt(t, d) = hi[m] /\ h(t, d) >= 0
    BY ONLY <1>9, <1>12, <2>1
  <2>5. at[m] - cnt(t, e) = lo[m] /\ h(t, e) >= 0
    BY ONLY <1>9, <1>12, <2>2
  <2>6. at[c] - cnt(t, f) = lo[c] /\ h(t, f) >= 0
    BY ONLY <1>1, <1>13, <2>2
  <2> QED BY ONLY <2>3, <2>4, <2>5, <2>6
<1>15. /\ h(t, b) \in Int /\ h(t, d) \in Int /\ h(t, e) \in Int /\ h(t, f) \in Int
       /\ cnt(t, b) \in Int /\ cnt(t, d) \in Int /\ cnt(t, e) \in Int /\ cnt(t, f) \in Int
       /\ h(t, l) = t.height[l] /\ t.height[l] \in Int /\ h(t, m) = t.height[m] /\ t.height[m] \in Int
  BY ONLY <1>1, <1>4, <1>9, MemberHeights
<1>16. /\ t.height[l] = Larger(h(t, t.left[l]), h(t, t.right[l])) + 1 /\ Within(h(t, t.left[l]), h(t, t.right[l]))
       /\ t.height[m] = Larger(h(t, t.left[m]), h(t, t.right[m])) + 1 /\ Within(h(t, t.left[m]), h(t, t.right[m]))
  BY ONLY <1>6, <1>11 DEF Exact
<1>17. /\ h(u, b) = h(t, b) /\ h(u, d) = h(t, d) /\ h(u, e) = h(t, e) /\ h(u, f) = h(t, f)
       /\ cnt(u, b) = cnt(t, b) /\ cnt(u, d) = cnt(t, d) /\ cnt(u, e) = cnt(t, e) /\ cnt(u, f) = cnt(t, f)
  BY ONLY <1>2, <1>7, <1>12, <1>13
<1>18. /\ u.right[c] = l /\ u.parent[c] = p /\ u.right[l] = b /\ u.left[l] = m /\ u.left[c] = f
       /\ u.right[m] = d /\ u.left[m] = e /\ u.parent[l] = c
  BY ONLY <1>2, <1>4, <1>l DEF SameLinks
<1> HIDE DEF b, d, e, f
<1>19. Shape(w, M, at, lo1, hi1)
  BY ONLY <1>2, <1>4, <1>8, <1>18, <1>w,
          <1>a, RotRightShape
<1>20. /\ rot_right(u, l).node = m /\ w \in Tree
       /\ \A x \in Node :
            /\ w.left[x] = IF x = l THEN d
                            ELSE IF x = c /\ u.left[x] = l THEN m ELSE u.left[x]
            /\ w.right[x] = IF x = m THEN l
                           ELSE IF x = c /\ u.right[x] = l THEN m ELSE u.right[x]
            /\ w.parent[x] = IF x = l THEN m ELSE IF x = m THEN c
                             ELSE IF x = d THEN l ELSE u.parent[x]
            /\ x \notin {l, m} => w.height[x] = u.height[x] /\ w.count[x] = u.count[x]
       /\ w.height[l] = Larger(h(u, d), h(u, b)) + 1
       /\ w.count[l] = 1 + cnt(u, d) + cnt(u, b)
  BY ONLY <1>2, <1>4, <1>8, <1>18, <1>w, RotRightLinks
<1>21. /\ w.right[c] = m /\ w.parent[c] = p /\ w.right[m] = l /\ w.left[m] = e /\ w.left[c] = f
       /\ w.right[l] = b /\ w.left[l] = d
  <2>1. /\ m # l /\ c # l /\ m # c /\ c # m /\ f # l
    BY ONLY <1>3, <1>4, <1>9, <1>10, <1>13
  <2>2. c # d /\ c \in Node /\ l \in Node /\ m \in Node
    BY ONLY <1>5, <1>10, <1>12, <1>3, <1>1
  <2> QED BY ONLY <1>18, <1>20, <2>1, <2>2
<1>22. Shape(v, M, at, lo2, hi2)
  BY ONLY <1>1, <1>8, <1>19, <1>21, <1>v,
          <1>b, RotLeftShape
<1>23. /\ rot_left(w, c).node = m /\ p \in M \cup {Null} /\ c # p /\ m # p
       /\ \A x \in Node :
            /\ v.right[x] = IF x = c THEN e
                           ELSE IF x = p /\ w.right[x] = c THEN m ELSE w.right[x]
            /\ v.left[x] = IF x = m THEN c
                            ELSE IF x = p /\ w.left[x] = c THEN m ELSE w.left[x]
            /\ v.parent[x] = IF x = c THEN m ELSE IF x = m THEN p
                             ELSE IF x = e THEN c ELSE w.parent[x]
            /\ x \notin {c, m} => v.height[x] = w.height[x] /\ v.count[x] = w.count[x]
       /\ v.height[c] = Larger(h(w, e), h(w, f)) + 1
       /\ v.count[c] = 1 + cnt(w, e) + cnt(w, f)
       /\ v.height[m] = Larger(h(w, l), v.height[c]) + 1
       /\ v.count[m] = 1 + cnt(w, l) + v.count[c]
  BY ONLY <1>1, <1>8, <1>19, <1>21, <1>v, RotLeftLinks
<1>24. /\ h(w, e) = h(t, e) /\ h(w, f) = h(t, f) /\ cnt(w, e) = cnt(t, e) /\ cnt(w, f) = cnt(t, f)
       /\ h(w, l) = w.height[l] /\ cnt(w, l) = w.count[l]
  <2>1. \A x \in M \ {c, l, m} : h(w, x) = h(t, x) /\ cnt(w, x) = cnt(t, x)
    <3>1. ASSUME NEW x \in M \ {c, l, m} PROVE h(w, x) = h(t, x) /\ cnt(w, x) = cnt(t, x)
      <4>1. x \in Node /\ x # Null /\ w.height[x] = u.height[x] /\ w.count[x] = u.count[x]
        BY ONLY <1>5, <1>20, <3>1
      <4>2. u.height[x] = t.height[x] /\ u.count[x] = t.count[x]
        BY ONLY <1>2, <3>1, <4>1
      <4> QED BY ONLY <4>1, <4>2 DEF h, cnt
    <3> QED BY ONLY <3>1
  <2>2. /\ h(w, Null) = h(t, Null) /\ cnt(w, Null) = cnt(t, Null)
        /\ h(w, l) = w.height[l] /\ cnt(w, l) = w.count[l]
    BY ONLY <1>3 DEF h, cnt
  <2> QED BY ONLY <1>12, <1>13, <2>1, <2>2
<1>25. /\ v.height[c] = Larger(h(t, e), h(t, f)) + 1 /\ v.height[l] = Larger(h(t, d), h(t, b)) + 1
       /\ v.height[m] = Larger(v.height[l], v.height[c]) + 1
       /\ v.count[c] = 1 + cnt(t, e) + cnt(t, f) /\ v.count[l] = 1 + cnt(t, d) + cnt(t, b)
       /\ v.count[m] = 1 + v.count[l] + v.count[c]
  <2>1. l # c /\ l # m /\ l \in Node
    BY ONLY <1>4, <1>5, <1>9
  <2>2. v.height[l] = w.height[l] /\ v.count[l] = w.count[l]
    BY ONLY <1>23, <2>1
  <2>3. v.height[c] = Larger(h(t, e), h(t, f)) + 1 /\ v.count[c] = 1 + cnt(t, e) + cnt(t, f)
    BY ONLY <1>23, <1>24
  <2>4. w.height[l] = Larger(h(t, d), h(t, b)) + 1 /\ w.count[l] = 1 + cnt(t, d) + cnt(t, b)
    BY ONLY <1>17, <1>20
  <2>5. /\ v.height[m] = Larger(v.height[l], v.height[c]) + 1
        /\ v.count[m] = 1 + v.count[l] + v.count[c]
    BY ONLY <1>23, <1>24, <2>2
  <2> QED BY ONLY <2>2, <2>3, <2>4, <2>5
<1>26. /\ Larger(h(t, b), h(t, d)) + 1 = h(t, f) + 1 /\ Larger(h(t, e), h(t, f)) + 1 = h(t, f) + 1
       /\ h(t, b) = h(t, f) /\ Within(h(t, b), h(t, d)) /\ Within(h(t, e), h(t, f))
  <2>1. /\ t.height[m] = Larger(h(t, d), h(t, e)) + 1 /\ Within(h(t, d), h(t, e))
        /\ t.height[l] = Larger(h(t, b), t.height[m]) + 1 /\ Within(h(t, b), t.height[m])
        /\ h(t, b) < t.height[m]
    <3>1. /\ t.height[m] = Larger(h(t, d), h(t, e)) + 1 \/ t.height[m] = Larger(h(t, e), h(t, d)) + 1
          /\ Within(h(t, d), h(t, e)) \/ Within(h(t, e), h(t, d))
      BY ONLY <1>16 DEF d, e
    <3>2. /\ t.height[l] = Larger(h(t, b), h(t, m)) + 1 \/ t.height[l] = Larger(h(t, m), h(t, b)) + 1
          /\ Within(h(t, b), h(t, m)) \/ Within(h(t, m), h(t, b))
      BY ONLY <1>16, <1>l DEF b
    <3>3. h(t, b) < t.height[m]
      BY ONLY <1>h, <1>l, <1>15 DEF b
    <3> QED BY ONLY <1>15, <3>1, <3>2, <3>3, LargerOfTwo
  <2>2. t.height[l] = h(t, f) + 2
    BY ONLY <1>15, <1>h, <1>l DEF f
  <2>3. Larger(h(t, b), t.height[m]) + 1 = h(t, f) + 2
    BY ONLY <2>1, <2>2
  <2> QED BY ONLY <1>15, <2>1, <2>3, DoubleHeights
<1>27. v.height[c] = h(t, f) + 1 /\ v.height[l] = h(t, f) + 1 /\ v.height[m] = h(t, f) + 2
  <2>1. v.height[c] = h(t, f) + 1
    BY ONLY <1>25, <1>26
  <2>2. v.height[l] = h(t, f) + 1
    BY ONLY <1>15, <1>25, <1>26 DEF Larger
  <2> QED BY ONLY <1>15, <1>25, <2>1, <2>2 DEF Larger
<1>28. /\ v.right[c] = e /\ v.left[c] = f /\ v.right[l] = b /\ v.left[l] = d
       /\ v.right[m] = l /\ v.left[m] = c /\ v.parent[m] = p
  <2>1. p # l
    <3>1. p # Null => \/ c = t.right[p] /\ hi[c] = hi[p] /\ lo[c] = at[p] + 1
                      \/ c = t.left[p] /\ lo[c] = lo[p] /\ hi[c] = at[p] - 1
      BY ONLY <1>1, <1>l, ParentOf
    <3> QED BY ONLY <1>3, <1>4, <1>5, <3>1
  <2>2. c # l /\ c # m /\ l # m /\ c \in Node /\ l \in Node /\ m \in Node /\ c # p /\ m # p
    BY ONLY <1>4, <1>5, <1>9, <1>10, <1>23
  <2> QED BY ONLY <1>21, <1>23, <2>1, <2>2
<1>29. /\ h(v, b) = h(t, b) /\ h(v, d) = h(t, d) /\ h(v, e) = h(t, e) /\ h(v, f) = h(t, f)
       /\ h(v, c) = v.height[c] /\ h(v, l) = v.height[l]
  <2>1. \A x \in M \ {c, l, m} : h(v, x) = h(t, x)
    <3>1. ASSUME NEW x \in M \ {c, l, m} PROVE h(v, x) = h(t, x)
      <4>1. x \in Node /\ x # Null /\ w.height[x] = u.height[x] /\ v.height[x] = w.height[x]
        BY ONLY <1>5, <1>20, <1>23, <3>1
      <4>2. u.height[x] = t.height[x]
        BY ONLY <1>2, <3>1, <4>1
      <4> QED BY ONLY <4>1, <4>2 DEF h
    <3> QED BY ONLY <3>1
  <2>2. h(v, Null) = h(t, Null) /\ h(v, c) = v.height[c] /\ h(v, l) = v.height[l]
    BY ONLY <1>1, <1>4, <1>5 DEF h
  <2> QED BY ONLY <1>7, <1>12, <1>13, <2>1, <2>2
<1>30. /\ hi2[c] = at[m] - 1 /\ lo2[c] = lo[c] /\ hi2[l] = hi[l] /\ lo2[l] = at[m] + 1
       /\ hi2[m] = hi[l] /\ lo2[m] = lo[c]
       /\ \A x \in M \ {c, l, m} : hi2[x] = hi[x] /\ lo2[x] = lo[x]
  BY ONLY <1>a, <1>b, <1>4, <1>5, <1>9, <1>10 DEF Places
<1>31. Exact(v, lo2, hi2, c)
  <2>1. v.count[c] = hi2[c] - lo2[c] + 1
    BY ONLY <1>4, <1>5, <1>9, <1>10, <1>14, <1>15, <1>25, <1>30
  <2>2. v.height[c] >= 1
    BY ONLY <1>14, <1>15, <1>27
  <2>3. v.height[c] = Larger(h(v, v.left[c]), h(v, v.right[c])) + 1
    BY ONLY <1>15, <1>25, <1>28, <1>29 DEF Larger
  <2>4. Within(h(v, v.left[c]), h(v, v.right[c]))
    BY ONLY <1>26, <1>28, <1>29 DEF Within
  <2> QED BY ONLY <2>1, <2>2, <2>3, <2>4 DEF Exact
<1>32. Exact(v, lo2, hi2, l)
  <2>1. v.count[l] = hi2[l] - lo2[l] + 1
    BY ONLY <1>4, <1>5, <1>9, <1>10, <1>14, <1>15, <1>25, <1>30
  <2>2. v.height[l] >= 1
    BY ONLY <1>14, <1>15, <1>27
  <2>3. v.height[l] = Larger(h(v, v.left[l]), h(v, v.right[l])) + 1
    BY ONLY <1>15, <1>25, <1>28, <1>29 DEF Larger
  <2>4. Within(h(v, v.left[l]), h(v, v.right[l]))
    BY ONLY <1>26, <1>28, <1>29 DEF Within
  <2> QED BY ONLY <2>1, <2>2, <2>3, <2>4 DEF Exact
<1>33. Exact(v, lo2, hi2, m)
  <2>1. v.count[m] = hi2[m] - lo2[m] + 1
    <3>1. v.count[m] = 1 + (1 + cnt(t, d) + cnt(t, b)) + (1 + cnt(t, e) + cnt(t, f))
      BY ONLY <1>25
    <3> QED BY ONLY <1>4, <1>5, <1>9, <1>10, <1>14, <1>15, <1>30, <3>1
  <2>2. v.height[m] >= 1
    BY ONLY <1>14, <1>15, <1>27
  <2>3. v.height[m] = Larger(h(v, v.left[m]), h(v, v.right[m])) + 1
    BY ONLY <1>15, <1>25, <1>27, <1>28, <1>29 DEF Larger
  <2>4. Within(h(v, v.left[m]), h(v, v.right[m]))
    BY ONLY <1>15, <1>27, <1>28, <1>29 DEF Within
  <2> QED BY ONLY <2>1, <2>2, <2>3, <2>4 DEF Exact
<1>34. Within(v.height[m], a)
  <2>1. h(t, l) = h(t, f) + 2
    BY ONLY <1>h, <1>l DEF f
  <2>2. Loosened(h(t, l), h(t, f), a) \/ Loosened(h(t, f), h(t, l), a)
    BY ONLY <1>1, <1>l DEF f
  <2> QED BY ONLY <1>1, <1>15, <1>27, <2>1, <2>2 DEF Loosened, Within, Larger
<1> DEFINE S == {c, l, m}
<1>35. S \in SUBSET M /\ c \in S /\ m \in S
  BY ONLY <1>1, <1>4, <1>9
<1>36. \A x \in S : /\ lo[c] <= lo[x] /\ hi[x] <= hi[c] /\ lo[c] <= lo2[x] /\ hi2[x] <= hi[c]
                    /\ x # c => t.parent[x] \in S
                    /\ Exact(v, lo2, hi2, x)
  <2>1. /\ lo[c] <= lo[c] /\ hi[c] <= hi[c] /\ lo[c] <= lo2[c] /\ hi2[c] <= hi[c]
    BY ONLY <1>4, <1>5, <1>9, <1>10, <1>30
  <2>2. /\ lo[c] <= lo[l] /\ hi[l] <= hi[c] /\ lo[c] <= lo2[l] /\ hi2[l] <= hi[c]
    BY ONLY <1>4, <1>5, <1>9, <1>10, <1>30
  <2>3. /\ lo[c] <= lo[m] /\ hi[m] <= hi[c] /\ lo[c] <= lo2[m] /\ hi2[m] <= hi[c]
    BY ONLY <1>4, <1>5, <1>9, <1>10, <1>30
  <2>4. t.parent[l] \in S /\ t.parent[m] \in S
    BY ONLY <1>4, <1>9
  <2> QED BY ONLY <1>31, <1>32, <1>33, <2>1, <2>2, <2>3, <2>4
<1>37. ASSUME NEW x \in M \ S
       PROVE  /\ hi2[x] = hi[x] /\ lo2[x] = lo[x]
              /\ v.height[x] = t.height[x] /\ v.count[x] = t.count[x]
              /\ x # p => v.left[x] = t.left[x] /\ v.right[x] = t.right[x]
              /\ x = p => /\ v.left[x] = IF t.left[x] = c THEN m ELSE t.left[x]
                          /\ v.right[x] = IF t.right[x] = c THEN m ELSE t.right[x]
  <2>1. x \in Node /\ x # c /\ x # l /\ x # m
    BY ONLY <1>5, <1>37
  <2>2. hi2[x] = hi[x] /\ lo2[x] = lo[x]
    BY ONLY <1>30, <1>37, <2>1
  <2>3. /\ u.height[x] = t.height[x] /\ u.count[x] = t.count[x]
        /\ u.right[x] = t.right[x] /\ u.left[x] = t.left[x]
    BY ONLY <1>2, <2>1 DEF SameLinks
  <2>4. /\ w.height[x] = u.height[x] /\ w.count[x] = u.count[x]
        /\ w.right[x] = u.right[x] /\ w.left[x] = u.left[x]
    BY ONLY <1>20, <2>1
  <2>5. /\ v.height[x] = w.height[x] /\ v.count[x] = w.count[x]
        /\ v.right[x] = (IF x = p /\ w.right[x] = c THEN m ELSE w.right[x])
        /\ v.left[x] = (IF x = p /\ w.left[x] = c THEN m ELSE w.left[x])
    BY ONLY <1>23, <2>1
  <2> QED BY ONLY <2>2, <2>3, <2>4, <2>5
<1> HIDE DEF S
<1>38. hi2[m] = hi[c] /\ lo2[m] = lo[c] /\ v.parent[m] = p
  BY ONLY <1>4, <1>28, <1>30
<1>39. Fixed(v, M, at, lo2, hi2, m, a)
  <2>1. p = t.parent[c]
    BY ONLY <1>l
  <2>2. c \in S /\ m \in S /\ S \in SUBSET M
    BY ONLY <1>35
  <2>3. v.parent[m] = p /\ lo2[m] = lo[c] /\ hi2[m] = hi[c]
    BY ONLY <1>38
  <2>4. \A x \in M \ S : /\ lo2[x] = lo[x] /\ hi2[x] = hi[x]
                         /\ v.height[x] = t.height[x] /\ v.count[x] = t.count[x]
                         /\ x # p => v.left[x] = t.left[x] /\ v.right[x] = t.right[x]
                         /\ x = p => /\ v.left[x] = IF t.left[x] = c THEN m ELSE t.left[x]
                                     /\ v.right[x] = IF t.right[x] = c THEN m ELSE t.right[x]
    BY ONLY <1>37
  <2> QED BY ONLY ToFix(t, M, at, lo, hi, c, a), <1>22, <1>34, <1>36, <2>1, <2>2, <2>3, <2>4, Rearranged
<1>40. ASSUME NEW x \in Node \ M
       PROVE  /\ v.parent[x] = t.parent[x] /\ v.right[x] = t.right[x] /\ v.left[x] = t.left[x]
              /\ v.height[x] = t.height[x] /\ v.count[x] = t.count[x]
  <2>1. x \in Node /\ x # c /\ x # l /\ x # m /\ x # d /\ x # e /\ x # p
    BY ONLY <1>1, <1>4, <1>9, <1>12, <1>23, <1>40, NodeAssumption
  <2>2. /\ u.parent[x] = t.parent[x] /\ u.right[x] = t.right[x] /\ u.left[x] = t.left[x]
        /\ u.height[x] = t.height[x] /\ u.count[x] = t.count[x]
    BY ONLY <1>2, <2>1 DEF SameLinks
  <2>3. /\ w.parent[x] = u.parent[x] /\ w.right[x] = u.right[x] /\ w.left[x] = u.left[x]
        /\ w.height[x] = u.height[x] /\ w.count[x] = u.count[x]
    BY ONLY <1>20, <2>1
  <2>4. /\ v.parent[x] = w.parent[x] /\ v.right[x] = w.right[x] /\ v.left[x] = w.left[x]
        /\ v.height[x] = w.height[x] /\ v.count[x] = w.count[x]
    BY ONLY <1>23, <2>1
  <2> QED BY ONLY <2>2, <2>3, <2>4
<1>41. Rest(t, v, M)
  BY ONLY <1>40 DEF Rest
<1>42. \E l2, h2 : Fixed(v, M, at, l2, h2, m, a) /\ lo[c] = l2[m] /\ hi[c] = h2[m]
  BY ONLY <1>38, <1>39
<1> QED BY ONLY <1>23, <1>38, <1>41, <1>42

\* The link that fix_left sets between two rotations is the one to the child.
LEMMA InnerTurnRight ==
  ASSUME NEW u, NEW M, NEW at, NEW lo, NEW hi, Shape(u, M, at, lo, hi), NEW c \in M,
         NEW l, l = u.left[c], l # Null, NEW m, m = u.right[l], m # Null,
         NEW r, r = rot_left(u, l)
  PROVE  r.node = m /\ [r.tree EXCEPT !.left[c] = m] = Relink(r.tree, c, l, m)
<1>1. l \in M /\ l # c /\ u.parent[l] = c /\ l # u.right[c] /\ hi[l] = at[c] - 1
  BY LeftChild
<1>2. \A q \in M : u.right[q] # Null =>
        /\ u.right[q] \in M /\ u.parent[u.right[q]] = q /\ u.right[q] # q
        /\ hi[u.right[q]] = hi[q]
  BY ONLY Shape(u, M, at, lo, hi), RightChild
<1>3. m \in M /\ u.parent[m] = l /\ m # l /\ hi[m] = hi[l]
  BY ONLY <1>1, <1>2, m = u.right[l], m # Null
<1>4. u.right[m] # l /\ m # c
  <2>1. at[c] \in Int /\ hi[c] \in Int /\ at[c] <= hi[c]
    BY ONLY Shape(u, M, at, lo, hi), c \in M, ShapeNode
  <2>2. m # c
    BY ONLY <1>1, <1>3, <2>1
  <2> QED BY ONLY <1>1, <1>2, <1>3, <2>2, l # Null
<1>5. u \in Tree /\ c \in Node /\ l \in Node /\ m \in Node /\ Null \notin M
  BY ONLY <1>1, <1>3, Shape(u, M, at, lo, hi), c \in M, ShapeNode DEF Shape
<1> DEFINE v == r.tree
           d == u.left[m]
<1>6. d \in NullOr
  BY ONLY <1>5, TreeFields
<1>7. /\ r.node = m /\ v \in Tree
      /\ \A x \in Node : /\ v.right[x] = IF x = l THEN d ELSE u.right[x]
                         /\ v.left[x] = IF x = m THEN l ELSE u.left[x]
  BY ONLY <1>3, <1>4, <1>5, <1>6, m = u.right[l], r = rot_left(u, l), RotLeftFields
<1> HIDE DEF v
<1>8. v.left[c] = l /\ v.right[c] # l /\ c # Null
  BY ONLY <1>1, <1>4, <1>5, <1>7, c \in M, l = u.left[c]
<1> QED BY ONLY <1>7, <1>8 DEF v, Relink

\* A round of fix in which fix_left is called.
LEMMA RoundFixLeft ==
  ASSUME NEW t, NEW M, NEW at, NEW lo, NEW hi, NEW c, NEW a, ToFix(t, M, at, lo, hi, c, a),
         NEW u, u = update(t, c), h(t, t.left[c]) = h(t, t.right[c]) + 2,
         NEW s, s = fix_left(u, c), NEW p, p = t.parent[c],
         NEW v, v = Relink(s.tree, p, c, s.node)
  PROVE  \E lo2, hi2, c2 :
           /\ Fixed(v, M, at, lo2, hi2, c2, a) /\ v.parent[c2] = p
           /\ lo2[c2] = lo[c] /\ hi2[c2] = hi[c] /\ Rest(t, v, M)
<1> DEFINE l == t.left[c]
           m == t.right[l]
<1>1. Shape(t, M, at, lo, hi) /\ c \in M
  BY DEF ToFix
<1>2. /\ Shape(u, M, at, lo, hi) /\ SameLinks(t, u)
      /\ h(t, t.left[c]) >= 0 /\ h(t, t.right[c]) >= 0
      /\ h(t, t.left[c]) \in Int /\ h(t, t.right[c]) \in Int
      /\ \A x \in M \ {c} : h(u, x) = h(t, x)
      /\ h(u, Null) = h(t, Null)
  BY UpdatedNode
<1>3. u.left[c] = l /\ u.right[l] = m /\ u.left[l] = t.left[l]
  BY ONLY <1>2 DEF SameLinks
<1>4. l # Null
  <2>1. h(t, l) >= 2
    BY <1>2
  <2> QED BY <2>1 DEF h
<1>5. l \in M /\ t.parent[l] = c /\ lo[l] = lo[c] /\ hi[l] = at[c] - 1
  BY <1>1, <1>4, LeftChild
<1>6. h(u, u.left[l]) = h(t, t.left[l]) /\ h(u, u.right[l]) = h(t, t.right[l])
  <2>1. \A q \in M : /\ t.left[q] # Null => t.left[q] \in M /\ t.parent[t.left[q]] = q
                     /\ t.right[q] # Null => t.right[q] \in M /\ t.parent[t.right[q]] = q
    BY ONLY <1>1, LeftChild, RightChild
  <2>2. t.parent[c] # l
    <3>1. t.parent[c] # Null =>
            \/ c = t.left[t.parent[c]] /\ lo[c] = lo[t.parent[c]] /\ hi[c] = at[t.parent[c]] - 1
            \/ c = t.right[t.parent[c]] /\ hi[c] = hi[t.parent[c]] /\ lo[c] = at[t.parent[c]] + 1
      BY ONLY <1>1, ParentOf
    <3>2. /\ at[c] \in Int /\ lo[c] \in Int /\ hi[c] \in Int /\ at[l] \in Int /\ lo[l] \in Int /\ hi[l] \in Int
          /\ lo[c] <= at[c] /\ at[c] <= hi[c] /\ lo[l] <= at[l] /\ at[l] <= hi[l]
      BY ONLY <1>1, <1>5, ShapeNode
    <3> HIDE DEF l
    <3> QED BY ONLY <1>4, <1>5, <3>1, <3>2
  <2>3. t.left[l] # c /\ t.right[l] # c
    <3>1. c # Null
      BY <1>1, ShapeNode
    <3> QED BY ONLY <1>5, <2>1, <2>2, <3>1
  <2>4. t.left[l] = Null \/ t.left[l] \in M \ {c}
    BY ONLY <1>5, <2>1, <2>3
  <2>5. t.right[l] = Null \/ t.right[l] \in M \ {c}
    BY ONLY <1>5, <2>1, <2>3
  <2> QED BY ONLY <1>2, <1>3, <2>4, <2>5
<1>7. h(t, t.left[l]) \in Int /\ h(t, t.right[l]) \in Int
  BY ONLY <1>1, <1>5, MemberHeights
<1> HIDE DEF l, m
<1>8. CASE h(t, t.left[l]) < h(t, t.right[l])
  <2>1. m # Null
    <3> DEFINE b == t.left[l]
    <3>1. b # Null => b \in M /\ hi[b] = at[l] - 1
      BY ONLY <1>1, <1>5, LeftChild
    <3>2. /\ at[c] \in Int /\ at[l] \in Int /\ hi[l] \in Int /\ at[l] <= hi[l]
      BY ONLY <1>1, <1>5, ShapeNode
    <3> HIDE DEF b
    <3>3. b # Null => hi[b] < at[c]
      BY ONLY <1>5, <3>1, <3>2
    <3>4. b # Null => Exact(t, lo, hi, b)
      BY ONLY <3>1, <3>3, ToFix(t, M, at, lo, hi, c, a), BelowExact
    <3>5. h(t, t.left[l]) >= 0
      BY ONLY <1>1, <1>5, <3>4, LeftExact DEF b
    <3>6. h(t, m) > 0
      BY ONLY <1>7, <1>8, <3>5 DEF m
    <3> QED BY ONLY <3>6 DEF h
  <2> DEFINE w == Relink(rot_left(u, l).tree, c, l, m)
  <2>2. rot_left(u, l).node = m /\ [rot_left(u, l).tree EXCEPT !.left[c] = m] = w
    BY ONLY <1>1, <1>2, <1>3, <1>4, <2>1, InnerTurnRight
  <2>3. s = rot_right(w, c)
    BY ONLY s = fix_left(u, c), <1>3, <1>6, <1>8, <2>2 DEF fix_left
  <2> DEFINE v1 == Relink(rot_right(w, c).tree, p, c, m)
  <2>4. /\ l = t.left[c] /\ m = t.right[l] /\ w = Relink(rot_left(u, l).tree, c, l, m)
        /\ v1 = Relink(rot_right(w, c).tree, p, c, m)
    BY DEF l, m
  <2> HIDE DEF w, v1
  <2>t. TurnsLeftRight(t, c, u, l, m, w, p, v1)
    BY ONLY <1>8, <2>4, u = update(t, c), p = t.parent[c],
            h(t, t.left[c]) = h(t, t.right[c]) + 2 DEF TurnsLeftRight
  <2>5. /\ rot_right(w, c).node = m /\ v1.parent[m] = p /\ Rest(t, v1, M)
        /\ \E lo2, hi2 : Fixed(v1, M, at, lo2, hi2, m, a) /\ lo2[m] = lo[c] /\ hi2[m] = hi[c]
    BY ONLY <2>t, ToFix(t, M, at, lo, hi, c, a), RoundDoubleRight
  <2>6. v = v1
    BY ONLY <2>3, <2>4, <2>5, v = Relink(s.tree, p, c, s.node)
  <2> QED BY ONLY <2>5, <2>6
<1>9. CASE ~ (h(t, t.left[l]) < h(t, t.right[l]))
  <2>1. h(t, t.left[l]) >= h(t, t.right[l])
    BY ONLY <1>7, <1>9
  <2>2. s = rot_right(u, c)
    BY ONLY s = fix_left(u, c), <1>3, <1>6, <1>9 DEF fix_left
  <2> DEFINE v1 == Relink(rot_right(u, c).tree, p, c, l)
  <2>3. /\ l = t.left[c] /\ v1 = Relink(rot_right(u, c).tree, p, c, l)
    BY DEF l
  <2> HIDE DEF v1
  <2>4. /\ rot_right(u, c).node = l /\ v1.parent[l] = p /\ Rest(t, v1, M)
        /\ \E lo2, hi2 : Fixed(v1, M, at, lo2, hi2, l, a) /\ lo2[l] = lo[c] /\ hi2[l] = hi[c]
    BY ONLY <2>1, <2>3, ToFix(t, M, at, lo, hi, c, a), u = update(t, c), p = t.parent[c],
            h(t, t.left[c]) = h(t, t.right[c]) + 2, RoundRight
  <2>5. v = v1
    BY ONLY <2>2, <2>3, <2>4, v = Relink(s.tree, p, c, s.node)
  <2> QED BY ONLY <2>4, <2>5
<1> QED BY <1>8, <1>9

\* The link that fix_right sets between two rotations is the one to the child.
LEMMA InnerTurnLeft ==
  ASSUME NEW u, NEW M, NEW at, NEW lo, NEW hi, Shape(u, M, at, lo, hi), NEW c \in M,
         NEW l, l = u.right[c], l # Null, NEW m, m = u.left[l], m # Null,
         NEW r, r = rot_right(u, l)
  PROVE  r.node = m /\ [r.tree EXCEPT !.right[c] = m] = Relink(r.tree, c, l, m)
<1>1. l \in M /\ l # c /\ u.parent[l] = c /\ l # u.left[c] /\ lo[l] = at[c] + 1
  BY RightChild
<1>2. \A q \in M : u.left[q] # Null =>
        /\ u.left[q] \in M /\ u.parent[u.left[q]] = q /\ u.left[q] # q
        /\ lo[u.left[q]] = lo[q]
  BY ONLY Shape(u, M, at, lo, hi), LeftChild
<1>3. m \in M /\ u.parent[m] = l /\ m # l /\ lo[m] = lo[l]
  BY ONLY <1>1, <1>2, m = u.left[l], m # Null
<1>4. u.left[m] # l /\ m # c
  <2>1. at[c] \in Int /\ lo[c] \in Int /\ at[c] >= lo[c]
    BY ONLY Shape(u, M, at, lo, hi), c \in M, ShapeNode
  <2>2. m # c
    BY ONLY <1>1, <1>3, <2>1
  <2> QED BY ONLY <1>1, <1>2, <1>3, <2>2, l # Null
<1>5. u \in Tree /\ c \in Node /\ l \in Node /\ m \in Node /\ Null \notin M
  BY ONLY <1>1, <1>3, Shape(u, M, at, lo, hi), c \in M, ShapeNode DEF Shape
<1> DEFINE v == r.tree
           d == u.right[m]
<1>6. d \in NullOr
  BY ONLY <1>5, TreeFields
<1>7. /\ r.node = m /\ v \in Tree
      /\ \A x \in Node : /\ v.left[x] = IF x = l THEN d ELSE u.left[x]
                         /\ v.right[x] = IF x = m THEN l ELSE u.right[x]
  BY ONLY <1>3, <1>4, <1>5, <1>6, m = u.left[l], r = rot_right(u, l), RotRightFields
<1> HIDE DEF v
<1>8. v.right[c] = l /\ v.left[c] # l /\ c # Null
  BY ONLY <1>1, <1>4, <1>5, <1>7, c \in M, l = u.right[c]
<1> QED BY ONLY <1>7, <1>8 DEF v, Relink

\* A round of fix in which fix_right is called.
LEMMA RoundFixRight ==
  ASSUME NEW t, NEW M, NEW at, NEW lo, NEW hi, NEW c, NEW a, ToFix(t, M, at, lo, hi, c, a),
         NEW u, u = update(t, c), h(t, t.right[c]) = h(t, t.left[c]) + 2,
         NEW s, s = fix_right(u, c), NEW p, p = t.parent[c],
         NEW v, v = Relink(s.tree, p, c, s.node)
  PROVE  \E lo2, hi2, c2 :
           /\ Fixed(v, M, at, lo2, hi2, c2, a) /\ v.parent[c2] = p
           /\ hi2[c2] = hi[c] /\ lo2[c2] = lo[c] /\ Rest(t, v, M)
<1> DEFINE l == t.right[c]
           m == t.left[l]
<1>1. Shape(t, M, at, lo, hi) /\ c \in M
  BY DEF ToFix
<1>2. /\ Shape(u, M, at, lo, hi) /\ SameLinks(t, u)
      /\ h(t, t.right[c]) >= 0 /\ h(t, t.left[c]) >= 0
      /\ h(t, t.right[c]) \in Int /\ h(t, t.left[c]) \in Int
      /\ \A x \in M \ {c} : h(u, x) = h(t, x)
      /\ h(u, Null) = h(t, Null)
  BY UpdatedNode
<1>3. u.right[c] = l /\ u.left[l] = m /\ u.right[l] = t.right[l]
  BY ONLY <1>2 DEF SameLinks
<1>4. l # Null
  <2>1. h(t, l) >= 2
    BY <1>2
  <2> QED BY <2>1 DEF h
<1>5. l \in M /\ t.parent[l] = c /\ hi[l] = hi[c] /\ lo[l] = at[c] + 1
  BY <1>1, <1>4, RightChild
<1>6. h(u, u.right[l]) = h(t, t.right[l]) /\ h(u, u.left[l]) = h(t, t.left[l])
  <2>1. \A q \in M : /\ t.right[q] # Null => t.right[q] \in M /\ t.parent[t.right[q]] = q
                     /\ t.left[q] # Null => t.left[q] \in M /\ t.parent[t.left[q]] = q
    BY ONLY <1>1, RightChild, LeftChild
  <2>2. t.parent[c] # l
    <3>1. t.parent[c] # Null =>
            \/ c = t.right[t.parent[c]] /\ hi[c] = hi[t.parent[c]] /\ lo[c] = at[t.parent[c]] + 1
            \/ c = t.left[t.parent[c]] /\ lo[c] = lo[t.parent[c]] /\ hi[c] = at[t.parent[c]] - 1
      BY ONLY <1>1, ParentOf
    <3>2. /\ at[c] \in Int /\ hi[c] \in Int /\ lo[c] \in Int /\ at[l] \in Int /\ hi[l] \in Int /\ lo[l] \in Int
          /\ hi[c] >= at[c] /\ at[c] >= lo[c] /\ hi[l] >= at[l] /\ at[l] >= lo[l]
      BY ONLY <1>1, <1>5, ShapeNode
    <3> HIDE DEF l
    <3> QED BY ONLY <1>4, <1>5, <3>1, <3>2
  <2>3. t.right[l] # c /\ t.left[l] # c
    <3>1. c # Null
      BY <1>1, ShapeNode
    <3> QED BY ONLY <1>5, <2>1, <2>2, <3>1
  <2>4. t.right[l] = Null \/ t.right[l] \in M \ {c}
    BY ONLY <1>5, <2>1, <2>3
  <2>5. t.left[l] = Null \/ t.left[l] \in M \ {c}
    BY ONLY <1>5, <2>1, <2>3
  <2> QED BY ONLY <1>2, <1>3, <2>4, <2>5
<1>7. h(t, t.right[l]) \in Int /\ h(t, t.left[l]) \in Int
  BY ONLY <1>1, <1>5, MemberHeights
<1> HIDE DEF l, m
<1>8. CASE h(t, t.right[l]) < h(t, t.left[l])
  <2>1. m # Null
    <3> DEFINE b == t.right[l]
    <3>1. b # Null => b \in M /\ lo[b] = at[l] + 1
      BY ONLY <1>1, <1>5, RightChild
    <3>2. /\ at[c] \in Int /\ at[l] \in Int /\ lo[l] \in Int /\ at[l] >= lo[l]
      BY ONLY <1>1, <1>5, ShapeNode
    <3> HIDE DEF b
    <3>3. b # Null => lo[b] > at[c]
      BY ONLY <1>5, <3>1, <3>2
    <3>4. b # Null => Exact(t, lo, hi, b)
      BY ONLY <3>1, <3>3, ToFix(t, M, at, lo, hi, c, a), BelowExact
    <3>5. h(t, t.right[l]) >= 0
      BY ONLY <1>1, <1>5, <3>4, RightExact DEF b
    <3>6. h(t, m) > 0
      BY ONLY <1>7, <1>8, <3>5 DEF m
    <3> QED BY ONLY <3>6 DEF h
  <2> DEFINE w == Relink(rot_right(u, l).tree, c, l, m)
  <2>2. rot_right(u, l).node = m /\ [rot_right(u, l).tree EXCEPT !.right[c] = m] = w
    BY ONLY <1>1, <1>2, <1>3, <1>4, <2>1, InnerTurnLeft
  <2>3. s = rot_left(w, c)
    BY ONLY s = fix_right(u, c), <1>3, <1>6, <1>8, <2>2 DEF fix_right
  <2> DEFINE v1 == Relink(rot_left(w, c).tree, p, c, m)
  <2>4. /\ l = t.right[c] /\ m = t.left[l] /\ w = Relink(rot_right(u, l).tree, c, l, m)
        /\ v1 = Relink(rot_left(w, c).tree, p, c, m)
    BY DEF l, m
  <2> HIDE DEF w, v1
  <2>t. TurnsRightLeft(t, c, u, l, m, w, p, v1)
    BY ONLY <1>8, <2>4, u = update(t, c), p = t.parent[c],
            h(t, t.right[c]) = h(t, t.left[c]) + 2 DEF TurnsRightLeft
  <2>5. /\ rot_left(w, c).node = m /\ v1.parent[m] = p /\ Rest(t, v1, M)
        /\ \E lo2, hi2 : Fixed(v1, M, at, lo2, hi2, m, a) /\ hi2[m] = hi[c] /\ lo2[m] = lo[c]
    BY ONLY <2>t, ToFix(t, M, at, lo, hi, c, a), RoundDoubleLeft
  <2>6. v = v1
    BY ONLY <2>3, <2>4, <2>5, v = Relink(s.tree, p, c, s.node)
  <2> QED BY ONLY <2>5, <2>6
<1>9. CASE ~ (h(t, t.right[l]) < h(t, t.left[l]))
  <2>1. h(t, t.right[l]) >= h(t, t.left[l])
    BY ONLY <1>7, <1>9
  <2>2. s = rot_left(u, c)
    BY ONLY s = fix_right(u, c), <1>3, <1>6, <1>9 DEF fix_right
  <2> DEFINE v1 == Relink(rot_left(u, c).tree, p, c, l)
  <2>3. /\ l = t.right[c] /\ v1 = Relink(rot_left(u, c).tree, p, c, l)
    BY DEF l
  <2> HIDE DEF v1
  <2>4. /\ rot_left(u, c).node = l /\ v1.parent[l] = p /\ Rest(t, v1, M)
        /\ \E lo2, hi2 : Fixed(v1, M, at, lo2, hi2, l, a) /\ hi2[l] = hi[c] /\ lo2[l] = lo[c]
    BY ONLY <2>1, <2>3, ToFix(t, M, at, lo, hi, c, a), u = update(t, c), p = t.parent[c],
            h(t, t.right[c]) = h(t, t.left[c]) + 2, RoundLeft
  <2>5. v = v1
    BY ONLY <2>2, <2>3, <2>4, v = Relink(s.tree, p, c, s.node)
  <2> QED BY ONLY <2>4, <2>5
<1> QED BY <1>8, <1>9

\* Setting the link that leads to a node to that node changes nothing.
LEMMA RelinkSame ==
  ASSUME NEW t, NEW M, NEW at, NEW lo, NEW hi, Shape(t, M, at, lo, hi), NEW c \in M,
         NEW p, p = t.parent[c]
  PROVE  Relink(t, p, c, c) = t
<1>1. t \in Tree /\ c # Null /\ UpShape(t, M, c) /\ Null \notin M
  BY ShapeNode DEF Shape
<1>2. p = Null => c = t.root
  BY <1>1 DEF UpShape
<1>3. p # Null => c = t.left[p] \/ c = t.right[p]
  BY <1>1 DEF UpShape
<1>4. t = [t EXCEPT !.root = t.root] /\ t = [t EXCEPT !.left[p] = t.left[p]]
      /\ t = [t EXCEPT !.right[p] = t.right[p]]
  BY <1>1 DEF Tree
<1> QED BY ONLY <1>2, <1>3, <1>4 DEF Relink

\* A round of fix leaves the node and the whole subtree in its place exact.
LEMMA RoundOfFix ==
  ASSUME NEW t, NEW M, NEW at, NEW lo, NEW hi, NEW c, NEW a, ToFix(t, M, at, lo, hi, c, a),
         NEW v, v = FixRound(t, c).tree
  PROVE  /\ FixRound(t, c).node = t.parent[c] /\ Rest(t, v, M)
         /\ \E lo2, hi2, c2 : /\ Fixed(v, M, at, lo2, hi2, c2, a) /\ v.parent[c2] = t.parent[c]
                              /\ lo2[c2] = lo[c] /\ hi2[c2] = hi[c]
<1> DEFINE u == update(t, c)
           p == t.parent[c]
           x == h(u, u.left[c])
           y == h(u, u.right[c])
           fixed == IF x = y + 2 THEN fix_left(u, c)
                    ELSE IF x + 2 = y THEN fix_right(u, c)
                    ELSE [tree |-> u, node |-> c]
<1>1. FixRound(t, c).node = p /\ v = Relink(fixed.tree, p, c, fixed.node)
  BY DEF FixRound
<1>2. /\ Shape(t, M, at, lo, hi) /\ c \in M /\ a \in Int
      /\ Loosened(h(t, t.left[c]), h(t, t.right[c]), a)
  BY DEF ToFix
<1>3. /\ Shape(u, M, at, lo, hi) /\ SameLinks(t, u)
      /\ h(t, t.left[c]) \in Int /\ h(t, t.right[c]) \in Int
      /\ \A z \in M \ {c} : h(u, z) = h(t, z)
      /\ h(u, Null) = h(t, Null)
  BY UpdatedNode
<1>4. x = h(t, t.left[c]) /\ y = h(t, t.right[c])
  <2>1. t.left[c] \in (M \ {c}) \cup {Null} /\ t.right[c] \in (M \ {c}) \cup {Null}
    BY ONLY <1>2, ShapeNode, LeftChild, RightChild
  <2>2. u.left[c] = t.left[c] /\ u.right[c] = t.right[c]
    BY ONLY <1>3 DEF SameLinks
  <2> QED BY ONLY <1>3, <2>1, <2>2
<1>5. x \in Int /\ y \in Int
  BY ONLY <1>3, <1>4
<1> HIDE DEF x, y
<1>6. CASE x = y + 2
  <2> DEFINE s == fix_left(u, c)
             w == Relink(s.tree, p, c, s.node)
  <2>1. v = w
    BY ONLY <1>1, <1>6
  <2>2. h(t, t.left[c]) = h(t, t.right[c]) + 2
    BY ONLY <1>4, <1>6
  <2>3. \E lo2, hi2, c2 :
           /\ Fixed(w, M, at, lo2, hi2, c2, a) /\ w.parent[c2] = p
           /\ lo2[c2] = lo[c] /\ hi2[c2] = hi[c] /\ Rest(t, w, M)
    BY ONLY <2>2, ToFix(t, M, at, lo, hi, c, a), RoundFixLeft
  <2> HIDE DEF w
  <2> QED BY ONLY <1>1, <2>1, <2>3
<1>7. CASE x + 2 = y
  <2> DEFINE s == fix_right(u, c)
             w == Relink(s.tree, p, c, s.node)
  <2>0. ~ (x = y + 2)
    BY ONLY <1>5, <1>7
  <2>1. v = w
    BY ONLY <1>1, <1>7, <2>0
  <2>2. h(t, t.right[c]) = h(t, t.left[c]) + 2
    BY ONLY <1>4, <1>7
  <2>3. \E lo2, hi2, c2 :
           /\ Fixed(w, M, at, lo2, hi2, c2, a) /\ w.parent[c2] = p
           /\ lo2[c2] = lo[c] /\ hi2[c2] = hi[c] /\ Rest(t, w, M)
    BY ONLY <2>2, ToFix(t, M, at, lo, hi, c, a), RoundFixRight
  <2> HIDE DEF w
  <2> QED BY ONLY <1>1, <2>1, <2>3
<1>8. CASE ~ (x = y + 2) /\ ~ (x + 2 = y)
  <2>1. Within(h(t, t.left[c]), h(t, t.right[c]))
    BY ONLY <1>2, <1>3, <1>4, <1>8 DEF Loosened, Within
  <2>2. Fixed(u, M, at, lo, hi, c, a) /\ Rest(t, u, M)
    BY ONLY <2>1, ToFix(t, M, at, lo, hi, c, a), RoundPlain
  <2>3. v = Relink(u, p, c, c)
    BY ONLY <1>1, <1>8
  <2>4. u.parent[c] = p
    BY ONLY <1>3 DEF SameLinks
  <2>5. Relink(u, p, c, c) = u
    BY ONLY <1>2, <1>3, <2>4, RelinkSame
  <2> HIDE DEF u
  <2> QED BY ONLY <1>1, <2>2, <2>3, <2>4, <2>5
<1> QED BY <1>6, <1>7, <1>8

\* The members have these places, and every height and count is right.
Sound(t, M, at) ==
  \E lo, hi : Shape(t, M, at, lo, hi) /\ \A n \in M : Exact(t, lo, hi, n)

\* fix is at c, whose subtree has more than k nodes.
Fixing(t, M, at, c, k) ==
  \E lo, hi, a : ToFix(t, M, at, lo, hi, c, a) /\ hi[c] - lo[c] >= k

\* The fields outside the tree stay as they are from round to round.
LEMMA RestChain ==
  ASSUME NEW t, NEW u, NEW v, NEW M, Rest(t, u, M), Rest(u, v, M)
  PROVE  Rest(t, v, M)
BY DEF Rest

\* A round of fix comes to the end or to a larger subtree.
LEMMA FixGoesUp ==
  ASSUME NEW t, NEW M, NEW at, NEW c, NEW k \in Nat, Fixing(t, M, at, c, k),
         NEW s, s = FixRound(t, c)
  PROVE  /\ Rest(t, s.tree, M)
         /\ s.node = Null => Sound(s.tree, M, at)
         /\ s.node # Null => Fixing(s.tree, M, at, s.node, k + 1)
<1>1. PICK lo, hi, a : ToFix(t, M, at, lo, hi, c, a) /\ hi[c] - lo[c] >= k
  BY DEF Fixing
<1>2. s.node = t.parent[c] /\ Rest(t, s.tree, M)
  BY ONLY <1>1, s = FixRound(t, c), RoundOfFix
<1>3. PICK lo2, hi2, c2 :
        /\ Fixed(s.tree, M, at, lo2, hi2, c2, a) /\ s.tree.parent[c2] = t.parent[c]
        /\ lo2[c2] = lo[c] /\ hi2[c2] = hi[c]
  BY ONLY <1>1, s = FixRound(t, c), RoundOfFix
<1>4. Shape(s.tree, M, at, lo2, hi2) /\ c2 \in M
  BY ONLY <1>3 DEF Fixed
<1>5. CASE s.node = Null
  <2>1. \A n \in M : Exact(s.tree, lo2, hi2, n)
    BY ONLY <1>2, <1>3, <1>5, FixedTop
  <2> QED BY ONLY <1>2, <1>4, <1>5, <2>1 DEF Sound
<1>6. CASE s.node # Null
  <2> DEFINE p == s.node
  <2>1. ToFix(s.tree, M, at, lo2, hi2, p, s.tree.height[p])
    BY ONLY <1>2, <1>3, <1>6, FixedUp
  <2>2. /\ p \in M
        /\ \/ lo2[c2] = lo2[p] /\ hi2[c2] = at[p] - 1
           \/ hi2[c2] = hi2[p] /\ lo2[c2] = at[p] + 1
    BY ONLY <1>2, <1>3, <1>4, <1>6, ParentOf
  <2>3. /\ at[p] \in Int /\ lo2[p] \in Int /\ hi2[p] \in Int
        /\ lo2[p] <= at[p] /\ at[p] <= hi2[p] /\ lo2[c2] \in Int /\ hi2[c2] \in Int
    BY ONLY <1>4, <2>2, ShapeNode
  <2>4. hi2[p] - lo2[p] >= k + 1
    BY ONLY <1>1, <1>3, <2>2, <2>3, k \in Nat
  <2>5. Fixing(s.tree, M, at, p, k + 1)
    BY ONLY <2>1, <2>4 DEF Fixing
  <2> QED BY ONLY <1>2, <1>6, <2>5
<1> QED BY <1>5, <1>6

\* fix ends with the root, and then the whole tree is exact.
LEMMA FixEnds ==
  ASSUME NEW t, NEW M, NEW at, NEW lo, NEW hi, NEW c, NEW a, ToFix(t, M, at, lo, hi, c, a),
         NEW v, v = fix(t, c)
  PROVE  Sound(v, M, at) /\ Rest(t, v, M)
<1> DEFINE round == [s \in [tree : Tree, node : NullOr] |->
                       IF s.node = Null THEN s ELSE FixRound(s.tree, s.node)]
           At(k) == Iterate(round, [tree |-> t, node |-> c], k)
           N == PathBound
           P == {k \in 0 .. N :
                   /\ Rest(t, At(k).tree, M) /\ At(k) \in [tree : Tree, node : NullOr]
                   /\ At(k).node = Null => Sound(At(k).tree, M, at)
                   /\ At(k).node # Null => Fixing(At(k).tree, M, at, At(k).node, k)}
<1>1. v = At(N).tree
  BY DEF fix
<1>2. At(0) = [tree |-> t, node |-> c] /\ \A k \in Nat \ {0} : At(k) = round[At(k - 1)]
  <2> DEFINE first == [tree |-> t, node |-> c]
  <2>1. \A r, s : /\ Iterate(r, s, 0) = s
                  /\ \A k \in Nat \ {0} : Iterate(r, s, k) = r[Iterate(r, s, k - 1)]
    BY ONLY IterateSteps
  <2> HIDE DEF first, round
  <2>2. /\ Iterate(round, first, 0) = first
        /\ \A k \in Nat \ {0} : Iterate(round, first, k) = round[Iterate(round, first, k - 1)]
    BY ONLY <2>1, Zenon
  <2> QED BY ONLY <2>2, Zenon DEF first
<1>3. Shape(t, M, at, lo, hi) /\ c \in M
  BY DEF ToFix
<1>4. /\ t \in Tree /\ c \in Node /\ c # Null /\ N \in Nat /\ lo[c] \in Int /\ hi[c] \in Int
      /\ lo[c] <= hi[c] /\ Cardinality(M) \in Nat /\ Cardinality(M) <= N /\ M \subseteq Node
  BY <1>3, ShapeNode, ShapeSize DEF Shape
<1> HIDE DEF At
<1>5. 0 \in P
  <2>1. Fixing(t, M, at, c, 0)
    <3>1. hi[c] - lo[c] >= 0
      BY ONLY <1>4
    <3> QED BY ONLY <3>1, ToFix(t, M, at, lo, hi, c, a) DEF Fixing
  <2>2. Rest(t, t, M)
    BY DEF Rest
  <2>3. At(0).tree = t /\ At(0).node = c /\ At(0) \in [tree : Tree, node : NullOr]
    BY <1>2, <1>4 DEF NullOr
  <2>4. 0 \in 0 .. N
    BY <1>4
  <2> QED BY ONLY <1>4, <2>1, <2>2, <2>3, <2>4
<1>6. ASSUME NEW k \in 1 .. N, k - 1 \in P PROVE k \in P
  <2> DEFINE s == At(k - 1)
  <2>1. /\ Rest(t, s.tree, M) /\ s \in [tree : Tree, node : NullOr]
        /\ s.node = Null => Sound(s.tree, M, at)
        /\ s.node # Null => Fixing(s.tree, M, at, s.node, k - 1)
    BY <1>6
  <2>2. k \in Nat \ {0} /\ k \in 0 .. N /\ k - 1 \in Nat /\ k - 1 + 1 = k
    BY <1>4
  <2>3. At(k) = round[s]
    BY <1>2, <2>2
  <2> HIDE DEF s
  <2>4. At(k) = IF s.node = Null THEN s ELSE FixRound(s.tree, s.node)
    BY <2>1, <2>3
  <2>5. CASE s.node = Null
    <3>1. At(k) = s
      BY ONLY <2>4, <2>5
    <3> QED BY ONLY <2>1, <2>2, <2>5, <3>1
  <2>6. CASE s.node # Null
    <3>1. At(k) = FixRound(s.tree, s.node)
      BY ONLY <2>4, <2>6
    <3> DEFINE z == At(k)
    <3>2. /\ Rest(s.tree, z.tree, M)
          /\ z.node = Null => Sound(z.tree, M, at)
          /\ z.node # Null => Fixing(z.tree, M, at, z.node, k - 1 + 1)
      BY ONLY <2>1, <2>2, <2>6, <3>1, FixGoesUp
    <3>3. Rest(t, z.tree, M)
      BY ONLY <2>1, <3>2, RestChain
    <3>4. z = [tree |-> z.tree, node |-> z.node]
      <4> HIDE DEF z
      <4> QED BY <3>1 DEF FixRound, z
    <3>5. z.tree \in Tree /\ z.node \in NullOr
      <4>1. CASE z.node = Null
        BY ONLY <3>2, <4>1 DEF Sound, Shape, NullOr
      <4>2. CASE z.node # Null
        BY ONLY <1>4, <3>2, <4>2 DEF Fixing, ToFix, Shape, NullOr
      <4> QED BY ONLY <4>1, <4>2
    <3>6. z \in [tree : Tree, node : NullOr]
      BY ONLY <3>4, <3>5
    <3> QED BY ONLY <2>2, <3>2, <3>3, <3>6
  <2> QED BY <2>5, <2>6
<1>7. N \in P
  <2> HIDE DEF P, N
  <2>1. \A i \in 0 .. N : i \in P
    BY ONLY <1>4, <1>5, <1>6, UpToInduction
  <2> QED BY ONLY <1>4, <2>1
<1>8. At(N).node = Null
  <2> SUFFICES ASSUME At(N).node # Null PROVE FALSE
    OBVIOUS
  <2> DEFINE z == At(N).tree
             d == At(N).node
  <2>1. Fixing(z, M, at, d, N)
    BY <1>7
  <2> HIDE DEF z, d
  <2>2. PICK lo2, hi2, a2 : ToFix(z, M, at, lo2, hi2, d, a2) /\ hi2[d] - lo2[d] >= N
    BY <2>1 DEF Fixing
  <2>3. Shape(z, M, at, lo2, hi2) /\ d \in M
    BY ONLY <2>2 DEF ToFix
  <2>4. 1 <= lo2[d] /\ hi2[d] <= Cardinality(M) /\ lo2[d] \in Int /\ hi2[d] \in Int
    BY ONLY <2>3, ShapeNode
  <2> QED BY ONLY <1>4, <2>2, <2>4
<1> QED BY <1>1, <1>7, <1>8

-----------------------------------------------------------------------------
(* Joining a new leaf to the tree. *)

\* Places from k on move one further, and n has the place j.
Opened(f, n, j, k) ==
  [x \in Node |-> IF x = n THEN j ELSE IF f[x] >= k THEN f[x] + 1 ELSE f[x]]

\* What that makes of places.
LEMMA OpenedAt ==
  ASSUME NEW f \in Places, NEW n \in Node, NEW j \in Int, NEW k \in Int,
         NEW g, g = Opened(f, n, j, k)
  PROVE  /\ g \in Places /\ g[n] = j
         /\ \A x \in Node : x # n => g[x] \in Int /\ f[x] \in Int
         /\ \A x \in Node : x # n => g[x] = IF f[x] >= k THEN f[x] + 1 ELSE f[x]
BY DEF Opened, Places

\* v is t with the new leaf n below p, at the place j.
Joined(t, v, at, n, p, j) ==
  /\ v.root = t.root /\ v.height = t.height /\ v.count = t.count
  /\ \A x \in Node : v.parent[x] = IF x = n THEN p ELSE t.parent[x]
  /\ t.left[n] = Null /\ t.right[n] = Null
  /\ \/ /\ j = at[p] /\ t.left[p] = Null
        /\ \A x \in Node : /\ v.left[x] = IF x = p THEN n ELSE t.left[x]
                           /\ v.right[x] = t.right[x]
     \/ /\ j = at[p] + 1 /\ t.right[p] = Null
        /\ \A x \in Node : /\ v.right[x] = IF x = p THEN n ELSE t.right[x]
                           /\ v.left[x] = t.left[x]

\* The numbers of one member before and after.
LEMMA JoinedNumbers ==
  ASSUME NEW a \in Int, NEW l \in Int, NEW r \in Int, NEW i \in Int, NEW j \in Int,
         NEW a2, NEW l2, NEW r2, j = i \/ j = i + 1, l <= a, a <= r,
         a2 = (IF a >= j THEN a + 1 ELSE a),
         l2 = (IF l >= i + 1 THEN l + 1 ELSE l),
         r2 = (IF r >= i THEN r + 1 ELSE r)
  PROVE  /\ a2 \in Int /\ l2 \in Int /\ r2 \in Int
         /\ l2 <= a2 /\ a2 <= r2 /\ l <= l2 /\ r2 <= r + 1 /\ a2 # j
         /\ ~ (l2 <= j /\ j <= r2) => r2 - l2 = r - l
         /\ l <= i /\ i <= r => l2 = l /\ r2 = r + 1 /\ l2 <= j /\ j <= r2
OBVIOUS

\* The shape with the new leaf.
LEMMA JoinedShape ==
  ASSUME NEW t, NEW M, NEW at, NEW lo, NEW hi, Shape(t, M, at, lo, hi),
         NEW n \in Node, n \notin M, NEW p \in M, NEW j, NEW v \in Tree, Joined(t, v, at, n, p, j),
         NEW at2, at2 = Opened(at, n, j, j),
         NEW lo2, lo2 = Opened(lo, n, j, at[p] + 1),
         NEW hi2, hi2 = Opened(hi, n, j, at[p])
  PROVE  Shape(v, M \cup {n}, at2, lo2, hi2)
<1> DEFINE i == at[p]
           M2 == M \cup {n}
           N == Cardinality(M)
<1>1. /\ at \in Places /\ lo \in Places /\ hi \in Places /\ M \subseteq Node /\ t \in Tree
      /\ p \in Node /\ Null \notin M2 /\ n # Null /\ p # Null
      /\ i \in Int /\ j \in Int /\ (j = i \/ j = i + 1)
  BY ShapeNode, NodeAssumption DEF Shape, Joined, Places
<1>2. N \in Nat /\ Cardinality(M2) = N + 1
  BY ShapeSize, FS_AddElement
<1>3. /\ at2 \in Places /\ lo2 \in Places /\ hi2 \in Places
      /\ at2[n] = j /\ lo2[n] = j /\ hi2[n] = j
      /\ \A x \in M : /\ at2[x] = (IF at[x] >= j THEN at[x] + 1 ELSE at[x])
                      /\ lo2[x] = (IF lo[x] >= i + 1 THEN lo[x] + 1 ELSE lo[x])
                      /\ hi2[x] = (IF hi[x] >= i THEN hi[x] + 1 ELSE hi[x])
  <2>1. i + 1 \in Int
    BY <1>1
  <2>2. at2 \in Places /\ at2[n] = j /\ \A x \in Node : x # n => at2[x] = IF at[x] >= j THEN at[x] + 1 ELSE at[x]
    BY ONLY <1>1, n \in Node, at2 = Opened(at, n, j, j), OpenedAt
  <2>3. lo2 \in Places /\ lo2[n] = j /\ \A x \in Node : x # n => lo2[x] = IF lo[x] >= i + 1 THEN lo[x] + 1 ELSE lo[x]
    BY ONLY <1>1, <2>1, n \in Node, lo2 = Opened(lo, n, j, at[p] + 1), OpenedAt
  <2>4. hi2 \in Places /\ hi2[n] = j /\ \A x \in Node : x # n => hi2[x] = IF hi[x] >= i THEN hi[x] + 1 ELSE hi[x]
    BY ONLY <1>1, n \in Node, hi2 = Opened(hi, n, j, at[p]), OpenedAt
  <2> QED BY ONLY <1>1, <2>2, <2>3, <2>4, n \notin M
<1>4. \A x \in M : /\ at[x] \in Int /\ lo[x] \in Int /\ hi[x] \in Int
                   /\ 1 <= lo[x] /\ lo[x] <= at[x] /\ at[x] <= hi[x] /\ hi[x] <= N
  BY ShapeNode
<1>5. \A x \in M : /\ at2[x] \in Int /\ lo2[x] \in Int /\ hi2[x] \in Int
                   /\ 1 <= lo2[x] /\ lo2[x] <= at2[x] /\ at2[x] <= hi2[x] /\ hi2[x] <= N + 1
  BY ONLY <1>1, <1>2, <1>3, <1>4, JoinedNumbers
<1>6. \A x \in M : x # p => at[x] # i
  BY DEF Shape
<1> HIDE DEF i, N, M2
<1>7. ASSUME NEW x \in M PROVE LeftShape(v, M2, at2, lo2, hi2, x)
  <2>1. /\ x \in Node /\ x # n /\ LeftShape(t, M, at, lo, hi, x)
        /\ \A q \in M : q \in M2
    BY <1>1, ShapeNode DEF M2
  <2>2. CASE v.left[x] = t.left[x] /\ (x # p \/ j = i + 1 \/ t.left[x] # Null)
    <3>1. CASE t.left[x] = Null
      <4>1. lo[x] = at[x] /\ (x # p \/ j = i + 1)
        BY <2>1, <2>2, <3>1 DEF LeftShape
      <4>2. lo2[x] = at2[x]
        BY ONLY <1>1, <1>3, <1>4, <1>6, <4>1, x \in M DEF i
      <4> QED BY ONLY <2>2, <3>1, <4>2 DEF LeftShape
    <3>2. CASE t.left[x] # Null
      <4> DEFINE y == t.left[x]
      <4>1. y \in M /\ t.parent[y] = x /\ lo[y] = lo[x] /\ hi[y] = at[x] - 1
        BY <2>1, <3>2 DEF LeftShape
      <4>2. y # n /\ y \in Node /\ v.parent[y] = x
        BY <1>1, <4>1 DEF Joined
      <4>3. x # p \/ j = i + 1
        BY <2>2, <3>2 DEF Joined, i
      <4> HIDE DEF y
      <4>4. lo2[y] = lo2[x]
        BY ONLY <1>3, <4>1, x \in M
      <4>5. hi2[y] = at2[x] - 1
        BY ONLY <1>1, <1>3, <1>4, <1>6, <4>1, <4>3, x \in M DEF i
      <4> QED BY ONLY <2>1, <2>2, <3>2, <4>1, <4>2, <4>4, <4>5 DEF LeftShape, y
    <3> QED BY <3>1, <3>2
  <2>3. CASE x = p /\ v.left[p] = n /\ j = i /\ t.left[p] = Null
    <3>1. lo[p] = at[p]
      BY ONLY <2>1, <2>3 DEF LeftShape
    <3>2. v.parent[n] = p /\ n \in M2
      BY DEF Joined, M2
    <3>3. lo2[n] = lo2[p] /\ hi2[n] = at2[p] - 1
      BY ONLY <1>1, <1>3, <2>3, <3>1, p \in M DEF i
    <3> QED BY ONLY <1>1, <2>3, <3>2, <3>3 DEF LeftShape
  <2> QED BY <2>1, <2>2, <2>3 DEF Joined, i
<1>8. ASSUME NEW x \in M PROVE RightShape(v, M2, at2, lo2, hi2, x)
  <2>1. /\ x \in Node /\ x # n /\ RightShape(t, M, at, lo, hi, x)
        /\ \A q \in M : q \in M2
    BY <1>1, ShapeNode DEF M2
  <2>2. CASE v.right[x] = t.right[x] /\ (x # p \/ j = i \/ t.right[x] # Null)
    <3>1. CASE t.right[x] = Null
      <4>1. hi[x] = at[x] /\ (x # p \/ j = i)
        BY <2>1, <2>2, <3>1 DEF RightShape
      <4>2. hi2[x] = at2[x]
        BY ONLY <1>1, <1>3, <1>4, <1>6, <4>1, x \in M DEF i
      <4> QED BY ONLY <2>2, <3>1, <4>2 DEF RightShape
    <3>2. CASE t.right[x] # Null
      <4> DEFINE y == t.right[x]
      <4>1. y \in M /\ t.parent[y] = x /\ hi[y] = hi[x] /\ lo[y] = at[x] + 1
        BY <2>1, <3>2 DEF RightShape
      <4>2. y # n /\ y \in Node /\ v.parent[y] = x
        BY <1>1, <4>1 DEF Joined
      <4>3. x # p \/ j = i
        BY <2>2, <3>2 DEF Joined, i
      <4> HIDE DEF y
      <4>4. hi2[y] = hi2[x]
        BY ONLY <1>3, <4>1, x \in M
      <4>5. lo2[y] = at2[x] + 1
        BY ONLY <1>1, <1>3, <1>4, <1>6, <4>1, <4>3, x \in M DEF i
      <4> QED BY ONLY <2>1, <2>2, <3>2, <4>1, <4>2, <4>4, <4>5 DEF RightShape, y
    <3> QED BY <3>1, <3>2
  <2>3. CASE x = p /\ v.right[p] = n /\ j = i + 1 /\ t.right[p] = Null
    <3>1. hi[p] = at[p]
      BY ONLY <2>1, <2>3 DEF RightShape
    <3>2. v.parent[n] = p /\ n \in M2
      BY DEF Joined, M2
    <3>3. hi2[n] = hi2[p] /\ lo2[n] = at2[p] + 1
      BY ONLY <1>1, <1>3, <2>3, <3>1, p \in M DEF i
    <3> QED BY ONLY <1>1, <2>3, <3>2, <3>3 DEF RightShape
  <2> QED BY <2>1, <2>2, <2>3 DEF Joined, i
<1>9. ASSUME NEW x \in M PROVE UpShape(v, M2, x)
  <2>1. x \in Node /\ x # n /\ UpShape(t, M, x)
    BY <1>1, ShapeNode
  <2>2. v.parent[x] = t.parent[x] /\ v.root = t.root
    BY <2>1 DEF Joined
  <2>3. CASE t.parent[x] = Null
    BY <2>1, <2>2, <2>3 DEF UpShape
  <2>4. CASE t.parent[x] # Null
    <3> DEFINE q == t.parent[x]
    <3>1. q \in M /\ x # t.root /\ x \in {t.left[q], t.right[q]}
      BY <2>1, <2>4 DEF UpShape
    <3>2. q \in Node /\ q \in M2 /\ x # Null
      BY <1>1, <3>1 DEF M2
    <3> HIDE DEF q
    <3>3. x \in {v.left[q], v.right[q]}
      BY <3>1, <3>2 DEF Joined
    <3> QED BY ONLY <2>2, <2>4, <3>1, <3>2, <3>3 DEF UpShape, q
  <2> QED BY <2>3, <2>4
<1>10. NodeShape(v, M2, at2, lo2, hi2, n)
  <2>1. v.left[n] = Null /\ v.right[n] = Null /\ v.parent[n] = p /\ n \in {v.left[p], v.right[p]}
    BY <1>1 DEF Joined
  <2>2. n # t.root
    BY <1>1 DEF Shape, RootShape
  <2>3. v.root = t.root /\ p \in M2
    BY DEF Joined, M2
  <2>4. 1 <= lo2[n] /\ lo2[n] <= at2[n] /\ at2[n] <= hi2[n] /\ hi2[n] <= Cardinality(M2)
    <3>1. 1 <= i /\ i <= N
      BY ONLY <1>4, <1>1, p \in M, <1>2 DEF i
    <3> QED BY ONLY <1>1, <1>2, <1>3, <3>1
  <2>5. LeftShape(v, M2, at2, lo2, hi2, n) /\ RightShape(v, M2, at2, lo2, hi2, n)
    BY ONLY <1>3, <2>1 DEF LeftShape, RightShape
  <2>6. UpShape(v, M2, n)
    BY ONLY <1>1, <2>1, <2>2, <2>3 DEF UpShape
  <2> QED BY ONLY <2>4, <2>5, <2>6 DEF NodeShape
<1>11. RootShape(v, M2, lo2, hi2)
  <2>1. t.root \in M /\ lo[t.root] = 1 /\ hi[t.root] = N /\ t.root # Null
    <3>1. M # {}
      OBVIOUS
    <3> QED BY <1>1, <3>1 DEF Shape, RootShape, N, M2
  <2>2. 1 <= i /\ i <= N
    BY ONLY <1>4, <1>1, p \in M, <1>2 DEF i
  <2>3. lo2[t.root] = 1 /\ hi2[t.root] = N + 1
    BY ONLY <1>1, <1>2, <1>3, <2>1, <2>2
  <2>4. v.root = t.root
    BY DEF Joined
  <2> QED BY ONLY <1>2, <2>1, <2>3, <2>4 DEF RootShape, M2
<1>12. ASSUME NEW x \in M2, NEW y \in M2, at2[x] = at2[y] PROVE x = y
  <2>1. CASE x \in M /\ y \in M
    <3>1. at[x] = at[y]
      BY ONLY <1>1, <1>3, <1>4, <1>12, <2>1
    <3> QED BY <2>1, <3>1 DEF Shape
  <2>2. CASE x = n
    <3>1. y \in M => at2[y] # j
      BY ONLY <1>1, <1>3, <1>4
    <3> QED BY ONLY <1>3, <1>12, <2>2, <3>1 DEF M2
  <2>3. CASE y = n
    <3>1. x \in M => at2[x] # j
      BY ONLY <1>1, <1>3, <1>4
    <3> QED BY ONLY <1>3, <1>12, <2>3, <3>1 DEF M2
  <2> QED BY <2>1, <2>2, <2>3 DEF M2
<1>13. \A x \in M : NodeShape(v, M2, at2, lo2, hi2, x)
  BY ONLY <1>2, <1>5, <1>7, <1>8, <1>9 DEF NodeShape
<1>14. \A x \in M2 : NodeShape(v, M2, at2, lo2, hi2, x)
  BY ONLY <1>10, <1>13 DEF M2
<1>15. M2 \in SUBSET Node
  BY <1>1 DEF M2
<1>16. Shape(v, M2, at2, lo2, hi2)
  BY ONLY <1>3, <1>11, <1>12, <1>14, <1>15, v \in Tree DEF Shape
<1> QED BY ONLY <1>16 DEF M2

\* fix has to begin at the new leaf.
LEMMA JoinedToFix ==
  ASSUME NEW t, NEW M, NEW at, Sound(t, M, at),
         NEW n \in Node, n \notin M, NEW p \in M, NEW j, NEW v \in Tree, Joined(t, v, at, n, p, j),
         NEW at2, at2 = Opened(at, n, j, j)
  PROVE  \E lo2, hi2 : ToFix(v, M \cup {n}, at2, lo2, hi2, n, 0)
<1>1. PICK lo, hi : Shape(t, M, at, lo, hi) /\ \A x \in M : Exact(t, lo, hi, x)
  BY DEF Sound
<1>2. PICK lo2, hi2 : lo2 = Opened(lo, n, j, at[p] + 1) /\ hi2 = Opened(hi, n, j, at[p])
  OBVIOUS
<1> DEFINE M2 == M \cup {n}
           i == at[p]
<1>3. Shape(v, M2, at2, lo2, hi2)
  BY ONLY <1>1, <1>2, n \in Node, n \notin M, p \in M, v \in Tree, Joined(t, v, at, n, p, j),
          at2 = Opened(at, n, j, j), JoinedShape
<1>4. /\ lo \in Places /\ hi \in Places /\ M \subseteq Node /\ p \in Node
      /\ Null \notin M /\ n # Null /\ i \in Int /\ j \in Int /\ (j = i \/ j = i + 1)
  BY <1>1, ShapeNode, NodeAssumption DEF Shape, Joined, Places
<1>5. /\ at2[n] = j
      /\ \A x \in M : /\ lo2[x] = (IF lo[x] >= i + 1 THEN lo[x] + 1 ELSE lo[x])
                      /\ hi2[x] = (IF hi[x] >= i THEN hi[x] + 1 ELSE hi[x])
  <2>1. i + 1 \in Int /\ at \in Places
    BY <1>1, <1>4 DEF Shape
  <2>2. at2[n] = j
    BY ONLY n \in Node, at2 = Opened(at, n, j, j) DEF Opened
  <2>3. \A x \in Node : x # n => lo2[x] = IF lo[x] >= i + 1 THEN lo[x] + 1 ELSE lo[x]
    BY ONLY <1>2, <1>4, <2>1, n \in Node, OpenedAt
  <2>4. \A x \in Node : x # n => hi2[x] = IF hi[x] >= i THEN hi[x] + 1 ELSE hi[x]
    BY ONLY <1>2, <1>4, n \in Node, OpenedAt
  <2> QED BY ONLY <1>4, <2>2, <2>3, <2>4, n \notin M
<1>6. \A x \in M : /\ at[x] \in Int /\ lo[x] \in Int /\ hi[x] \in Int
                   /\ lo[x] <= at[x] /\ at[x] <= hi[x]
  BY <1>1, ShapeNode
<1> HIDE DEF i
<1>7. ASSUME NEW y, y # n PROVE h(v, y) = h(t, y)
  BY <1>7 DEF h, Joined
<1>8. ASSUME NEW x \in M, x # p PROVE v.left[x] = t.left[x] /\ v.right[x] = t.right[x]
  BY <1>4, <1>8 DEF Joined
<1>9. \A x \in M : t.left[x] # n /\ t.right[x] # n
  BY <1>1, <1>4, ShapeNode
<1>10. Loosened(h(v, v.left[n]), h(v, v.right[n]), 0)
  <2>1. v.left[n] = Null /\ v.right[n] = Null
    BY <1>4 DEF Joined
  <2> QED BY ONLY <2>1 DEF h, Loosened, Within, Larger
<1>11. ASSUME NEW x \in M2, ~ Above(at2, lo2, hi2, x, n) PROVE Exact(v, lo2, hi2, x)
  <2>1. x # n
    <3>1. lo2[n] <= at2[n] /\ at2[n] <= hi2[n]
      BY ONLY <1>3, ShapeNode
    <3> QED BY ONLY <1>11, <3>1 DEF Above
  <2>2. x \in M
    BY <2>1
  <2>3. ~ (lo2[x] <= j /\ j <= hi2[x])
    BY ONLY <1>5, <1>11 DEF Above
  <2>4. hi2[x] - lo2[x] = hi[x] - lo[x] /\ ~ (lo[x] <= i /\ i <= hi[x])
    BY ONLY <1>4, <1>5, <1>6, <2>2, <2>3
  <2>5. x # p
    BY ONLY <1>6, <2>4, p \in M DEF i
  <2>6. v.left[x] = t.left[x] /\ v.right[x] = t.right[x]
    BY ONLY <1>8, <2>2, <2>5
  <2>7. h(v, v.left[x]) = h(t, t.left[x]) /\ h(v, v.right[x]) = h(t, t.right[x])
    BY ONLY <1>7, <1>9, <2>2, <2>6
  <2>8. v.height = t.height /\ v.count = t.count
    BY DEF Joined
  <2>9. Exact(t, lo, hi, x) /\ hi2[x] - lo2[x] + 1 = hi[x] - lo[x] + 1
    BY ONLY <1>1, <2>2, <2>4
  <2> QED BY ONLY <2>7, <2>8, <2>9 DEF Exact
<1>12. ASSUME NEW x \in M2, x # n PROVE Outdated(v, n, 0, x)
  <2>1. x \in M
    BY <1>12
  <2>2. /\ t.height[x] = Larger(h(t, t.left[x]), h(t, t.right[x])) + 1
        /\ Within(h(t, t.left[x]), h(t, t.right[x]))
    BY ONLY <1>1, <2>1 DEF Exact
  <2>3. \A y : y # n => OldHeight(v, n, 0, y) = h(t, y)
    BY ONLY <1>7 DEF OldHeight
  <2>4. OldHeight(v, n, 0, n) = h(t, Null)
    BY DEF OldHeight, h
  <2>5. v.height = t.height
    BY DEF Joined
  <2>6. OldHeight(v, n, 0, v.left[x]) = h(t, t.left[x]) /\ OldHeight(v, n, 0, v.right[x]) = h(t, t.right[x])
    <3>1. CASE x # p
      BY ONLY <1>8, <1>9, <2>1, <2>3, <3>1
    <3>2. CASE x = p
      <4>1. \/ v.left[p] = n /\ t.left[p] = Null /\ v.right[p] = t.right[p]
            \/ v.right[p] = n /\ t.right[p] = Null /\ v.left[p] = t.left[p]
        BY <1>4 DEF Joined
      <4> QED BY ONLY <1>9, <2>3, <2>4, <3>2, <4>1, p \in M
    <3> QED BY <3>1, <3>2
  <2> QED BY ONLY <2>2, <2>5, <2>6 DEF Outdated
<1>13. ToFix(v, M2, at2, lo2, hi2, n, 0)
  <2>1. n \in M2 /\ 0 \in Int
    OBVIOUS
  <2> HIDE DEF M2
  <2> QED BY ONLY <1>3, <1>10, <1>11, <1>12, <2>1 DEF ToFix
<1> QED BY ONLY <1>13

\* The first node of a tree.
LEMMA FirstToFix ==
  ASSUME NEW n \in Node, NEW t \in Tree, t.left[n] = Null, t.right[n] = Null, t.parent[n] = Null,
         t.root = n, NEW at \in Places, at[n] = 1
  PROVE  ToFix(t, {n}, at, at, at, n, 0)
<1>1. Cardinality({n}) = 1 /\ n # Null
  BY FS_Singleton, NodeAssumption
<1>2. NodeShape(t, {n}, at, at, at, n)
  BY ONLY <1>1, at[n] = 1, t.left[n] = Null, t.right[n] = Null, t.parent[n] = Null, t.root = n
     DEF NodeShape, LeftShape, RightShape, UpShape
<1>3. RootShape(t, {n}, at, at)
  BY ONLY <1>1, at[n] = 1, t.root = n DEF RootShape
<1>4. Shape(t, {n}, at, at, at)
  BY ONLY <1>2, <1>3, t \in Tree, n \in Node, at \in Places DEF Shape
<1>5. Loosened(h(t, t.left[n]), h(t, t.right[n]), 0)
  BY ONLY t.left[n] = Null, t.right[n] = Null DEF h, Loosened, Within, Larger
<1>6. \A x \in {n} : Above(at, at, at, x, n) /\ x = n
  BY ONLY at[n] = 1 DEF Above
<1> QED BY ONLY <1>4, <1>5, <1>6 DEF ToFix

\* Outside the tree the fields are as AVLNode() leaves them.
Fresh(t, M) ==
  \A x \in Node \ M : /\ t.parent[x] = Null /\ t.left[x] = Null /\ t.right[x] = Null
                      /\ t.height[x] = 1 /\ t.count[x] = 1

TreeOK(t, M, at) == Sound(t, M, at) /\ Fresh(t, M)

\* Sound trees are trees.
LEMMA SoundTree ==
  ASSUME NEW t, NEW M, NEW at, Sound(t, M, at)
  PROVE  /\ t \in Tree /\ M \in SUBSET Node /\ at \in Places /\ Null \notin M
         /\ t.root # Null => t.root \in M
         /\ t.root = Null <=> M = {}
<1>1. PICK lo, hi : Shape(t, M, at, lo, hi)
  BY DEF Sound
<1> QED BY <1>1, NodeAssumption DEF Shape, RootShape

-----------------------------------------------------------------------------
(* Taking a node with at most one child out of the tree. *)

\* Places from k on move one back.
Closed(f, k) == [x \in Node |-> IF f[x] >= k THEN f[x] - 1 ELSE f[x]]

\* What that makes of places.
LEMMA ClosedAt ==
  ASSUME NEW f \in Places, NEW k \in Int, NEW g, g = Closed(f, k)
  PROVE  /\ g \in Places
         /\ \A x \in Node : f[x] \in Int /\ g[x] = IF f[x] >= k THEN f[x] - 1 ELSE f[x]
BY DEF Closed, Places

\* v is t with the child of n, or none, in the place of n.
Cut(t, v, n, p, child) ==
  /\ v.root = (IF p = Null THEN child ELSE t.root) /\ v.height = t.height /\ v.count = t.count
  /\ \A x \in Node :
       /\ v.parent[x] = IF x = child THEN p ELSE t.parent[x]
       /\ v.left[x] = IF x = p /\ t.left[p] = n THEN child ELSE t.left[x]
       /\ v.right[x] = IF x = p /\ t.left[p] # n THEN child ELSE t.right[x]

\* n has the one child, or none.
OnlyChild(t, n, child) ==
  \/ t.right[n] = Null /\ child = t.left[n]
  \/ t.left[n] = Null /\ child = t.right[n]

\* The labels after n has been taken out.
CutLabels(at, lo, hi, n, at2, lo2, hi2) ==
  at2 = Closed(at, at[n] + 1) /\ lo2 = Closed(lo, at[n] + 1) /\ hi2 = Closed(hi, at[n])

\* The labels of all members.
LEMMA CutPlaces ==
  ASSUME NEW t, NEW M, NEW at, NEW lo, NEW hi, Shape(t, M, at, lo, hi), NEW n \in M,
         NEW at2, NEW lo2, NEW hi2, CutLabels(at, lo, hi, n, at2, lo2, hi2), NEW i, i = at[n]
  PROVE  /\ at2 \in Places /\ lo2 \in Places /\ hi2 \in Places
         /\ \A x \in M : /\ at[x] \in Int /\ lo[x] \in Int /\ hi[x] \in Int
                         /\ at2[x] \in Int /\ lo2[x] \in Int /\ hi2[x] \in Int
                         /\ 1 <= lo[x] /\ lo[x] <= at[x] /\ at[x] <= hi[x]
                         /\ hi[x] <= Cardinality(M)
                         /\ at2[x] = (IF at[x] > i THEN at[x] - 1 ELSE at[x])
                         /\ lo2[x] = (IF lo[x] > i THEN lo[x] - 1 ELSE lo[x])
                         /\ hi2[x] = (IF hi[x] >= i THEN hi[x] - 1 ELSE hi[x])
         /\ \A x \in M \ {n} : at[x] # i
<1>1. at \in Places /\ lo \in Places /\ hi \in Places /\ M \subseteq Node /\ i \in Int
  BY ShapeNode DEF Shape
<1>3. at2 = Closed(at, i + 1) /\ lo2 = Closed(lo, i + 1) /\ hi2 = Closed(hi, i)
  BY DEF CutLabels
<1>4. /\ at2 \in Places
      /\ \A x \in Node : at[x] \in Int /\ at2[x] = IF at[x] >= i + 1 THEN at[x] - 1 ELSE at[x]
  BY ONLY <1>1, <1>3 DEF Closed, Places
<1>5. /\ lo2 \in Places
      /\ \A x \in Node : lo[x] \in Int /\ lo2[x] = IF lo[x] >= i + 1 THEN lo[x] - 1 ELSE lo[x]
  BY ONLY <1>1, <1>3 DEF Closed, Places
<1>6. /\ hi2 \in Places
      /\ \A x \in Node : hi[x] \in Int /\ hi2[x] = IF hi[x] >= i THEN hi[x] - 1 ELSE hi[x]
  <2>1. hi \in Places /\ i \in Int /\ hi2 = Closed(hi, i)
    BY ONLY <1>1, <1>3
  <2> QED BY ONLY <2>1, ClosedAt
<1>7. \A x \in M : /\ 1 <= lo[x] /\ lo[x] <= at[x] /\ at[x] <= hi[x] /\ hi[x] <= Cardinality(M)
  BY ShapeNode
<1>8. \A x \in M \ {n} : at[x] # i
  BY DEF Shape
<1>9. \A x \in M : /\ at2[x] = (IF at[x] > i THEN at[x] - 1 ELSE at[x]) /\ at2[x] \in Int
                   /\ lo2[x] = (IF lo[x] > i THEN lo[x] - 1 ELSE lo[x]) /\ lo2[x] \in Int
                   /\ hi2[x] = (IF hi[x] >= i THEN hi[x] - 1 ELSE hi[x]) /\ hi2[x] \in Int
  BY ONLY <1>1, <1>4, <1>5, <1>6
<1>10. \A x \in M : at[x] \in Int /\ lo[x] \in Int /\ hi[x] \in Int
  BY ONLY <1>1, <1>4, <1>5, <1>6
<1> QED BY ONLY <1>4, <1>5, <1>6, <1>7, <1>8, <1>9, <1>10

\* The child takes the whole interval of n.
LEMMA CutChild ==
  ASSUME NEW t, NEW M, NEW at, NEW lo, NEW hi, Shape(t, M, at, lo, hi), NEW n \in M,
         NEW at2, NEW lo2, NEW hi2, CutLabels(at, lo, hi, n, at2, lo2, hi2), NEW i, i = at[n],
         NEW child, OnlyChild(t, n, child)
  PROVE  /\ child = Null => lo[n] = i /\ hi[n] = i
         /\ child # Null => /\ child \in M /\ child # n /\ t.parent[child] = n
                            /\ lo2[child] = lo[n] /\ hi2[child] = hi[n] - 1
<1>1. /\ \A x \in M : /\ at[x] \in Int /\ lo[x] \in Int /\ hi[x] \in Int
                      /\ lo[x] <= at[x] /\ at[x] <= hi[x]
                      /\ lo2[x] = (IF lo[x] > i THEN lo[x] - 1 ELSE lo[x])
                      /\ hi2[x] = (IF hi[x] >= i THEN hi[x] - 1 ELSE hi[x])
  BY CutPlaces
<1>2. LeftShape(t, M, at, lo, hi, n) /\ RightShape(t, M, at, lo, hi, n)
  BY ShapeNode
<1>3. CASE t.right[n] = Null /\ child = t.left[n]
  <2>1. hi[n] = i
    BY <1>2, <1>3 DEF RightShape
  <2>2. child = Null => lo[n] = i
    BY <1>2, <1>3 DEF LeftShape
  <2>3. child # Null => /\ child \in M /\ child # n /\ t.parent[child] = n
                        /\ lo[child] = lo[n] /\ hi[child] = i - 1
    BY <1>3, LeftChild
  <2>4. child # Null => lo2[child] = lo[n] /\ hi2[child] = hi[n] - 1
    BY ONLY <1>1, <2>1, <2>3, n \in M, i = at[n]
  <2> QED BY ONLY <2>1, <2>2, <2>3, <2>4
<1>4. CASE t.left[n] = Null /\ child = t.right[n]
  <2>1. lo[n] = i
    BY <1>2, <1>4 DEF LeftShape
  <2>2. child = Null => hi[n] = i
    BY <1>2, <1>4 DEF RightShape
  <2>3. child # Null => /\ child \in M /\ child # n /\ t.parent[child] = n
                        /\ hi[child] = hi[n] /\ lo[child] = i + 1
    BY <1>4, RightChild
  <2>4. child # Null => lo2[child] = lo[n] /\ hi2[child] = hi[n] - 1
    BY ONLY <1>1, <2>1, <2>3, n \in M, i = at[n]
  <2> QED BY ONLY <2>1, <2>2, <2>3, <2>4
<1> QED BY <1>3, <1>4 DEF OnlyChild

\* The parent of n and the interval it has.
LEMMA CutParent ==
  ASSUME NEW t, NEW M, NEW at, NEW lo, NEW hi, Shape(t, M, at, lo, hi), NEW n \in M,
         NEW at2, NEW lo2, NEW hi2, CutLabels(at, lo, hi, n, at2, lo2, hi2), NEW i, i = at[n],
         NEW p, p = t.parent[n], p # Null
  PROVE  /\ p \in M /\ p # n
         /\ \/ t.left[p] = n /\ t.right[p] # n /\ lo2[p] = lo[n] /\ at2[p] = hi[n]
            \/ t.right[p] = n /\ t.left[p] # n /\ at2[p] = lo[n] - 1 /\ hi2[p] = hi[n] - 1
<1>1. /\ p \in M /\ p # n
      /\ \/ n = t.left[p] /\ lo[n] = lo[p] /\ hi[n] = at[p] - 1
         \/ n = t.right[p] /\ hi[n] = hi[p] /\ lo[n] = at[p] + 1
  BY ParentOf
<1>2. /\ \A x \in M : /\ at[x] \in Int /\ lo[x] \in Int /\ hi[x] \in Int
                      /\ lo[x] <= at[x] /\ at[x] <= hi[x]
                      /\ at2[x] = (IF at[x] > i THEN at[x] - 1 ELSE at[x])
                      /\ lo2[x] = (IF lo[x] > i THEN lo[x] - 1 ELSE lo[x])
                      /\ hi2[x] = (IF hi[x] >= i THEN hi[x] - 1 ELSE hi[x])
  BY CutPlaces
<1>3. CASE n = t.left[p] /\ lo[n] = lo[p] /\ hi[n] = at[p] - 1
  <2>1. n # t.right[p]
    <3>1. n # Null
      BY ShapeNode
    <3> QED BY ONLY <1>1, <1>3, <3>1, Shape(t, M, at, lo, hi), LeftChild
  <2>2. lo2[p] = lo[n] /\ at2[p] = hi[n]
    BY ONLY <1>1, <1>2, <1>3, n \in M, i = at[n]
  <2> QED BY ONLY <1>1, <1>3, <2>1, <2>2
<1>4. CASE n = t.right[p] /\ hi[n] = hi[p] /\ lo[n] = at[p] + 1
  <2>1. n # t.left[p]
    <3>1. n # Null
      BY ShapeNode
    <3> QED BY ONLY <1>1, <1>4, <3>1, Shape(t, M, at, lo, hi), RightChild
  <2>2. at2[p] = lo[n] - 1 /\ hi2[p] = hi[n] - 1
    BY ONLY <1>1, <1>2, <1>4, n \in M, i = at[n]
  <2> QED BY ONLY <1>1, <1>4, <2>1, <2>2
<1> QED BY <1>1, <1>3, <1>4

\* The shape without n.
LEMMA CutShape ==
  ASSUME NEW t, NEW M, NEW at, NEW lo, NEW hi, Shape(t, M, at, lo, hi), NEW n \in M,
         NEW at2, NEW lo2, NEW hi2, CutLabels(at, lo, hi, n, at2, lo2, hi2),
         NEW child, OnlyChild(t, n, child), NEW p, p = t.parent[n],
         NEW v \in Tree, Cut(t, v, n, p, child)
  PROVE  Shape(v, M \ {n}, at2, lo2, hi2)
<1> DEFINE i == at[n]
           M2 == M \ {n}
           N == Cardinality(M)
<1>1. /\ M \subseteq Node /\ Null \notin M /\ n \in Node /\ n # Null
      /\ N \in Nat /\ Cardinality(M2) = N - 1
  BY ShapeNode, ShapeSize, FS_RemoveElement DEF Shape
<1>2. /\ at2 \in Places /\ lo2 \in Places /\ hi2 \in Places
      /\ \A x \in M : /\ at[x] \in Int /\ lo[x] \in Int /\ hi[x] \in Int
                      /\ at2[x] \in Int /\ lo2[x] \in Int /\ hi2[x] \in Int
                      /\ 1 <= lo[x] /\ lo[x] <= at[x] /\ at[x] <= hi[x] /\ hi[x] <= N
                      /\ at2[x] = (IF at[x] > i THEN at[x] - 1 ELSE at[x])
                      /\ lo2[x] = (IF lo[x] > i THEN lo[x] - 1 ELSE lo[x])
                      /\ hi2[x] = (IF hi[x] >= i THEN hi[x] - 1 ELSE hi[x])
      /\ \A x \in M \ {n} : at[x] # i
  BY ONLY Shape(t, M, at, lo, hi), n \in M, CutLabels(at, lo, hi, n, at2, lo2, hi2), CutPlaces
<1>3. /\ child = Null => lo[n] = i /\ hi[n] = i
      /\ child # Null => /\ child \in M /\ child # n /\ t.parent[child] = n
                         /\ lo2[child] = lo[n] /\ hi2[child] = hi[n] - 1
  BY ONLY Shape(t, M, at, lo, hi), n \in M, CutLabels(at, lo, hi, n, at2, lo2, hi2),
          OnlyChild(t, n, child), CutChild
<1>4. p # Null =>
         /\ p \in M /\ p # n
         /\ \/ t.left[p] = n /\ t.right[p] # n /\ lo2[p] = lo[n] /\ at2[p] = hi[n]
            \/ t.right[p] = n /\ t.left[p] # n /\ at2[p] = lo[n] - 1 /\ hi2[p] = hi[n] - 1
  BY ONLY Shape(t, M, at, lo, hi), n \in M, CutLabels(at, lo, hi, n, at2, lo2, hi2),
          p = t.parent[n], CutParent
<1>5. \A x \in M2 : x \in M /\ x # n /\ x \in Node /\ x # Null
  BY <1>1
<1>6. \A x \in M2 : /\ 1 <= lo2[x] /\ lo2[x] <= at2[x] /\ at2[x] <= hi2[x] /\ hi2[x] <= N - 1
  BY ONLY <1>1, <1>2, n \in M
<1>7. /\ v.root = (IF p = Null THEN child ELSE t.root)
      /\ \A x \in M2 : /\ v.parent[x] = (IF x = child THEN p ELSE t.parent[x])
                       /\ v.left[x] = (IF x = p /\ t.left[p] = n THEN child ELSE t.left[x])
                       /\ v.right[x] = (IF x = p /\ t.left[p] # n THEN child ELSE t.right[x])
  BY <1>5 DEF Cut
<1>16. i \in Int
  BY ONLY <1>2, n \in M
<1>17. \A x \in M2 : at[x] # i
  BY ONLY <1>2
<1> HIDE DEF i, M2, N
<1>8. ASSUME NEW x \in M2 PROVE LeftShape(v, M2, at2, lo2, hi2, x)
  <2>1. x \in M /\ LeftShape(t, M, at, lo, hi, x)
    BY <1>5, ShapeNode
  <2>2. CASE ~ (x = p /\ t.left[p] = n)
    <3>1. v.left[x] = t.left[x] /\ t.left[x] # n
      <4>1. t.left[x] = n => x = p
        BY <1>1, <2>1, LeftChild
      <4> QED BY ONLY <1>7, <1>8, <2>2, <4>1
    <3>2. CASE t.left[x] = Null
      <4>1. lo[x] = at[x]
        BY ONLY <2>1, <3>2 DEF LeftShape
      <4>2. lo2[x] = at2[x]
        BY ONLY <1>2, <2>1, <4>1
      <4> QED BY ONLY <3>1, <3>2, <4>2 DEF LeftShape
    <3>3. CASE t.left[x] # Null
      <4> DEFINE y == t.left[x]
      <4>1. y \in M /\ t.parent[y] = x /\ lo[y] = lo[x] /\ hi[y] = at[x] - 1
        BY ONLY <2>1, <3>3 DEF LeftShape
      <4>2. y \in M2
        BY <3>1, <4>1 DEF M2
      <4>3. v.parent[y] = x
        <5>1. y # child
          <6>1. y = child => x = n
            BY ONLY <1>3, <3>3, <4>1
          <6> QED BY ONLY <1>5, <6>1, <1>8
        <5> QED BY ONLY <1>7, <4>1, <4>2, <5>1
      <4> HIDE DEF y
      <4>4. lo2[y] = lo2[x] /\ hi2[y] = at2[x] - 1
        BY ONLY <1>2, <1>16, <2>1, <4>1
      <4> QED BY ONLY <3>1, <3>3, <4>2, <4>3, <4>4 DEF LeftShape, y
    <3> QED BY <3>2, <3>3
  <2>3. CASE x = p /\ t.left[p] = n
    <3>1. v.left[x] = child /\ lo2[x] = lo[n] /\ at2[x] = hi[n]
      BY ONLY <1>1, <1>4, <1>5, <1>7, <1>8, <2>3
    <3>2. CASE child = Null
      BY ONLY <1>3, <3>1, <3>2 DEF LeftShape
    <3>3. CASE child # Null
      <4>1. child \in M2 /\ v.parent[child] = x
        BY ONLY <1>3, <1>7, <2>3, <3>3 DEF M2
      <4> QED BY ONLY <1>3, <3>1, <3>3, <4>1 DEF LeftShape
    <3> QED BY <3>2, <3>3
  <2> QED BY <2>2, <2>3
<1>9. ASSUME NEW x \in M2 PROVE RightShape(v, M2, at2, lo2, hi2, x)
  <2>1. x \in M /\ RightShape(t, M, at, lo, hi, x)
    BY <1>5, ShapeNode
  <2>2. CASE ~ (x = p /\ t.left[p] # n)
    <3>1. v.right[x] = t.right[x] /\ t.right[x] # n
      <4>1. t.right[x] = n => x = p
        BY <1>1, <2>1, RightChild
      <4> QED BY ONLY <1>1, <1>4, <1>5, <1>7, <1>9, <2>2, <4>1
    <3>2. CASE t.right[x] = Null
      <4>1. hi[x] = at[x]
        BY ONLY <2>1, <3>2 DEF RightShape
      <4>2. hi2[x] = at2[x]
        BY ONLY <1>2, <1>16, <1>17, <2>1, <4>1, <1>9
      <4> QED BY ONLY <3>1, <3>2, <4>2 DEF RightShape
    <3>3. CASE t.right[x] # Null
      <4> DEFINE y == t.right[x]
      <4>1. y \in M /\ t.parent[y] = x /\ hi[y] = hi[x] /\ lo[y] = at[x] + 1
        BY ONLY <2>1, <3>3 DEF RightShape
      <4>2. y \in M2
        BY <3>1, <4>1 DEF M2
      <4>3. v.parent[y] = x
        <5>1. y # child
          <6>1. y = child => x = n
            BY ONLY <1>3, <3>3, <4>1
          <6> QED BY ONLY <1>5, <6>1, <1>9
        <5> QED BY ONLY <1>7, <4>1, <4>2, <5>1
      <4> HIDE DEF y
      <4>4. hi2[y] = hi2[x] /\ lo2[y] = at2[x] + 1
        BY ONLY <1>2, <1>16, <1>17, <2>1, <4>1, <1>9
      <4> QED BY ONLY <3>1, <3>3, <4>2, <4>3, <4>4 DEF RightShape, y
    <3> QED BY <3>2, <3>3
  <2>3. CASE x = p /\ t.left[p] # n
    <3>1. v.right[x] = child /\ at2[x] = lo[n] - 1 /\ hi2[x] = hi[n] - 1
      BY ONLY <1>1, <1>4, <1>5, <1>7, <1>9, <2>3
    <3>2. CASE child = Null
      BY ONLY <1>2, <1>3, <3>1, <3>2, n \in M DEF RightShape
    <3>3. CASE child # Null
      <4>1. child \in M2 /\ v.parent[child] = x
        BY ONLY <1>3, <1>7, <2>3, <3>3 DEF M2
      <4>2. lo2[child] = at2[x] + 1
        BY ONLY <1>2, <1>3, <3>1, <3>3, n \in M
      <4> QED BY ONLY <1>3, <3>1, <3>3, <4>1, <4>2 DEF RightShape
    <3> QED BY <3>2, <3>3
  <2> QED BY <2>2, <2>3
<1>10. ASSUME NEW x \in M2 PROVE UpShape(v, M2, x)
  <2>1. x \in M /\ x # n /\ x # Null /\ UpShape(t, M, x)
    BY <1>5, ShapeNode
  <2>2. UpShape(t, M, n)
    BY ShapeNode
  <2>3. CASE x = child
    <3>1. v.parent[x] = p
      BY ONLY <1>7, <1>10, <2>3
    <3>2. CASE p = Null
      BY ONLY <1>7, <2>3, <3>1, <3>2 DEF UpShape
    <3>3. CASE p # Null
      <4>1. p \in M2 /\ x \in {v.left[p], v.right[p]}
        BY ONLY <1>4, <1>7, <2>3, <3>3 DEF M2
      <4>2. t.parent[x] # Null /\ x # t.root
        BY ONLY <1>1, <1>3, <2>1, <2>3 DEF UpShape
      <4> QED BY ONLY <1>7, <3>1, <3>3, <4>1, <4>2 DEF UpShape
    <3> QED BY <3>2, <3>3
  <2>4. CASE x # child
    <3> DEFINE q == t.parent[x]
    <3>1. v.parent[x] = q
      BY ONLY <1>7, <1>10, <2>4
    <3>2. CASE q = Null
      <4>1. x = t.root
        BY ONLY <2>1, <3>2 DEF UpShape
      <4>2. p # Null
        BY ONLY <2>1, <2>2, <4>1, p = t.parent[n] DEF UpShape
      <4> QED BY ONLY <1>7, <3>1, <3>2, <4>1, <4>2 DEF UpShape
    <3>3. CASE q # Null
      <4>1. q \in M /\ x # t.root /\ x \in {t.left[q], t.right[q]}
        BY ONLY <2>1, <3>3 DEF UpShape
      <4>2. q # n
        <5>1. q = n => x = child
          BY ONLY <2>1, <4>1, OnlyChild(t, n, child) DEF OnlyChild
        <5> QED BY ONLY <2>4, <5>1
      <4>3. q \in M2
        BY ONLY <4>1, <4>2 DEF M2
      <4> HIDE DEF q
      <4>4. x \in {v.left[q], v.right[q]}
        BY ONLY <1>4, <1>7, <1>5, <2>1, <4>1, <4>3
      <4>5. x # v.root
        BY ONLY <1>7, <2>4, <4>1
      <4> QED BY ONLY <3>1, <3>3, <4>3, <4>4, <4>5 DEF UpShape
    <3> QED BY <3>2, <3>3
  <2> QED BY <2>3, <2>4
<1>11. RootShape(v, M2, lo2, hi2)
  <2>1. t.root \in M /\ lo[t.root] = 1 /\ hi[t.root] = N /\ t.root # Null
    <3>1. M # {}
      OBVIOUS
    <3> QED BY <1>1, <3>1 DEF Shape, RootShape, N
  <2>2. UpShape(t, M, n)
    BY ShapeNode
  <2>3. CASE p = Null
    <3>1. n = t.root /\ v.root = child
      BY ONLY <1>7, <2>2, <2>3, p = t.parent[n] DEF UpShape
    <3>2. CASE child = Null
      <4>1. N = 1
        BY ONLY <1>1, <1>3, <2>1, <3>1, <3>2
      <4>2. Cardinality(M2) = 0 /\ IsFiniteSet(M2)
        BY <1>1, <4>1, ShapeSize, FS_Subset DEF M2
      <4>3. M2 = {}
        BY <4>2, FS_EmptySet
      <4> QED BY ONLY <3>1, <3>2, <4>3 DEF RootShape
    <3>3. CASE child # Null
      <4>1. child \in M2
        BY ONLY <1>3, <3>3 DEF M2
      <4> QED BY ONLY <1>1, <1>3, <2>1, <3>1, <3>3, <4>1 DEF RootShape
    <3> QED BY <3>2, <3>3
  <2>4. CASE p # Null
    <3>1. n # t.root /\ v.root = t.root
      BY ONLY <1>7, <2>2, <2>4, p = t.parent[n] DEF UpShape
    <3>2. lo2[t.root] = 1 /\ hi2[t.root] = N - 1 /\ t.root \in M2
      <4>1. 1 <= i /\ i <= N /\ i \in Int
        BY ONLY <1>1, <1>2, n \in M DEF i
      <4>2. t.root \in M2
        BY ONLY <2>1, <3>1 DEF M2
      <4> QED BY ONLY <1>1, <1>2, <2>1, <4>1, <4>2
    <3> QED BY ONLY <1>1, <2>1, <3>1, <3>2 DEF RootShape
  <2> QED BY <2>3, <2>4
<1>12. ASSUME NEW x \in M2, NEW y \in M2, at2[x] = at2[y] PROVE x = y
  <2>1. x \in M /\ y \in M /\ at[x] # i /\ at[y] # i
    BY ONLY <1>2, <1>5, <1>12 DEF M2
  <2>2. i \in Int
    BY ONLY <1>2, n \in M DEF i
  <2>3. at[x] = at[y]
    BY ONLY <1>2, <1>12, <2>1, <2>2
  <2> QED BY <2>1, <2>3 DEF Shape
<1>13. \A x \in M2 : NodeShape(v, M2, at2, lo2, hi2, x)
  BY ONLY <1>1, <1>6, <1>8, <1>9, <1>10 DEF NodeShape
<1>14. M2 \in SUBSET Node
  BY ONLY <1>1 DEF M2
<1>15. Shape(v, M2, at2, lo2, hi2)
  BY ONLY <1>2, <1>11, <1>12, <1>13, <1>14, v \in Tree DEF Shape
<1> QED BY ONLY <1>15 DEF M2

\* The only child is one lower than n.
LEMMA ChildHeight ==
  ASSUME NEW t, NEW M, NEW at, NEW lo, NEW hi, Shape(t, M, at, lo, hi),
         \A x \in M : Exact(t, lo, hi, x), NEW n \in M, NEW child, OnlyChild(t, n, child)
  PROVE  h(t, child) \in Int /\ t.height[n] = h(t, child) + 1
<1>1. \A y \in {t.left[n], t.right[n]} : h(t, y) \in Int /\ h(t, y) >= 0
  <2>1. ASSUME NEW y \in {t.left[n], t.right[n]} PROVE h(t, y) \in Int /\ h(t, y) >= 0
    <3>1. y \in M \cup {Null} /\ Null \notin M
      BY ShapeNode
    <3>2. CASE y = Null
      BY <3>2 DEF h
    <3>3. CASE y \in M
      <4>1. t.height[y] >= 1 /\ t.height[y] \in Int
        BY <3>3, MemberHeights DEF Exact
      <4> QED BY <3>1, <3>3, <4>1 DEF h
    <3> QED BY <3>1, <3>2, <3>3
  <2> QED BY <2>1
<1>2. t.height[n] = Larger(h(t, t.left[n]), h(t, t.right[n])) + 1
  BY DEF Exact
<1>3. h(t, Null) = 0
  BY DEF h
<1>4. CASE t.right[n] = Null /\ child = t.left[n]
  BY ONLY <1>1, <1>2, <1>3, <1>4 DEF Larger
<1>5. CASE t.left[n] = Null /\ child = t.right[n]
  BY ONLY <1>1, <1>2, <1>3, <1>5 DEF Larger
<1> QED BY <1>4, <1>5 DEF OnlyChild

\* What is left to fix without n: the heights from its parent upwards.
LEMMA CutToFix ==
  ASSUME NEW t, NEW M, NEW at, NEW lo, NEW hi, Shape(t, M, at, lo, hi),
         \A x \in M : Exact(t, lo, hi, x), NEW n \in M,
         NEW at2, NEW lo2, NEW hi2, CutLabels(at, lo, hi, n, at2, lo2, hi2),
         NEW child, OnlyChild(t, n, child), NEW p, p = t.parent[n],
         NEW v \in Tree, Cut(t, v, n, p, child)
  PROVE  /\ p = Null => \A x \in M \ {n} : Exact(v, lo2, hi2, x)
         /\ p # Null => ToFix(v, M \ {n}, at2, lo2, hi2, p, t.height[p])
<1> DEFINE i == at[n]
           M2 == M \ {n}
           Up(x) == p # Null /\ Above(at2, lo2, hi2, x, p)
<1>1. Shape(v, M2, at2, lo2, hi2)
  BY ONLY Shape(t, M, at, lo, hi), n \in M, CutLabels(at, lo, hi, n, at2, lo2, hi2),
          OnlyChild(t, n, child), p = t.parent[n], v \in Tree, Cut(t, v, n, p, child), CutShape
<1>2. /\ \A x \in M : /\ at[x] \in Int /\ lo[x] \in Int /\ hi[x] \in Int
                      /\ at2[x] \in Int /\ lo2[x] \in Int /\ hi2[x] \in Int
                      /\ 1 <= lo[x] /\ lo[x] <= at[x] /\ at[x] <= hi[x]
                      /\ at2[x] = (IF at[x] > i THEN at[x] - 1 ELSE at[x])
                      /\ lo2[x] = (IF lo[x] > i THEN lo[x] - 1 ELSE lo[x])
                      /\ hi2[x] = (IF hi[x] >= i THEN hi[x] - 1 ELSE hi[x])
      /\ \A x \in M2 : at[x] # i
  BY ONLY Shape(t, M, at, lo, hi), n \in M, CutLabels(at, lo, hi, n, at2, lo2, hi2), CutPlaces
<1>3. i \in Int
  BY ONLY <1>2, n \in M
<1>4. p # Null => /\ p \in M2
                  /\ \/ t.left[p] = n /\ t.right[p] # n
                     \/ t.right[p] = n /\ t.left[p] # n
  <2>1. p # Null =>
         /\ p \in M /\ p # n
         /\ \/ t.left[p] = n /\ t.right[p] # n /\ lo2[p] = lo[n] /\ at2[p] = hi[n]
            \/ t.right[p] = n /\ t.left[p] # n /\ at2[p] = lo[n] - 1 /\ hi2[p] = hi[n] - 1
    BY ONLY Shape(t, M, at, lo, hi), n \in M, CutLabels(at, lo, hi, n, at2, lo2, hi2),
            p = t.parent[n], CutParent
  <2> QED BY <2>1
<1>5. /\ v.height = t.height /\ v.count = t.count
      /\ \A x \in M2 : x # p => v.left[x] = t.left[x] /\ v.right[x] = t.right[x]
      /\ p # Null /\ t.left[p] = n => v.left[p] = child /\ v.right[p] = t.right[p]
      /\ p # Null /\ t.left[p] # n => v.left[p] = t.left[p] /\ v.right[p] = child
  <2>1. M2 \subseteq Node
    BY DEF Shape
  <2> QED BY ONLY <1>4, <2>1, Cut(t, v, n, p, child) DEF Cut
<1>6. \A y : h(v, y) = h(t, y)
  BY <1>5 DEF h
<1>7. \A x \in M2 : x \in M /\ x # n
  OBVIOUS
<1>8. \A x \in M2 : /\ lo2[x] <= at2[x] /\ at2[x] <= hi2[x]
                    /\ v.height[x] = t.height[x] /\ v.count[x] = t.count[x]
  BY <1>1, <1>5, ShapeNode
<1> HIDE DEF i, M2
<1>9. ASSUME NEW x \in M2, Above(at, lo, hi, x, n) PROVE Up(x)
  <2>1. p # Null /\ Above(at, lo, hi, x, p)
    <3>1. \A m \in M : Above(at, lo, hi, m, n) /\ m # n =>
            /\ t.parent[n] # Null /\ Above(at, lo, hi, m, t.parent[n])
            /\ lo[m] <= lo[n] /\ hi[n] <= hi[m]
      BY ONLY Shape(t, M, at, lo, hi), n \in M, AboveParent
    <3> QED BY ONLY <1>7, <1>9, <3>1, p = t.parent[n]
  <2>2. p \in M2 /\ p \in M /\ x \in M
    BY ONLY <1>4, <1>7, <1>9, <2>1
  <2>3. lo2[x] <= at2[p] /\ at2[p] <= hi2[x]
    <3>1. lo[x] <= at[p] /\ at[p] <= hi[x] /\ at[p] # i
      BY ONLY <1>2, <2>1, <2>2 DEF Above
    <3>2. lo[x] <= i /\ i <= hi[x]
      BY ONLY <1>9 DEF Above, i
    <3> QED BY ONLY <1>2, <1>3, <2>2, <3>1, <3>2
  <2> QED BY ONLY <2>1, <2>3 DEF Above
<1>10. ASSUME NEW x \in M2, ~ Up(x) PROVE Exact(v, lo2, hi2, x)
  <2>1. x # p
    BY ONLY <1>4, <1>8, <1>10, <1>1, ShapeNode DEF Above
  <2>2. ~ (lo[x] <= i /\ i <= hi[x])
    BY ONLY <1>9, <1>10 DEF Above, i
  <2>3. hi2[x] - lo2[x] = hi[x] - lo[x]
    BY ONLY <1>2, <1>3, <1>7, <1>10, <2>2
  <2>4. Exact(t, lo, hi, x)
    BY <1>7, <1>10
  <2> QED BY ONLY <1>5, <1>6, <1>8, <1>10, <2>1, <2>3, <2>4 DEF Exact
<1>11. ASSUME NEW x \in M2, x # p, p # Null PROVE Outdated(v, p, t.height[p], x)
  <2>1. Exact(t, lo, hi, x)
    BY <1>7, <1>11
  <2>2. \A y : OldHeight(v, p, t.height[p], y) = h(t, y)
    BY ONLY <1>6, <1>11 DEF OldHeight, h
  <2> QED BY ONLY <1>5, <1>8, <1>11, <2>1, <2>2 DEF Exact, Outdated
<1>12. ASSUME p # Null PROVE Loosened(h(v, v.left[p]), h(v, v.right[p]), t.height[p])
  <2>1. p \in M /\ p \in M2 /\ n # Null
    BY <1>4, <1>7, <1>12, ShapeNode
  <2>2. h(t, child) \in Int /\ t.height[n] = h(t, child) + 1 /\ h(t, n) = t.height[n]
    BY ChildHeight, <2>1 DEF h
  <2>3. Exact(t, lo, hi, p) /\ h(t, t.left[p]) \in Int /\ h(t, t.right[p]) \in Int /\ t.height[p] \in Int
    BY <2>1, MemberHeights
  <2>4. CASE t.left[p] = n
    <3>1. h(v, v.left[p]) = h(t, child) /\ h(v, v.right[p]) = h(t, t.right[p])
      BY ONLY <1>5, <1>6, <1>12, <2>4
    <3>2. /\ t.height[p] = Larger(h(t, child) + 1, h(t, t.right[p])) + 1
          /\ Within(h(t, child) + 1, h(t, t.right[p]))
      BY ONLY <2>2, <2>3, <2>4 DEF Exact
    <3> QED BY ONLY <2>2, <2>3, <3>1, <3>2 DEF Loosened, Within, Larger
  <2>5. CASE t.left[p] # n
    <3>1. h(v, v.left[p]) = h(t, t.left[p]) /\ h(v, v.right[p]) = h(t, child)
      BY ONLY <1>5, <1>6, <1>12, <2>5
    <3>2. /\ t.height[p] = Larger(h(t, t.left[p]), h(t, child) + 1) + 1
          /\ Within(h(t, t.left[p]), h(t, child) + 1)
      BY ONLY <1>4, <1>12, <2>2, <2>3, <2>5 DEF Exact
    <3> QED BY ONLY <2>2, <2>3, <3>1, <3>2 DEF Loosened, Within, Larger
  <2> QED BY <2>4, <2>5
<1>13. p # Null => t.height[p] \in Int
  BY <1>4, <1>7, MemberHeights
<1>14. p # Null => ToFix(v, M2, at2, lo2, hi2, p, t.height[p])
  BY ONLY <1>1, <1>4, <1>10, <1>11, <1>12, <1>13 DEF ToFix
<1> QED BY ONLY <1>10, <1>14 DEF M2

\* A node with at most one child is taken out, and the others keep their
\* order.
LEMMA DelEasy ==
  ASSUME NEW t, NEW M, NEW at, Sound(t, M, at), NEW n \in M,
         t.left[n] = Null \/ t.right[n] = Null, NEW v, v = del_easy(t, n)
  PROVE  Sound(v, M \ {n}, Closed(at, at[n] + 1)) /\ Rest(t, v, M)
<1> DEFINE child == IF t.left[n] # Null THEN t.left[n] ELSE t.right[n]
           p == t.parent[n]
           u == Adopt(t, child, p)
           linked == Relink(u, p, n, child)
           M2 == M \ {n}
           at2 == Closed(at, at[n] + 1)
<1>1. v = IF p = Null THEN linked ELSE fix(linked, p)
  BY DEF del_easy
<1>2. PICK lo, hi : Shape(t, M, at, lo, hi) /\ \A x \in M : Exact(t, lo, hi, x)
  BY DEF Sound
<1>3. OnlyChild(t, n, child)
  BY DEF OnlyChild
<1>4. /\ t \in Tree /\ n \in Node /\ child \in NullOr /\ p \in NullOr /\ M \subseteq Node
      /\ child \in M \cup {Null} /\ p \in M \cup {Null} /\ Null \notin Node
  BY <1>2, ShapeNode, NodeAssumption DEF Shape, NullOr
<1> HIDE DEF child, p
<1>5. /\ u \in Tree /\ u.root = t.root /\ u.left = t.left /\ u.right = t.right
      /\ u.height = t.height /\ u.count = t.count
      /\ \A x \in Node : u.parent[x] = IF x = child THEN p ELSE t.parent[x]
  BY ONLY <1>4, AdoptFields
<1> HIDE DEF u
<1>6. /\ linked \in Tree /\ linked.root = (IF p = Null THEN child ELSE u.root)
      /\ linked.parent = u.parent /\ linked.height = u.height /\ linked.count = u.count
      /\ \A x \in Node :
           /\ linked.left[x] = IF x = p /\ u.left[p] = n THEN child ELSE u.left[x]
           /\ linked.right[x] = IF x = p /\ u.left[p] # n THEN child ELSE u.right[x]
  BY ONLY <1>4, <1>5, RelinkFields
<1> HIDE DEF linked
<1>7. Cut(t, linked, n, p, child)
  BY ONLY <1>5, <1>6 DEF Cut
<1>8. PICK lo2, hi2 : CutLabels(at, lo, hi, n, at2, lo2, hi2)
  BY DEF CutLabels
<1>9. p = t.parent[n]
  BY DEF p
<1> HIDE DEF at2
<1>10. /\ p = Null => \A x \in M2 : Exact(linked, lo2, hi2, x)
       /\ p # Null => ToFix(linked, M2, at2, lo2, hi2, p, t.height[p])
  BY ONLY <1>2, <1>3, <1>6, <1>7, <1>8, <1>9, n \in M, CutToFix
<1>11. Shape(linked, M2, at2, lo2, hi2)
  BY ONLY <1>2, <1>3, <1>6, <1>7, <1>8, <1>9, n \in M, CutShape
<1>12. Rest(t, linked, M)
  BY ONLY <1>4, <1>5, <1>6 DEF Rest
<1>13. CASE p = Null
  <2>1. Sound(linked, M2, at2)
    BY ONLY <1>10, <1>11, <1>13 DEF Sound
  <2> QED BY ONLY <1>1, <1>12, <1>13, <2>1 DEF M2, at2
<1>14. CASE p # Null
  <2>1. v = fix(linked, p)
    BY ONLY <1>1, <1>14
  <2>2. ToFix(linked, M2, at2, lo2, hi2, p, t.height[p])
    BY ONLY <1>10, <1>14
  <2>3. Sound(v, M2, at2) /\ Rest(linked, v, M2)
    BY ONLY <2>1, <2>2, FixEnds
  <2>4. Rest(linked, v, M)
    BY ONLY <2>3 DEF Rest, M2
  <2>5. Rest(t, v, M)
    BY ONLY <1>12, <2>4, RestChain
  <2> QED BY ONLY <2>3, <2>5 DEF M2, at2
<1> QED BY <1>13, <1>14

-----------------------------------------------------------------------------
(* Taking a node with two children out of the tree. *)

\* The path down the left links ends at the first place of the subtree.
LEMMA LeftmostIs ==
  ASSUME NEW t, NEW M, NEW at, NEW lo, NEW hi, Shape(t, M, at, lo, hi), NEW n \in M,
         NEW w, w = Leftmost(t, n)
  PROVE  w \in M /\ t.left[w] = Null /\ at[w] = lo[n]
<1> DEFINE round == [m \in Node |-> IF t.left[m] = Null THEN m ELSE t.left[m]]
           R == {x \in M : lo[x] = lo[n]}
           size == [x \in R |-> IF t.left[x] = Null THEN 0 ELSE hi[x] - lo[x]]
<1>1. w = Iterate(round, n, PathBound)
  BY DEF Leftmost, PathEnd
<1>2. ASSUME NEW x \in R
      PROVE  /\ round[x] \in R /\ size[x] \in Nat /\ size[x] <= PathBound
             /\ size[x] = 0 => size[round[x]] = 0
             /\ size[x] # 0 => size[round[x]] < size[x]
  <2>1. /\ x \in M /\ x \in Node /\ at[x] \in Int /\ lo[x] \in Int /\ hi[x] \in Int
        /\ 1 <= lo[x] /\ lo[x] <= at[x] /\ at[x] <= hi[x] /\ hi[x] <= Cardinality(M)
        /\ Cardinality(M) \in Nat /\ PathBound \in Nat /\ Cardinality(M) <= PathBound
    BY ShapeNode, ShapeSize
  <2>2. CASE t.left[x] = Null
    BY <2>1, <2>2
  <2>3. CASE t.left[x] # Null
    <3> DEFINE y == t.left[x]
    <3>1. y \in M /\ lo[y] = lo[x] /\ hi[y] = at[x] -  1
      BY <2>1, <2>3, LeftChild
    <3>2. y \in R /\ lo[y] <= hi[y] /\ lo[y] \in Int /\ hi[y] \in Int
      <4>1. lo[y] <= at[y] /\ at[y] <= hi[y] /\ lo[y] \in Int /\ hi[y] \in Int /\ at[y] \in Int
        BY <3>1, ShapeNode
      <4> QED BY <3>1, <4>1
    <3>3. round[x] = y
      BY <2>1, <2>3
    <3> HIDE DEF y, round, R
    <3>4. size[x] = hi[x] - lo[x] /\ size[y] \in {0, hi[y] - lo[y]}
      BY <2>3, <3>2
    <3> HIDE DEF size
    <3> QED BY ONLY <2>1, <3>1, <3>2, <3>3, <3>4
  <2> QED BY <2>2, <2>3
<1>3. n \in R /\ size \in [R -> Nat] /\ size[n] <= PathBound /\ PathBound \in Nat
  <2>1. n \in R
    OBVIOUS
  <2>2. size = [x \in R |-> size[x]]
    OBVIOUS
  <2> HIDE DEF size, R
  <2> QED BY <1>2, <2>1, <2>2, ShapeSize
<1> HIDE DEF round, size
<1>4. w \in R /\ size[w] = 0
  <2> HIDE DEF R
  <2> QED BY ONLY <1>1, <1>2, <1>3, LoopEnds
<1>5. w \in M /\ lo[w] = lo[n]
  BY <1>4
<1>6. /\ at[w] \in Int /\ lo[w] \in Int /\ hi[w] \in Int
      /\ lo[w] <= at[w] /\ at[w] <= hi[w] /\ LeftShape(t, M, at, lo, hi, w)
  BY <1>5, ShapeNode
<1>7. t.left[w] = Null
  <2> SUFFICES ASSUME t.left[w] # Null PROVE FALSE
    OBVIOUS
  <2>1. hi[w] - lo[w] = 0
    BY <1>4 DEF size
  <2> DEFINE y == t.left[w]
  <2>2. y \in M /\ lo[y] = lo[w] /\ hi[y] = at[w] -  1
    BY <1>5, LeftChild
  <2>3. lo[y] <= at[y] /\ at[y] <= hi[y] /\ at[y] \in Int
    BY <2>2, ShapeNode
  <2> QED BY ONLY <1>6, <2>1, <2>2, <2>3
<1>8. at[w] = lo[w]
  BY ONLY <1>6, <1>7 DEF LeftShape
<1> QED BY <1>5, <1>7, <1>8

\* The path down the right links ends at the last place of the subtree.
LEMMA RightmostIs ==
  ASSUME NEW t, NEW M, NEW at, NEW lo, NEW hi, Shape(t, M, at, lo, hi), NEW n \in M,
         NEW w, w = Rightmost(t, n)
  PROVE  w \in M /\ t.right[w] = Null /\ at[w] = hi[n]
<1> DEFINE round == [m \in Node |-> IF t.right[m] = Null THEN m ELSE t.right[m]]
           R == {x \in M : hi[x] = hi[n]}
           size == [x \in R |-> IF t.right[x] = Null THEN 0 ELSE hi[x] - lo[x]]
<1>1. w = Iterate(round, n, PathBound)
  BY DEF Rightmost, PathEnd
<1>2. ASSUME NEW x \in R
      PROVE  /\ round[x] \in R /\ size[x] \in Nat /\ size[x] <= PathBound
             /\ size[x] = 0 => size[round[x]] = 0
             /\ size[x] # 0 => size[round[x]] < size[x]
  <2>1. /\ x \in M /\ x \in Node /\ at[x] \in Int /\ hi[x] \in Int /\ lo[x] \in Int
        /\ 1 <= lo[x] /\ lo[x] <= at[x] /\ at[x] <= hi[x] /\ hi[x] <= Cardinality(M)
        /\ Cardinality(M) \in Nat /\ PathBound \in Nat /\ Cardinality(M) <= PathBound
    BY ShapeNode, ShapeSize
  <2>2. CASE t.right[x] = Null
    BY <2>1, <2>2
  <2>3. CASE t.right[x] # Null
    <3> DEFINE y == t.right[x]
    <3>1. y \in M /\ hi[y] = hi[x] /\ lo[y] = at[x] +  1
      BY <2>1, <2>3, RightChild
    <3>2. y \in R /\ lo[y] <= hi[y] /\ hi[y] \in Int /\ lo[y] \in Int
      <4>1. lo[y] <= at[y] /\ at[y] <= hi[y] /\ hi[y] \in Int /\ lo[y] \in Int /\ at[y] \in Int
        BY <3>1, ShapeNode
      <4> QED BY <3>1, <4>1
    <3>3. round[x] = y
      BY <2>1, <2>3
    <3> HIDE DEF y, round, R
    <3>4. size[x] = hi[x] - lo[x] /\ size[y] \in {0, hi[y] - lo[y]}
      BY <2>3, <3>2
    <3> HIDE DEF size
    <3> QED BY ONLY <2>1, <3>1, <3>2, <3>3, <3>4
  <2> QED BY <2>2, <2>3
<1>3. n \in R /\ size \in [R -> Nat] /\ size[n] <= PathBound /\ PathBound \in Nat
  <2>1. n \in R
    OBVIOUS
  <2>2. size = [x \in R |-> size[x]]
    OBVIOUS
  <2> HIDE DEF size, R
  <2> QED BY <1>2, <2>1, <2>2, ShapeSize
<1> HIDE DEF round, size
<1>4. w \in R /\ size[w] = 0
  <2> HIDE DEF R
  <2> QED BY ONLY <1>1, <1>2, <1>3, LoopEnds
<1>5. w \in M /\ hi[w] = hi[n]
  BY <1>4
<1>6. /\ at[w] \in Int /\ hi[w] \in Int /\ lo[w] \in Int
      /\ lo[w] <= at[w] /\ at[w] <= hi[w] /\ RightShape(t, M, at, lo, hi, w)
  BY <1>5, ShapeNode
<1>7. t.right[w] = Null
  <2> SUFFICES ASSUME t.right[w] # Null PROVE FALSE
    OBVIOUS
  <2>1. hi[w] - lo[w] = 0
    BY <1>4 DEF size
  <2> DEFINE y == t.right[w]
  <2>2. y \in M /\ hi[y] = hi[w] /\ lo[y] = at[w] +  1
    BY <1>5, RightChild
  <2>3. lo[y] <= at[y] /\ at[y] <= hi[y] /\ at[y] \in Int
    BY <2>2, ShapeNode
  <2> QED BY ONLY <1>6, <2>1, <2>2, <2>3
<1>8. at[w] = hi[w]
  BY ONLY <1>6, <1>7 DEF RightShape
<1> QED BY <1>5, <1>7, <1>8

\* Sound trees that agree on the members.
LEMMA SoundSame ==
  ASSUME NEW t, NEW M, NEW at, Sound(t, M, at), NEW v \in Tree, v.root = t.root,
         \A x \in M : /\ v.parent[x] = t.parent[x] /\ v.left[x] = t.left[x]
                      /\ v.right[x] = t.right[x] /\ v.height[x] = t.height[x]
                      /\ v.count[x] = t.count[x]
  PROVE  Sound(v, M, at)
<1>1. PICK lo, hi : Shape(t, M, at, lo, hi) /\ \A n \in M : Exact(t, lo, hi, n)
  BY DEF Sound
<1>2. ASSUME NEW x \in M PROVE NodeShape(v, M, at, lo, hi, x) /\ Exact(v, lo, hi, x)
  <2>1. /\ t.left[x] \in M \cup {Null} /\ t.right[x] \in M \cup {Null}
        /\ NodeShape(t, M, at, lo, hi, x) /\ Exact(t, lo, hi, x) /\ Null \notin M
    BY <1>1, ShapeNode DEF Shape
  <2>2. \A y \in M \cup {Null} : h(v, y) = h(t, y)
    BY <2>1 DEF h
  <2>3. Exact(v, lo, hi, x)
    BY <2>1, <2>2 DEF Exact
  <2>4. LeftShape(v, M, at, lo, hi, x) /\ RightShape(v, M, at, lo, hi, x)
    BY <2>1 DEF NodeShape, LeftShape, RightShape
  <2>5. UpShape(v, M, x)
    BY <2>1 DEF NodeShape, UpShape
  <2> QED BY ONLY <2>1, <2>3, <2>4, <2>5 DEF NodeShape
<1>3. RootShape(v, M, lo, hi)
  BY <1>1 DEF Shape, RootShape
<1>4. Shape(v, M, at, lo, hi)
  BY <1>1, <1>2, <1>3 DEF Shape
<1> QED BY <1>2, <1>4 DEF Sound

\* w stands where n stood.
Name(n, w, x) == IF x = n THEN w ELSE x

Renamed(t, v, M, n, w) ==
  /\ v.root = Name(n, w, t.root)
  /\ \A x \in M :
       /\ v.parent[Name(n, w, x)] = Name(n, w, t.parent[x])
       /\ v.left[Name(n, w, x)] = Name(n, w, t.left[x])
       /\ v.right[Name(n, w, x)] = Name(n, w, t.right[x])
       /\ v.height[Name(n, w, x)] = t.height[x]
       /\ v.count[Name(n, w, x)] = t.count[x]

\* The tree is as sound with w as it was with n.
LEMMA RenamedSound ==
  ASSUME NEW t, NEW M, NEW at, Sound(t, M, at), NEW n \in M, NEW w \in Node, w \notin M,
         NEW v \in Tree, Renamed(t, v, M, n, w)
  PROVE  Sound(v, (M \ {n}) \cup {w}, [at EXCEPT ![w] = at[n]])
<1>1. PICK lo, hi : Shape(t, M, at, lo, hi) /\ \A x \in M : Exact(t, lo, hi, x)
  BY DEF Sound
<1> DEFINE M2 == (M \ {n}) \cup {w}
           at2 == [at EXCEPT ![w] = at[n]]
           lo2 == [lo EXCEPT ![w] = lo[n]]
           hi2 == [hi EXCEPT ![w] = hi[n]]
           N(x) == Name(n, w, x)
<1>2. /\ M \subseteq Node /\ Null \notin M /\ n # Null /\ w # Null /\ n \in Node
      /\ at \in Places /\ lo \in Places /\ hi \in Places
  BY <1>1, ShapeNode, NodeAssumption DEF Shape
<1>3. Cardinality(M2) = Cardinality(M) /\ M2 \subseteq Node
  <2>1. IsFiniteSet(M) /\ Cardinality(M) \in Nat
    BY <1>1, ShapeSize
  <2>2. IsFiniteSet(M \ {n}) /\ Cardinality(M \ {n}) = Cardinality(M) - 1
    BY <2>1, FS_RemoveElement
  <2>3. Cardinality(M2) = Cardinality(M \ {n}) + 1
    BY <2>2, FS_AddElement
  <2> QED BY <1>2, <2>1, <2>2, <2>3
<1>4. at2 \in Places /\ lo2 \in Places /\ hi2 \in Places
  BY <1>2 DEF Places
<1>5. \A x \in M : N(x) \in M2 /\ at2[N(x)] = at[x] /\ lo2[N(x)] = lo[x] /\ hi2[N(x)] = hi[x]
  BY <1>2 DEF Places, Name
<1>6. \A y \in M2 : \E x \in M : y = N(x)
  <2>1. ASSUME NEW y \in M2 PROVE \E x \in M : y = N(x)
    <3>1. CASE y = w
      <4>1. y = N(n)
        BY <3>1 DEF Name
      <4> QED BY <4>1
    <3>2. CASE y # w
      <4>1. y \in M /\ y = N(y)
        BY <3>2 DEF Name
      <4> QED BY <4>1
    <3> QED BY <3>1, <3>2
  <2> QED BY <2>1
<1>7. /\ \A x \in M \cup {Null} : N(x) = Null <=> x = Null
      /\ \A x, y \in M \cup {Null} : N(x) = N(y) <=> x = y
  BY <1>2 DEF Name
<1>8. /\ v.root = N(t.root)
      /\ \A x \in M : /\ v.parent[N(x)] = N(t.parent[x]) /\ v.left[N(x)] = N(t.left[x])
                      /\ v.right[N(x)] = N(t.right[x])
                      /\ v.height[N(x)] = t.height[x] /\ v.count[N(x)] = t.count[x]
  BY DEF Renamed
<1> HIDE DEF M2, at2, lo2, hi2, N
<1>9. ASSUME NEW x \in M PROVE NodeShape(v, M2, at2, lo2, hi2, N(x)) /\ Exact(v, lo2, hi2, N(x))
  <2>1. /\ 1 <= lo[x] /\ lo[x] <= at[x] /\ at[x] <= hi[x] /\ hi[x] <= Cardinality(M)
        /\ LeftShape(t, M, at, lo, hi, x) /\ RightShape(t, M, at, lo, hi, x) /\ UpShape(t, M, x)
        /\ t.left[x] \in M \cup {Null} /\ t.right[x] \in M \cup {Null}
        /\ t.parent[x] \in M \cup {Null}
    BY ONLY <1>1, <1>9, ShapeNode
  <2>2. LeftShape(v, M2, at2, lo2, hi2, N(x))
    <3>1. CASE t.left[x] = Null
      BY ONLY <1>5, <1>7, <1>8, <1>9, <2>1, <3>1 DEF LeftShape
    <3>2. CASE t.left[x] # Null
      BY ONLY <1>5, <1>7, <1>8, <1>9, <2>1, <3>2 DEF LeftShape
    <3> QED BY <3>1, <3>2
  <2>3. RightShape(v, M2, at2, lo2, hi2, N(x))
    <3>1. CASE t.right[x] = Null
      BY ONLY <1>5, <1>7, <1>8, <1>9, <2>1, <3>1 DEF RightShape
    <3>2. CASE t.right[x] # Null
      BY ONLY <1>5, <1>7, <1>8, <1>9, <2>1, <3>2 DEF RightShape
    <3> QED BY <3>1, <3>2
  <2>4. UpShape(v, M2, N(x))
    <3>1. CASE t.parent[x] = Null
      BY ONLY <1>5, <1>7, <1>8, <1>9, <2>1, <3>1 DEF UpShape
    <3>2. CASE t.parent[x] # Null
      <4> DEFINE q == t.parent[x]
      <4>1. q \in M /\ x # t.root /\ x \in {t.left[q], t.right[q]}
        BY ONLY <2>1, <3>2 DEF UpShape
      <4>2. t.root \in M \cup {Null}
        BY <1>1 DEF Shape, RootShape
      <4>3. v.parent[N(x)] = N(q) /\ N(q) # Null /\ N(q) \in M2 /\ N(x) # v.root
        BY ONLY <1>5, <1>7, <1>8, <1>9, <3>2, <4>1, <4>2
      <4>4. N(x) \in {v.left[N(q)], v.right[N(q)]}
        BY ONLY <1>8, <1>9, <4>1
      <4> HIDE DEF q
      <4> QED BY ONLY <4>3, <4>4 DEF UpShape
    <3> QED BY <3>1, <3>2
  <2>5. Exact(v, lo2, hi2, N(x))
    <3>1. \A y \in M \cup {Null} : h(v, N(y)) = h(t, y)
      BY ONLY <1>2, <1>7, <1>8 DEF h
    <3>2. Exact(t, lo, hi, x)
      BY <1>1, <1>9
    <3> QED BY ONLY <1>5, <1>8, <1>9, <2>1, <3>1, <3>2 DEF Exact
  <2> QED BY ONLY <1>3, <1>5, <1>9, <2>1, <2>2, <2>3, <2>4, <2>5 DEF NodeShape
<1>10. RootShape(v, M2, lo2, hi2)
  <2>1. t.root \in M /\ lo[t.root] = 1 /\ hi[t.root] = Cardinality(M)
    <3>1. M # {}
      OBVIOUS
    <3> QED BY <1>1, <3>1 DEF Shape, RootShape
  <2> QED BY ONLY <1>2, <1>3, <1>5, <1>7, <1>8, <2>1 DEF RootShape
<1>11. ASSUME NEW x \in M2, NEW y \in M2, at2[x] = at2[y] PROVE x = y
  <2>1. PICK x1 \in M, y1 \in M : x = N(x1) /\ y = N(y1)
    BY <1>6
  <2>2. at[x1] = at[y1]
    BY ONLY <1>5, <1>11, <2>1
  <2> QED BY <1>1, <2>1, <2>2 DEF Shape
<1>12. \A y \in M2 : NodeShape(v, M2, at2, lo2, hi2, y) /\ Exact(v, lo2, hi2, y)
  BY ONLY <1>6, <1>9
<1>13. Shape(v, M2, at2, lo2, hi2)
  BY ONLY <1>3, <1>4, <1>10, <1>11, <1>12, v \in Tree DEF Shape
<1> HIDE DEF Sound
<1>14. Sound(v, M2, at2)
  BY ONLY <1>12, <1>13 DEF Sound
<1> QED BY <1>14 DEF M2, at2

\* The tree after w has been given the fields of n and its links.
Replaced(u, n, w) ==
  LET copied == [u EXCEPT !.parent[w] = u.parent[n], !.left[w] = u.left[n],
                          !.right[w] = u.right[n], !.height[w] = u.height[n],
                          !.count[w] = u.count[n]]
  IN  Relink(Adopt(Adopt(copied, u.left[n], w), u.right[n], w), u.parent[n], n, w)

\* Its fields.
LEMMA ReplacedFields ==
  ASSUME NEW u \in Tree, NEW n \in Node, NEW w \in Node, w # n, NEW v, v = Replaced(u, n, w),
         NEW l, l = u.left[n], NEW r, r = u.right[n], NEW p, p = u.parent[n], w \notin {l, r, p}
  PROVE  /\ v \in Tree /\ v.root = (IF p = Null THEN w ELSE u.root)
         /\ v.parent[w] = p /\ v.left[w] = l /\ v.right[w] = r
         /\ v.height[w] = u.height[n] /\ v.count[w] = u.count[n]
         /\ \A x \in Node \ {w} :
              /\ v.parent[x] = (IF x \in {l, r} THEN w ELSE u.parent[x])
              /\ v.left[x] = (IF x = p /\ u.left[p] = n THEN w ELSE u.left[x])
              /\ v.right[x] = (IF x = p /\ u.left[p] # n THEN w ELSE u.right[x])
              /\ v.height[x] = u.height[x] /\ v.count[x] = u.count[x]
<1> DEFINE copied == [u EXCEPT !.parent[w] = u.parent[n], !.left[w] = u.left[n],
                               !.right[w] = u.right[n], !.height[w] = u.height[n],
                               !.count[w] = u.count[n]]
           a1 == Adopt(copied, l, w)
           a2 == Adopt(a1, r, w)
<1>1. v = Relink(a2, p, n, w)
  BY DEF Replaced
<1>2. /\ l \in NullOr /\ r \in NullOr /\ p \in NullOr /\ w \in NullOr /\ w # Null
      /\ p # Null => p \in Node \ {w}
  BY TreeFields, NodeAssumption DEF NullOr
<1>3. /\ copied = [u EXCEPT !.parent = [u.parent EXCEPT ![w] = p],
                            !.left = [u.left EXCEPT ![w] = l],
                            !.right = [u.right EXCEPT ![w] = r],
                            !.height = [u.height EXCEPT ![w] = u.height[n]],
                            !.count = [u.count EXCEPT ![w] = u.count[n]]]
  BY DEF Tree
<1> HIDE DEF copied
<1>4. /\ copied.root = u.root
      /\ copied.parent = [u.parent EXCEPT ![w] = p] /\ copied.left = [u.left EXCEPT ![w] = l]
      /\ copied.right = [u.right EXCEPT ![w] = r]
      /\ copied.height = [u.height EXCEPT ![w] = u.height[n]]
      /\ copied.count = [u.count EXCEPT ![w] = u.count[n]]
  BY ONLY <1>3, u \in Tree DEF Tree
<1>5. copied \in Tree
  <2>1. /\ [u.parent EXCEPT ![w] = p] \in [Node -> NullOr]
        /\ [u.left EXCEPT ![w] = l] \in [Node -> NullOr]
        /\ [u.right EXCEPT ![w] = r] \in [Node -> NullOr]
        /\ [u.height EXCEPT ![w] = u.height[n]] \in [Node -> Int]
        /\ [u.count EXCEPT ![w] = u.count[n]] \in [Node -> Int]
    BY <1>2, TreeFields
  <2> QED BY ONLY <1>3, <2>1, u \in Tree DEF Tree
<1>6. /\ copied.parent[w] = p /\ copied.left[w] = l /\ copied.right[w] = r
      /\ copied.height[w] = u.height[n] /\ copied.count[w] = u.count[n]
      /\ \A x \in Node \ {w} :
           /\ copied.parent[x] = u.parent[x] /\ copied.left[x] = u.left[x]
           /\ copied.right[x] = u.right[x] /\ copied.height[x] = u.height[x]
           /\ copied.count[x] = u.count[x]
  BY ONLY <1>4, u \in Tree, w \in Node, TreeFields
<1>7. /\ a1 \in Tree /\ a1.root = copied.root
      /\ a1.left = copied.left /\ a1.right = copied.right
      /\ a1.height = copied.height /\ a1.count = copied.count
      /\ \A x \in Node : a1.parent[x] = IF x = l THEN w ELSE copied.parent[x]
  BY ONLY <1>2, <1>5, AdoptFields
<1> HIDE DEF a1
<1>8. /\ a2 \in Tree /\ a2.root = a1.root /\ a2.left = a1.left /\ a2.right = a1.right
      /\ a2.height = a1.height /\ a2.count = a1.count
      /\ \A x \in Node : a2.parent[x] = IF x = r THEN w ELSE a1.parent[x]
  BY ONLY <1>2, <1>7, AdoptFields
<1> HIDE DEF a2
<1>9. /\ v \in Tree /\ v.root = (IF p = Null THEN w ELSE a2.root)
      /\ v.parent = a2.parent /\ v.height = a2.height /\ v.count = a2.count
      /\ \A x \in Node :
           /\ v.left[x] = IF x = p /\ a2.left[p] = n THEN w ELSE a2.left[x]
           /\ v.right[x] = IF x = p /\ a2.left[p] # n THEN w ELSE a2.right[x]
  BY ONLY <1>1, <1>2, <1>8, RelinkFields
<1>10. p \in Node => a2.left[p] = u.left[p]
  BY ONLY <1>2, <1>6, <1>7, <1>8, w \notin {l, r, p}
<1>11. /\ v.parent[w] = p /\ v.left[w] = l /\ v.right[w] = r
       /\ v.height[w] = u.height[n] /\ v.count[w] = u.count[n]
  BY ONLY <1>6, <1>7, <1>8, <1>9, w \in Node, w \notin {l, r, p}
<1>12. ASSUME NEW x \in Node \ {w}
       PROVE  /\ v.parent[x] = (IF x \in {l, r} THEN w ELSE u.parent[x])
              /\ v.left[x] = (IF x = p /\ u.left[p] = n THEN w ELSE u.left[x])
              /\ v.right[x] = (IF x = p /\ u.left[p] # n THEN w ELSE u.right[x])
              /\ v.height[x] = u.height[x] /\ v.count[x] = u.count[x]
  <2>1. v.parent[x] = (IF x \in {l, r} THEN w ELSE u.parent[x])
    BY ONLY <1>6, <1>7, <1>8, <1>9, <1>12
  <2>2. /\ v.left[x] = (IF x = p /\ u.left[p] = n THEN w ELSE u.left[x])
        /\ v.right[x] = (IF x = p /\ u.left[p] # n THEN w ELSE u.right[x])
    BY ONLY <1>6, <1>7, <1>8, <1>9, <1>10, <1>12
  <2>3. v.height[x] = u.height[x] /\ v.count[x] = u.count[x]
    BY ONLY <1>6, <1>7, <1>8, <1>9, <1>12
  <2> QED BY ONLY <2>1, <2>2, <2>3
<1>13. v.root = (IF p = Null THEN w ELSE u.root)
  BY ONLY <1>4, <1>7, <1>8, <1>9
<1> QED BY ONLY <1>9, <1>11, <1>12, <1>13

\* w, which is in no tree, takes the place of n.
LEMMA ReplacedSound ==
  ASSUME NEW u, NEW M, NEW at, Sound(u, M, at), NEW n \in M, NEW w \in Node, w \notin M,
         NEW v, v = Replaced(u, n, w)
  PROVE  /\ Sound(v, (M \ {n}) \cup {w}, [at EXCEPT ![w] = at[n]])
         /\ \A x \in Node \ (M \cup {w}) :
              /\ v.parent[x] = u.parent[x] /\ v.left[x] = u.left[x] /\ v.right[x] = u.right[x]
              /\ v.height[x] = u.height[x] /\ v.count[x] = u.count[x]
<1>1. PICK lo, hi : Shape(u, M, at, lo, hi)
  BY DEF Sound
<1> DEFINE l == u.left[n]
           r == u.right[n]
           p == u.parent[n]
<1>2. /\ u \in Tree /\ M \subseteq Node /\ n \in Node /\ w # n /\ n # Null /\ Null \notin M /\ w # Null
      /\ l \in M \cup {Null} /\ r \in M \cup {Null} /\ p \in M \cup {Null}
  BY <1>1, ShapeNode, NodeAssumption DEF Shape
<1>3. l # n /\ r # n /\ p # n
  BY <1>1, <1>2, LeftChild, RightChild, ParentOf
<1>4. w \notin {l, r, p}
  BY ONLY <1>2, w \notin M
<1>5. /\ \A x \in M : u.parent[x] = n <=> x \in {l, r}
      /\ \A x \in M : u.left[x] = n => x = p
      /\ \A x \in M : u.right[x] = n => x = p /\ u.left[x] # n
      /\ p # Null => u.left[p] = n \/ u.right[p] = n
      /\ p = Null <=> u.root = n
  <2>1. \A x \in M : u.parent[x] = n => x \in {l, r}
    BY <1>1, <1>2, ShapeNode DEF UpShape
  <2>2. \A x \in M : x \in {l, r} => u.parent[x] = n
    BY <1>1, <1>2, LeftChild, RightChild
  <2>3. \A x \in M : u.left[x] = n => x = p
    BY <1>1, <1>2, LeftChild
  <2>4. \A x \in M : u.right[x] = n => x = p /\ u.left[x] # n
    BY <1>1, <1>2, RightChild
  <2>5. UpShape(u, M, n)
    BY <1>1, ShapeNode
  <2> QED BY ONLY <2>1, <2>2, <2>3, <2>4, <2>5 DEF UpShape
<1> HIDE DEF l, r, p
<1>6. /\ v \in Tree /\ v.root = (IF p = Null THEN w ELSE u.root)
      /\ v.parent[w] = p /\ v.left[w] = l /\ v.right[w] = r
      /\ v.height[w] = u.height[n] /\ v.count[w] = u.count[n]
      /\ \A x \in Node \ {w} :
           /\ v.parent[x] = (IF x \in {l, r} THEN w ELSE u.parent[x])
           /\ v.left[x] = (IF x = p /\ u.left[p] = n THEN w ELSE u.left[x])
           /\ v.right[x] = (IF x = p /\ u.left[p] # n THEN w ELSE u.right[x])
           /\ v.height[x] = u.height[x] /\ v.count[x] = u.count[x]
  <2>1. l = u.left[n] /\ r = u.right[n] /\ p = u.parent[n]
    BY DEF l, r, p
  <2> QED BY ONLY <1>2, <1>4, <2>1, w \in Node, v = Replaced(u, n, w), ReplacedFields
<1>7. ASSUME NEW x \in M, x # n
      PROVE  /\ v.parent[x] = Name(n, w, u.parent[x])
             /\ v.left[x] = Name(n, w, u.left[x]) /\ v.right[x] = Name(n, w, u.right[x])
             /\ v.height[x] = u.height[x] /\ v.count[x] = u.count[x]
  <2>1. x \in Node \ {w} /\ x # Null
    BY ONLY <1>2, <1>7, w \notin M
  <2>2. v.parent[x] = Name(n, w, u.parent[x])
    BY ONLY <1>5, <1>6, <1>7, <2>1 DEF Name
  <2>3. v.left[x] = Name(n, w, u.left[x])
    BY ONLY <1>5, <1>6, <1>7, <2>1 DEF Name
  <2>4. v.right[x] = Name(n, w, u.right[x])
    BY ONLY <1>5, <1>6, <1>7, <2>1 DEF Name
  <2> QED BY ONLY <1>6, <2>1, <2>2, <2>3, <2>4
<1>8. /\ v.parent[w] = Name(n, w, u.parent[n]) /\ v.left[w] = Name(n, w, u.left[n])
      /\ v.right[w] = Name(n, w, u.right[n])
  BY ONLY <1>3, <1>6 DEF Name, l, r, p
<1>9. v.root = Name(n, w, u.root)
  BY ONLY <1>5, <1>6 DEF Name
<1>10. Renamed(u, v, M, n, w)
  BY ONLY <1>6, <1>7, <1>8, <1>9 DEF Renamed, Name
<1>11. Sound(v, (M \ {n}) \cup {w}, [at EXCEPT ![w] = at[n]])
  BY ONLY <1>6, <1>10, Sound(u, M, at), n \in M, w \in Node, w \notin M, RenamedSound
<1>12. \A x \in Node \ (M \cup {w}) :
         /\ v.parent[x] = u.parent[x] /\ v.left[x] = u.left[x] /\ v.right[x] = u.right[x]
         /\ v.height[x] = u.height[x] /\ v.count[x] = u.count[x]
  BY ONLY <1>2, <1>6, NodeAssumption
<1> QED BY ONLY <1>11, <1>12

\* AVLNode changes the fields of one node.
LEMMA AVLNodeFields ==
  ASSUME NEW t \in Tree, NEW n \in Node
  PROVE  /\ AVLNode(t, n) \in Tree /\ AVLNode(t, n).root = t.root
         /\ AVLNode(t, n).parent = [t.parent EXCEPT ![n] = Null]
         /\ AVLNode(t, n).left = [t.left EXCEPT ![n] = Null]
         /\ AVLNode(t, n).right = [t.right EXCEPT ![n] = Null]
         /\ AVLNode(t, n).height = [t.height EXCEPT ![n] = 1]
         /\ AVLNode(t, n).count = [t.count EXCEPT ![n] = 1]
<1>1. AVLNode(t, n) =
        [t EXCEPT !.parent = [t.parent EXCEPT ![n] = Null],
                  !.left = [t.left EXCEPT ![n] = Null],
                  !.right = [t.right EXCEPT ![n] = Null],
                  !.height = [t.height EXCEPT ![n] = 1], !.count = [t.count EXCEPT ![n] = 1]]
  BY DEF AVLNode, Tree
<1>2. /\ [t.parent EXCEPT ![n] = Null] \in [Node -> NullOr]
      /\ [t.left EXCEPT ![n] = Null] \in [Node -> NullOr]
      /\ [t.right EXCEPT ![n] = Null] \in [Node -> NullOr]
      /\ [t.height EXCEPT ![n] = 1] \in [Node -> Int]
      /\ [t.count EXCEPT ![n] = 1] \in [Node -> Int]
  BY TreeFields DEF NullOr
<1> QED BY ONLY <1>1, <1>2, t \in Tree DEF Tree

\* A member is taken out, whatever children it has: those behind it move one
\* place.
LEMMA DelSound ==
  ASSUME NEW t, NEW M, NEW at, TreeOK(t, M, at), NEW n \in M, NEW v, v = del(t, n)
  PROVE  \E at2 : /\ Sound(v, M \ {n}, at2) /\ Rest(t, v, M)
                  /\ \A x \in M \ {n} : at2[x] = IF at[x] > at[n] THEN at[x] - 1 ELSE at[x]
<1>1. PICK lo, hi : Shape(t, M, at, lo, hi)
  BY DEF TreeOK, Sound
<1>2. /\ M \subseteq Node /\ at \in Places /\ n \in Node /\ \A x \in M : at[x] \in Int
      /\ Sound(t, M, at)
  BY <1>1, ShapeNode DEF Shape, TreeOK
<1>3. \A x \in M \ {n} : at[x] # at[n]
  BY <1>1 DEF Shape
<1>4. CASE t.left[n] = Null \/ t.right[n] = Null
  <2> DEFINE at2 == Closed(at, at[n] + 1)
  <2>1. v = del_easy(t, n)
    BY <1>4 DEF del
  <2>2. Sound(v, M \ {n}, at2) /\ Rest(t, v, M)
    BY ONLY <1>2, <1>4, <2>1, n \in M, DelEasy
  <2>3. \A x \in M \ {n} : at2[x] = IF at[x] > at[n] THEN at[x] - 1 ELSE at[x]
    BY ONLY <1>2, n \in M DEF Closed
  <2> QED BY <2>2, <2>3
<1>5. CASE ~ (t.left[n] = Null \/ t.right[n] = Null)
  <2> DEFINE w == Leftmost(t, t.right[n])
             u == del_easy(t, w)
             M3 == M \ {w}
             at3 == Closed(at, at[w] + 1)
             at2 == [at3 EXCEPT ![w] = at3[n]]
  <2>1. v = Replaced(u, n, w)
    BY <1>5 DEF del, Replaced
  <2>2. w \in M /\ t.left[w] = Null /\ at[w] = at[n] + 1
    <3>1. t.right[n] \in M /\ lo[t.right[n]] = at[n] + 1
      BY <1>1, <1>5, RightChild
    <3>2. PICK r : r = t.right[n]
      OBVIOUS
    <3> QED BY ONLY <1>1, <3>1, <3>2, LeftmostIs
  <2> HIDE DEF w
  <2>3. w # n /\ n \in M3 /\ w \in Node /\ w \notin M3
    <3>1. at[n] \in Int
      BY <1>2
    <3>2. w # n
      BY ONLY <2>2, <3>1
    <3> QED BY <1>2, <2>2, <3>2
  <2>4. Sound(u, M3, at3) /\ Rest(t, u, M)
    BY ONLY <1>2, <2>2, DelEasy
  <2> HIDE DEF u, at3
  <2>5. /\ Sound(v, (M3 \ {n}) \cup {w}, at2)
        /\ \A x \in Node \ (M3 \cup {w}) :
              /\ v.parent[x] = u.parent[x] /\ v.left[x] = u.left[x] /\ v.right[x] = u.right[x]
              /\ v.height[x] = u.height[x] /\ v.count[x] = u.count[x]
    <3> HIDE DEF M3
    <3> QED BY ONLY <2>1, <2>3, <2>4, ReplacedSound
  <2>6. (M3 \ {n}) \cup {w} = M \ {n} /\ M3 \cup {w} = M
    BY <2>2, <2>3
  <2>7. Rest(u, v, M)
    BY ONLY <2>5, <2>6 DEF Rest
  <2>8. Rest(t, v, M)
    BY ONLY <2>4, <2>7, RestChain
  <2>9. ASSUME NEW x \in M \ {n} PROVE at2[x] = IF at[x] > at[n] THEN at[x] - 1 ELSE at[x]
    <3>1. /\ at3 \in [Node -> Int]
          /\ \A y \in Node : at3[y] = IF at[y] >= at[w] + 1 THEN at[y] - 1 ELSE at[y]
      BY <1>2, <2>3 DEF at3, Closed, Places
    <3>2. x = w => at2[x] = at3[n]
      BY ONLY <1>2, <2>3, <3>1
    <3>3. x # w => at2[x] = at3[x]
      BY ONLY <1>2, <2>3, <3>1
    <3>4. x # w => at[x] # at[w]
      BY <1>1, <2>2 DEF Shape
    <3> HIDE DEF at2
    <3>5. x \in Node /\ n \in Node /\ at[x] \in Int /\ at[n] \in Int /\ at[w] = at[n] + 1
      BY ONLY <1>2, <2>2, <2>9
    <3>6. CASE x = w
      <4>1. at3[n] = at[n]
        BY ONLY <3>1, <3>5
      <4> QED BY ONLY <3>2, <3>5, <3>6, <4>1
    <3>7. CASE x # w
      <4>1. at3[x] = IF at[x] >= at[n] + 2 THEN at[x] - 1 ELSE at[x]
        BY ONLY <3>1, <3>5
      <4>2. at[x] # at[n] + 1
        BY ONLY <3>4, <3>5, <3>7
      <4>3. at[x] > at[n] <=> at[x] >= at[n] + 2
        BY ONLY <3>5, <4>2
      <4> QED BY ONLY <3>3, <3>7, <4>1, <4>3
    <3> QED BY ONLY <3>6, <3>7
  <2> QED BY ONLY <2>5, <2>6, <2>8, <2>9
<1> QED BY <1>4, <1>5

-----------------------------------------------------------------------------
(* Navigation. *)

\* What a sound tree says of a member.
LEMMA MemberFacts ==
  ASSUME NEW t, NEW M, NEW at, NEW lo, NEW hi, Shape(t, M, at, lo, hi),
         \A x \in M : Exact(t, lo, hi, x), NEW x \in M
  PROVE  /\ at[x] \in Int /\ lo[x] \in Int /\ hi[x] \in Int
         /\ 1 <= lo[x] /\ lo[x] <= at[x] /\ at[x] <= hi[x] /\ hi[x] <= Cardinality(M)
         /\ cnt(t, t.left[x]) = at[x] - lo[x] /\ cnt(t, t.right[x]) = hi[x] - at[x]
<1>1. /\ at[x] \in Int /\ lo[x] \in Int /\ hi[x] \in Int
      /\ 1 <= lo[x] /\ lo[x] <= at[x] /\ at[x] <= hi[x] /\ hi[x] <= Cardinality(M)
  BY ShapeNode
<1>2. /\ t.left[x] # Null => Exact(t, lo, hi, t.left[x])
      /\ t.right[x] # Null => Exact(t, lo, hi, t.right[x])
  BY LeftChild, RightChild
<1>3. at[x] - cnt(t, t.left[x]) = lo[x] /\ at[x] + cnt(t, t.right[x]) = hi[x]
  BY <1>2, LeftExact, RightExact
<1>4. cnt(t, t.left[x]) \in Int /\ cnt(t, t.right[x]) \in Int
  BY MemberHeights
<1> QED BY ONLY <1>1, <1>3, <1>4

\* A state of the loop of offset that looks for the place g, so many places d
\* from where it started.
Walking(M, at, d, g, s) ==
  /\ s \in [node : NullOr, pos : Int]
  /\ IF s.node = Null THEN g \notin 1 .. Cardinality(M)
     ELSE s.node \in M /\ s.pos = at[s.node] - (g - d)

\* The number of rounds it may still take: first up to a subtree with the
\* place, then down.
WalkLeft(lo, hi, d, g, s) ==
  IF s.node = Null \/ s.pos = d THEN 0
  ELSE IF lo[s.node] <= g /\ g <= hi[s.node] THEN hi[s.node] - lo[s.node]
  ELSE 2 * PathBound - (hi[s.node] - lo[s.node])

\* A round comes closer.
LEMMA WalkOn ==
  ASSUME NEW t, NEW M, NEW at, NEW lo, NEW hi, Shape(t, M, at, lo, hi),
         \A x \in M : Exact(t, lo, hi, x), NEW d \in Int, NEW g \in Int,
         NEW s, Walking(M, at, d, g, s), s.node # Null, s.pos # d,
         NEW z, z = WalkRound(t, s.node, s.pos, d)
  PROVE  /\ Walking(M, at, d, g, z)
         /\ WalkLeft(lo, hi, d, g, z) < WalkLeft(lo, hi, d, g, s)
<1> DEFINE N == Cardinality(M)
           B == PathBound
<1>1. N \in Nat /\ B \in Nat /\ N <= B /\ M \subseteq Node /\ Null \notin M
  BY ShapeSize, NodeAssumption DEF Shape
<1>2. PICK x, i : x = s.node /\ i = s.pos
  OBVIOUS
<1>3. x \in M /\ i \in Int /\ i = at[x] - (g - d) /\ i # d
  BY ONLY <1>2, Walking(M, at, d, g, s), s.node # Null, s.pos # d DEF Walking
<1>4. \A y \in M : /\ at[y] \in Int /\ lo[y] \in Int /\ hi[y] \in Int
                   /\ 1 <= lo[y] /\ lo[y] <= at[y] /\ at[y] <= hi[y] /\ hi[y] <= N
                   /\ cnt(t, t.left[y]) = at[y] - lo[y] /\ cnt(t, t.right[y]) = hi[y] - at[y]
  BY ONLY Shape(t, M, at, lo, hi), \A y \in M : Exact(t, lo, hi, y), MemberFacts
<1>5. PICK l, r, p : l = t.left[x] /\ r = t.right[x] /\ p = t.parent[x]
  OBVIOUS
<1>6. /\ l # Null => l \in M /\ lo[l] = lo[x] /\ hi[l] = at[x] - 1
      /\ l = Null => lo[x] = at[x]
      /\ r # Null => r \in M /\ hi[r] = hi[x] /\ lo[r] = at[x] + 1
      /\ r = Null => hi[x] = at[x]
  <2>1. LeftShape(t, M, at, lo, hi, x) /\ RightShape(t, M, at, lo, hi, x)
    BY ONLY Shape(t, M, at, lo, hi), <1>3, ShapeNode
  <2> QED BY ONLY <1>5, <2>1 DEF LeftShape, RightShape
<1>7. z = IF i < d /\ i + cnt(t, r) >= d
            THEN [node |-> r, pos |-> i + cnt(t, t.left[r]) + 1]
          ELSE IF i > d /\ i - cnt(t, l) <= d
            THEN [node |-> l, pos |-> i - (cnt(t, t.right[l]) + 1)]
          ELSE IF p = Null THEN [node |-> Null, pos |-> i]
          ELSE IF t.right[p] = x
            THEN [node |-> p, pos |-> i - (cnt(t, l) + 1)]
          ELSE [node |-> p, pos |-> i + cnt(t, r) + 1]
  BY ONLY <1>2, <1>5, z = WalkRound(t, s.node, s.pos, d) DEF WalkRound
<1> HIDE DEF N, B
<1>8. cnt(t, l) = at[x] - lo[x] /\ cnt(t, r) = hi[x] - at[x]
  BY ONLY <1>3, <1>4, <1>5
<1>9. /\ (i < d /\ i + cnt(t, r) >= d) <=> (at[x] < g /\ g <= hi[x])
      /\ (i > d /\ i - cnt(t, l) <= d) <=> (g < at[x] /\ lo[x] <= g)
      /\ at[x] # g
  BY ONLY <1>3, <1>4, <1>8, d \in Int, g \in Int
<1>10. WalkLeft(lo, hi, d, g, s) = IF lo[x] <= g /\ g <= hi[x] THEN hi[x] - lo[x]
                                   ELSE 2 * B - (hi[x] - lo[x])
  BY ONLY <1>2, <1>3, s.node # Null DEF WalkLeft, B
<1>11. ASSUME NEW y \in M, NEW j, z = [node |-> y, pos |-> j], j = at[y] - (g - d)
       PROVE  /\ Walking(M, at, d, g, z) /\ z.node = y
              /\ WalkLeft(lo, hi, d, g, z) \in
                   {0, IF lo[y] <= g /\ g <= hi[y] THEN hi[y] - lo[y] ELSE 2 * B - (hi[y] - lo[y])}
  <2>1. y \in NullOr /\ y # Null /\ j \in Int
    BY ONLY <1>1, <1>4, <1>11, d \in Int, g \in Int DEF NullOr
  <2> QED BY ONLY <1>11, <2>1 DEF Walking, WalkLeft, B
<1>12. CASE at[x] < g /\ g <= hi[x]
  <2>1. z = [node |-> r, pos |-> i + cnt(t, t.left[r]) + 1]
    BY ONLY <1>7, <1>9, <1>12
  <2>2. r \in M /\ hi[r] = hi[x] /\ lo[r] = at[x] + 1
    BY ONLY <1>3, <1>4, <1>6, <1>12, g \in Int
  <2>3. i + cnt(t, t.left[r]) + 1 = at[r] - (g - d)
    BY ONLY <1>3, <1>4, <2>2, d \in Int, g \in Int
  <2>4. /\ Walking(M, at, d, g, z)
        /\ WalkLeft(lo, hi, d, g, z) \in
             {0, IF lo[r] <= g /\ g <= hi[r] THEN hi[r] - lo[r] ELSE 2 * B - (hi[r] - lo[r])}
    BY ONLY <1>11, <2>1, <2>2, <2>3
  <2>5. WalkLeft(lo, hi, d, g, z) \in {0, hi[r] - lo[r]}
    BY ONLY <1>3, <1>4, <1>12, <2>2, <2>4, g \in Int
  <2>6. WalkLeft(lo, hi, d, g, s) = hi[x] - lo[x]
    BY ONLY <1>3, <1>4, <1>10, <1>12, g \in Int
  <2> QED BY ONLY <1>3, <1>4, <1>12, <2>2, <2>4, <2>5, <2>6, g \in Int
<1>13. CASE g < at[x] /\ lo[x] <= g
  <2>1. z = [node |-> l, pos |-> i - (cnt(t, t.right[l]) + 1)]
    <3>1. ~ (at[x] < g)
      BY ONLY <1>3, <1>4, <1>13, g \in Int
    <3> QED BY ONLY <1>7, <1>9, <1>13, <3>1
  <2>2. l \in M /\ lo[l] = lo[x] /\ hi[l] = at[x] - 1
    BY ONLY <1>3, <1>4, <1>6, <1>13, g \in Int
  <2>3. i - (cnt(t, t.right[l]) + 1) = at[l] - (g - d)
    BY ONLY <1>3, <1>4, <2>2, d \in Int, g \in Int
  <2>4. /\ Walking(M, at, d, g, z)
        /\ WalkLeft(lo, hi, d, g, z) \in
             {0, IF lo[l] <= g /\ g <= hi[l] THEN hi[l] - lo[l] ELSE 2 * B - (hi[l] - lo[l])}
    BY ONLY <1>11, <2>1, <2>2, <2>3
  <2>5. WalkLeft(lo, hi, d, g, z) \in {0, hi[l] - lo[l]}
    BY ONLY <1>3, <1>4, <1>13, <2>2, <2>4, g \in Int
  <2>6. WalkLeft(lo, hi, d, g, s) = hi[x] - lo[x]
    BY ONLY <1>3, <1>4, <1>10, <1>13, g \in Int
  <2> QED BY ONLY <1>3, <1>4, <1>13, <2>2, <2>4, <2>5, <2>6, g \in Int
<1>14. CASE ~ (lo[x] <= g /\ g <= hi[x])
  <2>1. z = IF p = Null THEN [node |-> Null, pos |-> i]
            ELSE IF t.right[p] = x
              THEN [node |-> p, pos |-> i - (cnt(t, l) + 1)]
            ELSE [node |-> p, pos |-> i + cnt(t, r) + 1]
    <3>1. ~ (at[x] < g /\ g <= hi[x]) /\ ~ (g < at[x] /\ lo[x] <= g)
      BY ONLY <1>3, <1>4, <1>14, g \in Int
    <3> QED BY ONLY <1>7, <1>9, <3>1
  <2>2. WalkLeft(lo, hi, d, g, s) = 2 * B - (hi[x] - lo[x])
    BY ONLY <1>10, <1>14
  <2>3. hi[x] - lo[x] < B
    BY ONLY <1>1, <1>3, <1>4
  <2>4. CASE p = Null
    <3>1. x = t.root
      <4>1. UpShape(t, M, x)
        BY ONLY Shape(t, M, at, lo, hi), <1>3, ShapeNode
      <4> QED BY ONLY <1>5, <2>4, <4>1 DEF UpShape
    <3>2. lo[x] = 1 /\ hi[x] = N
      <4>1. RootShape(t, M, lo, hi) /\ t.root # Null
        BY ONLY Shape(t, M, at, lo, hi), <1>1, <1>3, <3>1 DEF Shape
      <4> QED BY ONLY <3>1, <4>1 DEF RootShape, N
    <3>3. g \notin 1 .. N
      BY ONLY <1>1, <1>14, <3>2, g \in Int
    <3>4. z = [node |-> Null, pos |-> i]
      BY ONLY <2>1, <2>4
    <3>5. Walking(M, at, d, g, z)
      BY ONLY <1>3, <3>3, <3>4 DEF Walking, NullOr, N
    <3>6. WalkLeft(lo, hi, d, g, z) = 0
      BY ONLY <3>4 DEF WalkLeft
    <3> QED BY ONLY <1>1, <1>3, <1>4, <2>2, <2>3, <3>5, <3>6
  <2>5. CASE p # Null
    <3>1. /\ p \in M /\ p # x
          /\ \/ x = t.left[p] /\ lo[x] = lo[p] /\ hi[x] = at[p] - 1
             \/ x = t.right[p] /\ hi[x] = hi[p] /\ lo[x] = at[p] + 1
      BY ONLY Shape(t, M, at, lo, hi), <1>3, <1>5, <2>5, ParentOf
    <3>2. x = t.left[p] => x # t.right[p]
      <4>1. x # Null
        BY ONLY <1>1, <1>3
      <4> QED BY ONLY Shape(t, M, at, lo, hi), <3>1, <4>1, LeftChild
    <3>3. PICK j : z = [node |-> p, pos |-> j] /\ j = at[p] - (g - d)
      <4>1. CASE t.right[p] = x
        <5>1. z = [node |-> p, pos |-> i - (cnt(t, l) + 1)]
          BY ONLY <2>1, <2>5, <4>1
        <5>2. i - (cnt(t, l) + 1) = at[p] - (g - d)
          BY ONLY <1>3, <1>4, <1>8, <3>1, <3>2, <4>1, d \in Int, g \in Int
        <5> QED BY ONLY <5>1, <5>2
      <4>2. CASE t.right[p] # x
        <5>1. z = [node |-> p, pos |-> i + cnt(t, r) + 1]
          BY ONLY <2>1, <2>5, <4>2
        <5>2. i + cnt(t, r) + 1 = at[p] - (g - d)
          BY ONLY <1>3, <1>4, <1>8, <3>1, <3>2, <4>2, d \in Int, g \in Int
        <5> QED BY ONLY <5>1, <5>2
      <4> QED BY <4>1, <4>2
    <3>4. /\ Walking(M, at, d, g, z)
          /\ WalkLeft(lo, hi, d, g, z) \in
               {0, IF lo[p] <= g /\ g <= hi[p] THEN hi[p] - lo[p] ELSE 2 * B - (hi[p] - lo[p])}
      BY ONLY <1>11, <3>1, <3>3
    <3>5. hi[p] - lo[p] < B /\ hi[x] - lo[x] < hi[p] - lo[p]
      BY ONLY <1>1, <1>3, <1>4, <3>1
    <3> QED BY ONLY <1>1, <1>3, <1>4, <2>2, <2>3, <3>1, <3>4, <3>5
  <2> QED BY <2>4, <2>5
<1>15. \/ at[x] < g /\ g <= hi[x]
       \/ g < at[x] /\ lo[x] <= g
       \/ ~ (lo[x] <= g /\ g <= hi[x])
  BY ONLY <1>3, <1>4, <1>9, g \in Int
<1> QED BY ONLY <1>12, <1>13, <1>14, <1>15

\* offset comes to the node at the place it looks for, if there is one.
LEMMA OffsetIs ==
  ASSUME NEW t, NEW M, NEW at, Sound(t, M, at), NEW n \in M, NEW d \in Int,
         NEW v, v = AVLNode_offset(t, n, d)
  PROVE  IF v = Null THEN at[n] + d \notin 1 .. Cardinality(M) ELSE v \in M /\ at[v] = at[n] + d
<1>1. PICK lo, hi : Shape(t, M, at, lo, hi) /\ \A x \in M : Exact(t, lo, hi, x)
  BY DEF Sound
<1> DEFINE S == [node : NullOr, pos : Int]
           round == [s \in S |-> IF s.node = Null \/ s.pos = d THEN s
                                 ELSE WalkRound(t, s.node, s.pos, d)]
           start == [node |-> n, pos |-> 0]
           g == at[n] + d
           R == {s \in S : Walking(M, at, d, g, s)}
           left == [s \in R |-> WalkLeft(lo, hi, d, g, s)]
           B == PathBound
           final == Iterate(round, start, 2 * B)
<1>2. v = final.node
  BY DEF AVLNode_offset
<1>3. /\ Cardinality(M) \in Nat /\ B \in Nat /\ Cardinality(M) <= B /\ M \subseteq Node /\ Null \notin M
  BY <1>1, ShapeSize, NodeAssumption DEF Shape
<1>4. \A y \in M : /\ at[y] \in Int /\ lo[y] \in Int /\ hi[y] \in Int
                   /\ 1 <= lo[y] /\ lo[y] <= at[y] /\ at[y] <= hi[y] /\ hi[y] <= Cardinality(M)
  BY ONLY <1>1, MemberFacts
<1>5. g \in Int
  BY ONLY <1>4, n \in M, d \in Int
<1>6. start \in R
  <2>1. n \in NullOr /\ n # Null
    BY <1>3 DEF NullOr
  <2>2. 0 = at[n] - (g - d)
    BY ONLY <1>4, n \in M, d \in Int
  <2> HIDE DEF g
  <2> QED BY ONLY <2>1, <2>2, n \in M DEF Walking
<1> HIDE DEF g
<1>7. ASSUME NEW s \in R PROVE WalkLeft(lo, hi, d, g, s) \in Nat /\ WalkLeft(lo, hi, d, g, s) <= 2 * B
  <2>1. CASE s.node = Null \/ s.pos = d
    BY ONLY <1>3, <2>1 DEF WalkLeft
  <2>2. CASE ~ (s.node = Null \/ s.pos = d)
    <3>1. s.node \in M
      BY <1>7, <2>2 DEF Walking
    <3>2. PICK y : y = s.node
      OBVIOUS
    <3>3. /\ lo[y] \in Int /\ hi[y] \in Int /\ lo[y] <= hi[y] /\ hi[y] - lo[y] < B
      BY ONLY <1>3, <1>4, <3>1, <3>2
    <3>4. WalkLeft(lo, hi, d, g, s) \in {hi[y] - lo[y], 2 * B - (hi[y] - lo[y])}
      BY ONLY <2>2, <3>2 DEF WalkLeft
    <3> QED BY ONLY <1>3, <3>3, <3>4
  <2> QED BY ONLY <2>1, <2>2
<1>8. ASSUME NEW s \in R
      PROVE  /\ round[s] \in R
             /\ left[s] = 0 => left[round[s]] = 0
             /\ left[s] # 0 => left[round[s]] < left[s]
  <2>1. Walking(M, at, d, g, s) /\ s \in S
    BY <1>8
  <2>2. CASE s.node = Null \/ s.pos = d
    <3>1. round[s] = s /\ WalkLeft(lo, hi, d, g, s) = 0
      BY ONLY <2>1, <2>2 DEF WalkLeft
    <3> QED BY ONLY <1>8, <3>1
  <2>3. CASE ~ (s.node = Null \/ s.pos = d)
    <3> DEFINE z == WalkRound(t, s.node, s.pos, d)
    <3>1. round[s] = z
      BY ONLY <2>1, <2>3
    <3>2. /\ Walking(M, at, d, g, z)
          /\ WalkLeft(lo, hi, d, g, z) < WalkLeft(lo, hi, d, g, s)
      BY ONLY <1>1, <1>5, <2>1, <2>3, d \in Int, WalkOn
    <3> HIDE DEF z
    <3>3. z \in R
      BY ONLY <3>2 DEF Walking
    <3>4. left[z] = WalkLeft(lo, hi, d, g, z) /\ left[s] = WalkLeft(lo, hi, d, g, s)
      BY ONLY <1>8, <3>3
    <3>5. left[z] < left[s]
      BY ONLY <3>2, <3>4
    <3>6. left[s] # 0
      <4>1. left[z] \in Nat /\ left[s] \in Nat
        BY ONLY <1>7, <1>8, <3>3, <3>4
      <4> QED BY ONLY <3>5, <4>1
    <3> HIDE DEF left, R, round
    <3> QED BY ONLY <3>1, <3>3, <3>5, <3>6
  <2> QED BY ONLY <2>2, <2>3
<1>9. left \in [R -> Nat] /\ left[start] <= 2 * B /\ 2 * B \in Nat
  <2>1. left = [s \in R |-> left[s]] /\ \A s \in R : left[s] = WalkLeft(lo, hi, d, g, s)
    OBVIOUS
  <2> HIDE DEF left, R, start
  <2> QED BY ONLY <1>3, <1>6, <1>7, <2>1
<1>10. final \in R /\ left[final] = 0
  <2> HIDE DEF left, R, start, round
  <2> QED BY ONLY <1>6, <1>8, <1>9, LoopEnds
<1>11. WalkLeft(lo, hi, d, g, final) = 0 /\ Walking(M, at, d, g, final)
  <2> HIDE DEF final
  <2> QED BY ONLY <1>10
<1> HIDE DEF final
<1>12. CASE v = Null
  BY ONLY <1>2, <1>11, <1>12 DEF Walking, g
<1>13. CASE v # Null
  <2>1. v \in M /\ final.pos = at[v] - (g - d)
    BY ONLY <1>2, <1>11, <1>13 DEF Walking
  <2>2. final.pos = d
    <3> SUFFICES ASSUME final.pos # d PROVE FALSE
      OBVIOUS
    <3>1. (IF lo[v] <= g /\ g <= hi[v] THEN hi[v] - lo[v] ELSE 2 * B - (hi[v] - lo[v])) = 0
      BY ONLY <1>2, <1>11, <1>13, final.pos # d DEF WalkLeft
    <3>2. at[v] # g
      BY ONLY <1>4, <1>5, <2>1, final.pos # d, d \in Int
    <3> QED BY ONLY <1>3, <1>4, <1>5, <2>1, <3>1, <3>2
  <2>3. at[v] = g
    BY ONLY <1>4, <1>5, <2>1, <2>2, d \in Int
  <2> QED BY ONLY <1>13, <2>1, <2>3 DEF g
<1> QED BY ONLY <1>12, <1>13

\* The root spans all places.
LEMMA RootSpan ==
  ASSUME NEW t, NEW M, NEW at, NEW lo, NEW hi, Shape(t, M, at, lo, hi), NEW x \in M,
         t.parent[x] = Null
  PROVE  lo[x] - 1 \notin 1 .. Cardinality(M) /\ hi[x] + 1 \notin 1 .. Cardinality(M)
<1>1. x = t.root /\ x # Null
  BY ShapeNode DEF UpShape
<1>2. lo[x] = 1 /\ hi[x] = Cardinality(M)
  BY <1>1 DEF Shape, RootShape
<1>3. Cardinality(M) \in Nat
  BY ShapeSize
<1> QED BY ONLY <1>2, <1>3

\* Going up from the last place of a subtree.
LEMMA ClimbLeftIs ==
  ASSUME NEW t, NEW M, NEW at, NEW lo, NEW hi, Shape(t, M, at, lo, hi), NEW n \in M,
         hi[n] = at[n], NEW v, v = ClimbFrom(t, n, t.left)
  PROVE  IF v = Null THEN at[n] +  1 \notin 1 .. Cardinality(M) ELSE v \in M /\ at[v] = at[n] +  1
<1> DEFINE round == [m \in Node |->
                       LET p == t.parent[m]
                       IN  IF p = Null THEN m ELSE IF t.left[p] = m THEN m ELSE p]
           Ended(m) == t.parent[m] = Null \/ t.left[t.parent[m]] = m
           R == {x \in M : hi[x] = at[n]}
           size == [x \in R |-> IF Ended(x) THEN 0 ELSE PathBound - (hi[x] - lo[x])]
           final == Iterate(round, n, PathBound)
<1>1. v = t.parent[final]
  BY DEF ClimbFrom
<1>2. \A y \in M : /\ at[y] \in Int /\ lo[y] \in Int /\ hi[y] \in Int
                   /\ 1 <= lo[y] /\ lo[y] <= at[y] /\ at[y] <= hi[y]
                   /\ hi[y] <= Cardinality(M) /\ y \in Node /\ y # Null
  BY ShapeNode
<1>3. /\ Cardinality(M) \in Nat /\ PathBound \in Nat /\ Cardinality(M) <= PathBound
  BY ShapeSize
<1>4. ASSUME NEW x \in R
      PROVE  /\ round[x] \in R /\ size[x] \in Nat /\ size[x] <= PathBound
             /\ size[x] = 0 => size[round[x]] = 0 /\ Ended(x)
             /\ size[x] # 0 => size[round[x]] < size[x]
  <2>1. x \in M /\ x \in Node /\ hi[x] = at[n] /\ hi[x] - lo[x] < PathBound /\ hi[x] >= lo[x]
    BY <1>2, <1>3
  <2>2. CASE Ended(x)
    <3>1. round[x] = x /\ size[x] = 0
      BY ONLY <1>4, <2>1, <2>2
    <3> HIDE DEF round, size, R, Ended
    <3> QED BY ONLY <1>3, <1>4, <2>2, <3>1
  <2>3. CASE ~ Ended(x)
    <3>1. PICK p : p = t.parent[x]
      OBVIOUS
    <3>2. round[x] = p /\ p # Null /\ t.left[p] # x
      BY ONLY <2>1, <2>3, <3>1
    <3>3. p \in M /\ hi[x] = hi[p] /\ lo[x] = at[p] +  1
      BY <2>1, <3>1, <3>2, ParentOf
    <3>4. p \in R /\ hi[x] - lo[x] < hi[p] - lo[p] /\ hi[p] - lo[p] < PathBound
      BY <1>2, <1>3, <2>1, <3>3
    <3>5. size[x] = PathBound - (hi[x] - lo[x]) /\ size[p] \in {0, PathBound - (hi[p] - lo[p])}
      BY ONLY <1>4, <2>3, <3>4
    <3> HIDE DEF round, size, R
    <3> QED BY ONLY <1>2, <1>3, <2>1, <3>2, <3>3, <3>4, <3>5
  <2> QED BY ONLY <2>2, <2>3
<1>5. n \in R /\ size \in [R -> Nat] /\ size[n] <= PathBound
  <2>1. n \in R /\ size = [x \in R |-> size[x]]
    OBVIOUS
  <2> HIDE DEF size, R
  <2> QED BY ONLY <1>4, <2>1
<1>6. final \in R /\ size[final] = 0
  <2> HIDE DEF round, size, R, Ended
  <2> QED BY ONLY <1>3, <1>4, <1>5, LoopEnds
<1>7. Ended(final)
  <2> HIDE DEF round, size, R, Ended, final
  <2> QED BY ONLY <1>4, <1>6
<1>8. final \in M /\ hi[final] = at[n]
  <2> HIDE DEF final
  <2> QED BY ONLY <1>6
<1> HIDE DEF final
<1>9. CASE v = Null
  <2>1. hi[final] +  1 \notin 1 .. Cardinality(M)
    BY <1>1, <1>8, <1>9, RootSpan
  <2> QED BY ONLY <1>8, <1>9, <2>1
<1>10. CASE v # Null
  <2>1. final = t.left[v] /\ v \in M /\ final # Null
    BY <1>1, <1>2, <1>7, <1>8, <1>10, ParentOf
  <2>2. hi[final] = at[v] -  1
    BY ONLY Shape(t, M, at, lo, hi), <2>1, LeftChild
  <2> QED BY ONLY <1>2, <1>8, <1>10, <2>1, <2>2, n \in M
<1> QED BY ONLY <1>9, <1>10

\* The successor is at the next place.
LEMMA SuccessorIs ==
  ASSUME NEW t, NEW M, NEW at, Sound(t, M, at), NEW n \in M, NEW v, v = successor(t, n)
  PROVE  IF v = Null THEN at[n] +  1 \notin 1 .. Cardinality(M) ELSE v \in M /\ at[v] = at[n] +  1
<1>1. PICK lo, hi : Shape(t, M, at, lo, hi)
  BY DEF Sound
<1>2. PICK r : r = t.right[n]
  OBVIOUS
<1>3. CASE r = Null
  <2>1. hi[n] = at[n]
    <3>1. RightShape(t, M, at, lo, hi, n)
      BY ONLY <1>1, n \in M, ShapeNode
    <3> QED BY ONLY <1>2, <1>3, <3>1 DEF RightShape
  <2>2. v = ClimbFrom(t, n, t.left)
    BY ONLY <1>2, <1>3, v = successor(t, n) DEF successor
  <2> QED BY ONLY <1>1, <2>1, <2>2, n \in M, ClimbLeftIs
<1>4. CASE r # Null
  <2>1. r \in M /\ lo[r] = at[n] +  1
    BY ONLY <1>1, <1>2, <1>4, n \in M, RightChild
  <2>2. v = Leftmost(t, r)
    BY ONLY <1>2, <1>4, v = successor(t, n) DEF successor
  <2>3. v \in M /\ at[v] = lo[r]
    BY ONLY <1>1, <2>1, <2>2, LeftmostIs
  <2>4. v # Null
    BY ONLY <1>1, <2>3, ShapeNode
  <2> QED BY ONLY <2>1, <2>3, <2>4
<1> QED BY ONLY <1>3, <1>4

\* Going up from the first place of a subtree.
LEMMA ClimbRightIs ==
  ASSUME NEW t, NEW M, NEW at, NEW lo, NEW hi, Shape(t, M, at, lo, hi), NEW n \in M,
         lo[n] = at[n], NEW v, v = ClimbFrom(t, n, t.right)
  PROVE  IF v = Null THEN at[n] -  1 \notin 1 .. Cardinality(M) ELSE v \in M /\ at[v] = at[n] -  1
<1> DEFINE round == [m \in Node |->
                       LET p == t.parent[m]
                       IN  IF p = Null THEN m ELSE IF t.right[p] = m THEN m ELSE p]
           Ended(m) == t.parent[m] = Null \/ t.right[t.parent[m]] = m
           R == {x \in M : lo[x] = at[n]}
           size == [x \in R |-> IF Ended(x) THEN 0 ELSE PathBound - (hi[x] - lo[x])]
           final == Iterate(round, n, PathBound)
<1>1. v = t.parent[final]
  BY DEF ClimbFrom
<1>2. \A y \in M : /\ at[y] \in Int /\ hi[y] \in Int /\ lo[y] \in Int
                   /\ 1 <= lo[y] /\ lo[y] <= at[y] /\ at[y] <= hi[y]
                   /\ hi[y] <= Cardinality(M) /\ y \in Node /\ y # Null
  BY ShapeNode
<1>3. /\ Cardinality(M) \in Nat /\ PathBound \in Nat /\ Cardinality(M) <= PathBound
  BY ShapeSize
<1>4. ASSUME NEW x \in R
      PROVE  /\ round[x] \in R /\ size[x] \in Nat /\ size[x] <= PathBound
             /\ size[x] = 0 => size[round[x]] = 0 /\ Ended(x)
             /\ size[x] # 0 => size[round[x]] < size[x]
  <2>1. x \in M /\ x \in Node /\ lo[x] = at[n] /\ hi[x] - lo[x] < PathBound /\ hi[x] >= lo[x]
    BY <1>2, <1>3
  <2>2. CASE Ended(x)
    <3>1. round[x] = x /\ size[x] = 0
      BY ONLY <1>4, <2>1, <2>2
    <3> HIDE DEF round, size, R, Ended
    <3> QED BY ONLY <1>3, <1>4, <2>2, <3>1
  <2>3. CASE ~ Ended(x)
    <3>1. PICK p : p = t.parent[x]
      OBVIOUS
    <3>2. round[x] = p /\ p # Null /\ t.right[p] # x
      BY ONLY <2>1, <2>3, <3>1
    <3>3. p \in M /\ lo[x] = lo[p] /\ hi[x] = at[p] -  1
      BY <2>1, <3>1, <3>2, ParentOf
    <3>4. p \in R /\ hi[x] - lo[x] < hi[p] - lo[p] /\ hi[p] - lo[p] < PathBound
      BY <1>2, <1>3, <2>1, <3>3
    <3>5. size[x] = PathBound - (hi[x] - lo[x]) /\ size[p] \in {0, PathBound - (hi[p] - lo[p])}
      BY ONLY <1>4, <2>3, <3>4
    <3> HIDE DEF round, size, R
    <3> QED BY ONLY <1>2, <1>3, <2>1, <3>2, <3>3, <3>4, <3>5
  <2> QED BY ONLY <2>2, <2>3
<1>5. n \in R /\ size \in [R -> Nat] /\ size[n] <= PathBound
  <2>1. n \in R /\ size = [x \in R |-> size[x]]
    OBVIOUS
  <2> HIDE DEF size, R
  <2> QED BY ONLY <1>4, <2>1
<1>6. final \in R /\ size[final] = 0
  <2> HIDE DEF round, size, R, Ended
  <2> QED BY ONLY <1>3, <1>4, <1>5, LoopEnds
<1>7. Ended(final)
  <2> HIDE DEF round, size, R, Ended, final
  <2> QED BY ONLY <1>4, <1>6
<1>8. final \in M /\ lo[final] = at[n]
  <2> HIDE DEF final
  <2> QED BY ONLY <1>6
<1> HIDE DEF final
<1>9. CASE v = Null
  <2>1. lo[final] -  1 \notin 1 .. Cardinality(M)
    BY <1>1, <1>8, <1>9, RootSpan
  <2> QED BY ONLY <1>8, <1>9, <2>1
<1>10. CASE v # Null
  <2>1. final = t.right[v] /\ v \in M /\ final # Null
    BY <1>1, <1>2, <1>7, <1>8, <1>10, ParentOf
  <2>2. lo[final] = at[v] +  1
    BY ONLY Shape(t, M, at, lo, hi), <2>1, RightChild
  <2> QED BY ONLY <1>2, <1>8, <1>10, <2>1, <2>2, n \in M
<1> QED BY ONLY <1>9, <1>10

\* The predscessor is at the next place.
LEMMA PredscessorIs ==
  ASSUME NEW t, NEW M, NEW at, Sound(t, M, at), NEW n \in M, NEW v, v = predscessor(t, n)
  PROVE  IF v = Null THEN at[n] -  1 \notin 1 .. Cardinality(M) ELSE v \in M /\ at[v] = at[n] -  1
<1>1. PICK lo, hi : Shape(t, M, at, lo, hi)
  BY DEF Sound
<1>2. PICK r : r = t.left[n]
  OBVIOUS
<1>3. CASE r = Null
  <2>1. lo[n] = at[n]
    <3>1. LeftShape(t, M, at, lo, hi, n)
      BY ONLY <1>1, n \in M, ShapeNode
    <3> QED BY ONLY <1>2, <1>3, <3>1 DEF LeftShape
  <2>2. v = ClimbFrom(t, n, t.right)
    BY ONLY <1>2, <1>3, v = predscessor(t, n) DEF predscessor
  <2> QED BY ONLY <1>1, <2>1, <2>2, n \in M, ClimbRightIs
<1>4. CASE r # Null
  <2>1. r \in M /\ hi[r] = at[n] -  1
    BY ONLY <1>1, <1>2, <1>4, n \in M, LeftChild
  <2>2. v = Rightmost(t, r)
    BY ONLY <1>2, <1>4, v = predscessor(t, n) DEF predscessor
  <2>3. v \in M /\ at[v] = hi[r]
    BY ONLY <1>1, <2>1, <2>2, RightmostIs
  <2>4. v # Null
    BY ONLY <1>1, <2>3, ShapeNode
  <2> QED BY ONLY <2>1, <2>3, <2>4
<1> QED BY ONLY <1>3, <1>4
=============================================================================
