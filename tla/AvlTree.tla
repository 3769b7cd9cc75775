------------------------------ MODULE AvlTree ------------------------------
(***************************************************************************)
(* AVLNode (MRD_avl.cpp) as operators on the fields of all nodes.  A tree  *)
(* is a record of functions on the nodes, and a root, which the code hands *)
(* around as a return value.  Null is nullptr.  A loop is a function from  *)
(* its state before a round to the one after it, which changes nothing     *)
(* once the loop has ended, and Iterate.                                   *)
(***************************************************************************)
EXTENDS Integers, FiniteSets

CONSTANTS Node, Null

ASSUME NodeAssumption == IsFiniteSet(Node) /\ Null \notin Node

\* What k rounds make of s.
Iterate(round, s, k) ==
  LET after[i \in Nat] == IF i = 0 THEN s ELSE round[after[i - 1]]
  IN  after[k]

\* No path up or down a tree has more nodes than there are.
PathBound == Cardinality(Node)

NullOr == Node \cup {Null}
Tree == [root : NullOr, parent : [Node -> NullOr],
         left : [Node -> NullOr], right : [Node -> NullOr],
         height : [Node -> Int], count : [Node -> Int]]

\* No node at all; the fields of a node outside the tree are as AVLNode()
\* leaves them.
EmptyTree == [root |-> Null, parent |-> [n \in Node |-> Null],
              left |-> [n \in Node |-> Null], right |-> [n \in Node |-> Null],
              height |-> [n \in Node |-> 1], count |-> [n \in Node |-> 1]]

\* The node's fields after AVLNode(), and what is left of a deleted node.
AVLNode(t, n) ==
  [t EXCEPT !.parent[n] = Null, !.left[n] = Null, !.right[n] = Null,
            !.height[n] = 1, !.count[n] = 1]

h(t, n) == IF n = Null THEN 0 ELSE t.height[n]

Mut_cnt(t, n) == IF n = Null THEN -1 ELSE t.count[n]

cnt(t, n) == IF n = Null THEN 0 ELSE t.count[n]
Larger(a, b) == IF a > b THEN a ELSE b

update(t, n) ==
  [t EXCEPT !.height[n] = Larger(h(t, t.left[n]), h(t, t.right[n])) + 1,
            !.count[n] = 1 + cnt(t, t.left[n]) + cnt(t, t.right[n])]

\* child->parent = p, unless there is no child.
Adopt(t, child, p) == IF child = Null THEN t ELSE [t EXCEPT !.parent[child] = p]

\* *from = new, where from is the link that leads to old: a field of p, or
\* the root.
Relink(t, p, old, new) ==
  IF p = Null THEN [t EXCEPT !.root = new]
  ELSE IF t.left[p] = old THEN [t EXCEPT !.left[p] = new]
  ELSE [t EXCEPT !.right[p] = new]

-----------------------------------------------------------------------------
(* Rotations return the tree and the node that took the place of n. *)

rot_left(t, n) ==
  LET new == t.right[n]
      inner == t.left[new]
      turned == [Adopt(t, inner, n) EXCEPT
                   !.right[n] = inner, !.parent[new] = t.parent[n],
                   !.left[new] = n, !.parent[n] = new]
  IN  [tree |-> update(update(turned, n), new), node |-> new]

Mut_rot_right(t, n) ==
  LET new == t.left[n]
      inner == t.right[new]
      turned == [t EXCEPT
                   !.left[n] = inner, !.parent[new] = t.parent[n],
                   !.right[new] = n, !.parent[n] = new]
  IN  [tree |-> update(update(turned, n), new), node |-> new]

rot_right(t, n) ==
  LET new == t.left[n]
      inner == t.right[new]
      turned == [Adopt(t, inner, n) EXCEPT
                   !.left[n] = inner, !.parent[new] = t.parent[n],
                   !.right[new] = n, !.parent[n] = new]
  IN  [tree |-> update(update(turned, n), new), node |-> new]

Mut_fix_left(t, n) == rot_right(t, n)

fix_left(t, n) ==
  LET l == t.left[n]
      r == rot_left(t, l)
  IN  IF h(t, t.left[l]) < h(t, t.right[l])
      THEN rot_right([r.tree EXCEPT !.left[n] = r.node], n)
      ELSE rot_right(t, n)

fix_right(t, n) ==
  LET l == t.right[n]
      r == rot_right(t, l)
  IN  IF h(t, t.right[l]) < h(t, t.left[l])
      THEN rot_left([r.tree EXCEPT !.right[n] = r.node], n)
      ELSE rot_left(t, n)

\* One round of fix, which ends with the root: the node and its place are set
\* right, and its parent is next.
FixRound(t, n) ==
  LET p == t.parent[n]
      u == update(t, n)
      l == h(u, u.left[n])
      r == h(u, u.right[n])
      fixed == IF l = r + 2 THEN fix_left(u, n)
               ELSE IF l + 2 = r THEN fix_right(u, n)
               ELSE [tree |-> u, node |-> n]
  IN  [tree |-> Relink(fixed.tree, p, n, fixed.node), node |-> p]

fix(t, n) ==
  LET round == [s \in [tree : Tree, node : NullOr] |->
                  IF s.node = Null THEN s ELSE FixRound(s.tree, s.node)]
  IN  Iterate(round, [tree |-> t, node |-> n], PathBound).tree

-----------------------------------------------------------------------------
(* Deletion. *)

\* The last node on the path from n along one kind of link.
PathEnd(link, n) ==
  Iterate([m \in Node |-> IF link[m] = Null THEN m ELSE link[m]], n, PathBound)

Leftmost(t, n) == PathEnd(t.left, n)
Rightmost(t, n) == PathEnd(t.right, n)

\* n has at most one child.
del_easy(t, n) ==
  LET child == IF t.left[n] # Null THEN t.left[n] ELSE t.right[n]
      p == t.parent[n]
      linked == Relink(Adopt(t, child, p), p, n, child)
  IN  IF p = Null THEN linked ELSE fix(linked, p)

\* Otherwise its successor is taken out and then put in the place n has by
\* now.
del(t, n) ==
  IF t.left[n] = Null \/ t.right[n] = Null THEN del_easy(t, n)
  ELSE LET victim == Leftmost(t, t.right[n])
           u == del_easy(t, victim)
           copied == [u EXCEPT !.parent[victim] = u.parent[n],
                               !.left[victim] = u.left[n],
                               !.right[victim] = u.right[n],
                               !.height[victim] = u.height[n],
                               !.count[victim] = u.count[n]]
       IN  Relink(Adopt(Adopt(copied, u.left[n], victim), u.right[n], victim),
                  u.parent[n], n, victim)

-----------------------------------------------------------------------------
(* Navigation. *)

\* The parent of the first node from n upwards that is the left (or the
\* right) child of its parent, or the root.
ClimbFrom(t, n, side) ==
  LET climb == [m \in Node |->
                  LET p == t.parent[m]
                  IN  IF p = Null THEN m ELSE IF side[p] = m THEN m ELSE p]
  IN  t.parent[Iterate(climb, n, PathBound)]

successor(t, n) ==
  IF t.right[n] # Null THEN Leftmost(t, t.right[n])
  ELSE ClimbFrom(t, n, t.left)

predscessor(t, n) ==
  IF t.left[n] # Null THEN Rightmost(t, t.left[n])
  ELSE ClimbFrom(t, n, t.right)

\* The loop of rank ends at the first node that is not a right child.
rank(t, n) ==
  LET round == [s \in [node : Node, rank : Nat] |->
                  LET p == t.parent[s.node]
                  IN  IF p = Null THEN s
                      ELSE IF t.right[p] = s.node
                        THEN [node |-> p, rank |-> s.rank + cnt(t, t.left[p]) + 1]
                      ELSE s]
      start == [node |-> n, rank |-> 1 + cnt(t, t.left[n])]
  IN  Iterate(round, start, PathBound).rank

Mut_WalkRound(t, n, pos, offset) ==
  LET l == t.left[n]
      r == t.right[n]
      p == t.parent[n]
  IN  IF pos < offset /\ pos + cnt(t, r) >= offset
        THEN [node |-> r, pos |-> pos + cnt(t, t.left[r]) + 1]
      ELSE IF pos > offset /\ pos - cnt(t, l) <= offset
        THEN [node |-> l, pos |-> pos - (cnt(t, t.right[l]) + 1)]
      ELSE IF p = Null THEN [node |-> Null, pos |-> pos]
      ELSE IF t.right[p] = n
        THEN [node |-> p, pos |-> pos - (cnt(t, l) + 1)]
      ELSE [node |-> p, pos |-> pos + cnt(t, r)]

\* One round of offset: n is pos places from where it started.
WalkRound(t, n, pos, offset) ==
  LET l == t.left[n]
      r == t.right[n]
      p == t.parent[n]
  IN  IF pos < offset /\ pos + cnt(t, r) >= offset
        THEN [node |-> r, pos |-> pos + cnt(t, t.left[r]) + 1]
      ELSE IF pos > offset /\ pos - cnt(t, l) <= offset
        THEN [node |-> l, pos |-> pos - (cnt(t, t.right[l]) + 1)]
      ELSE IF p = Null THEN [node |-> Null, pos |-> pos]
      ELSE IF t.right[p] = n
        THEN [node |-> p, pos |-> pos - (cnt(t, l) + 1)]
      ELSE [node |-> p, pos |-> pos + cnt(t, r) + 1]

\* Up the tree and down again.
AVLNode_offset(t, n, offset) ==
  LET round == [s \in [node : NullOr, pos : Int] |->
                  IF s.node = Null \/ s.pos = offset THEN s
                  ELSE WalkRound(t, s.node, s.pos, offset)]
  IN  Iterate(round, [node |-> n, pos |-> 0], 2 * PathBound).node
=============================================================================
