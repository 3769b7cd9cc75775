-------------------------------- MODULE ZSet --------------------------------
(***************************************************************************)
(* ZSet (MRD_zset.cpp): names with scores, kept in an AVL tree ordered by  *)
(* score and name and in a hash map by name, and the queries the server    *)
(* makes of it.  A ZNode is identified by its name; Node is the set of     *)
(* names, which are numbers so that they have an order (memcmp, then the   *)
(* length), and NoName is the empty one.  The hash map is a set of nodes,  *)
(* which is what HashMap implements.  A score is a number or NaN, which    *)
(* stod accepts and which compares false with everything.                  *)
(***************************************************************************)
EXTENDS AvlTree, SequencesExt

CONSTANTS
  Inputs,           \* alternatives for the names and scores clients insert:
                    \* sets of pairs of a name and a score
  NaN,
  Free              \* the score of memory that is not allocated

NoName == 0

ASSUME NameAssumption == Node \subseteq Nat \ {NoName}
ASSUME ScoreAssumption ==
  /\ NaN \notin Int /\ Free \notin Int \cup {NaN}
  /\ \A some \in Inputs : some \subseteq Node \X (Int \cup {NaN})

Score == {i[2] : i \in UNION Inputs}

VARIABLES
  tree,             \* the links of the tree_node fields, and root
  score,            \* the score of each ZNode, Free if there is none
  hmap,             \* the nodes in the hash map
  ordered,          \* no score has been NaN since the set was created
  input             \* what clients insert in this behaviour, one of Inputs

vars == <<tree, score, hmap, ordered, input>>

-----------------------------------------------------------------------------
(* Comparisons. *)

\* <, <= and != of doubles.
Less(a, b) == a # NaN /\ b # NaN /\ a < b
AtMost(a, b) == a # NaN /\ b # NaN /\ a <= b
Differ(a, b) == a = NaN \/ b = NaN \/ a # b

\* The node or the pair (s1, n1) against (s2, n2).
zless(s1, n1, s2, n2) == IF Differ(s1, s2) THEN Less(s1, s2) ELSE n1 < n2
zgreater(s1, n1, s2, n2) == IF Differ(s1, s2) THEN Less(s2, s1) ELSE n1 > n2

lookup(n) == tree.root # Null /\ n \in hmap

-----------------------------------------------------------------------------
(* Changes. *)

\* Where tree_insert looks next for the place of n.
Branch(t, sc, n, p) ==
  IF zless(sc[n], n, sc[p], p) THEN t.left[p] ELSE t.right[p]

\* The node that becomes the parent of n.
InsertionPoint(t, sc, n) ==
  LET down == [p \in Node |->
                 IF Branch(t, sc, n, p) = Null THEN p ELSE Branch(t, sc, n, p)]
  IN  Iterate(down, t.root, PathBound)

tree_insert(t, sc, n) ==
  LET p == InsertionPoint(t, sc, n)
      linked == IF t.root = Null THEN [t EXCEPT !.root = n]
                ELSE IF zless(sc[n], n, sc[p], p)
                  THEN [t EXCEPT !.left[p] = n, !.parent[n] = p]
                ELSE [t EXCEPT !.right[p] = n, !.parent[n] = p]
  IN  fix(linked, n)

\* The tree without n, whose tree_node is given its first values again or
\* whose memory is freed.
Removed(t, n) == AVLNode(del(t, n), n)

Mut_insert(n, s) ==
  /\ hmap' = hmap \cup {n}
  /\ score' = [score EXCEPT ![n] = s]
  /\ tree' = IF lookup(n) THEN tree ELSE tree_insert(tree, score', n)
  /\ ordered' = (ordered /\ s # NaN)
  /\ UNCHANGED input

\* A name that is there is moved to its new place (update).
insert(n, s) ==
  /\ hmap' = hmap \cup {n}
  /\ score' = [score EXCEPT ![n] = s]
  /\ tree' = tree_insert(IF lookup(n) THEN Removed(tree, n) ELSE tree, score', n)
  /\ ordered' = (ordered /\ s # NaN)
  /\ UNCHANGED input

rem(n) ==
  /\ lookup(n)
  /\ hmap' = hmap \ {n}
  /\ tree' = Removed(tree, n)
  /\ score' = [score EXCEPT ![n] = Free]
  /\ UNCHANGED <<ordered, input>>

\* The nodes the recursion of set_cpy comes to, each before those in its
\* subtrees.
Preorder(t) ==
  LET deeper == [list \in [NullOr -> Seq(Node)] |->
                   [n \in NullOr |-> IF n = Null THEN <<>>
                      ELSE <<n>> \o list[t.left[n]] \o list[t.right[n]]]]
  IN  Iterate(deeper, [n \in NullOr |-> <<>>], PathBound)[t.root]

\* tree_dispose comes to the same nodes.
Nodes(t) == ToSet(Preorder(t))

\* ~ZSet, and a new set.
Destroy ==
  /\ hmap' = {}
  /\ tree' = EmptyTree
  /\ score' = [n \in Node |->
                 IF n \in Nodes(tree) THEN Free ELSE score[n]]
  /\ ordered' = TRUE
  /\ UNCHANGED input

\* The tree of the copy after i insertions.
set_cpy(t, sc) ==
  LET list == Preorder(t)
      round == [s \in [done : Nat, tree : Tree] |->
                  [done |-> s.done + 1, tree |-> tree_insert(s.tree, sc, list[s.done + 1])]]
  IN  Iterate(round, [done |-> 0, tree |-> EmptyTree], Len(list)).tree

\* The set becomes a copy of itself: the copy constructor, swap with the
\* copy (operator=), and the destructor of what was there before.
Assign ==
  /\ tree' = set_cpy(tree, score)
  /\ hmap' = Nodes(tree)
  /\ UNCHANGED <<score, ordered, input>>

-----------------------------------------------------------------------------
(* Queries. *)

\* The nodes a search is at and has found.
Search == [node : NullOr, found : NullOr]

seekge(s, name) ==
  LET round == [at \in Search |->
                  IF at.node = Null THEN at
                  ELSE IF zless(score[at.node], at.node, s, name)
                    THEN [at EXCEPT !.node = tree.right[at.node]]
                  ELSE [node |-> tree.left[at.node], found |-> at.node]]
  IN  Iterate(round, [node |-> tree.root, found |-> Null], PathBound).found

seekle(s, name) ==
  LET round == [at \in Search |->
                  IF at.node = Null THEN at
                  ELSE IF zgreater(score[at.node], at.node, s, name)
                    THEN [at EXCEPT !.node = tree.left[at.node]]
                  ELSE [node |-> tree.right[at.node], found |-> at.node]]
  IN  Iterate(round, [node |-> tree.root, found |-> Null], PathBound).found

\* ZNode::offset
offset(n, d) == IF n = Null THEN Null ELSE AVLNode_offset(tree, n, d)

\* The loop of the queries: up to limit nodes from n on, step by step.
ListFrom(n, step, limit) ==
  LET round == [at \in [node : NullOr, out : Seq(Node)] |->
                  IF at.node = Null THEN at
                  ELSE [node |-> offset(at.node, step), out |-> Append(at.out, at.node)]]
  IN  Iterate(round, [node |-> n, out |-> <<>>], Larger(limit, 0)).out

do_zqueryge(s, name, d, limit) == ListFrom(offset(seekge(s, name), d), 1, limit)

Mut_do_zqueryle(s, name, d, limit) ==
  ListFrom(offset(seekle(s, name), d), 1, limit)

do_zqueryle(s, name, d, limit) == ListFrom(offset(seekle(s, name), d), -1, limit)

\* The loop of do_zcount ends at the first score that is not at most max.
CountFrom(n, max) ==
  LET round == [at \in [node : NullOr, count : Nat] |->
                  IF at.node = Null THEN at
                  ELSE IF ~ AtMost(score[at.node], max) THEN at
                  ELSE [node |-> offset(at.node, 1), count |-> at.count + 1]]
  IN  Iterate(round, [node |-> n, count |-> 0], PathBound).count

do_zcount(min, max) == CountFrom(seekge(min, NoName), max)

ZSet_rank(n) == IF lookup(n) THEN rank(tree, n) ELSE 0

-----------------------------------------------------------------------------
Init ==
  /\ tree = EmptyTree
  /\ score = [n \in Node |-> Free]
  /\ hmap = {}
  /\ ordered = TRUE
  /\ input \in Inputs

Next ==
  \/ \E i \in input : insert(i[1], i[2])
  \/ \E n \in Node : rem(n)
  \/ Destroy
  \/ Assign

Spec == Init /\ [][Next]_vars

-----------------------------------------------------------------------------
(* Properties. *)

\* The nodes of the tree from left to right.
Listing ==
  LET deeper == [list \in [NullOr -> Seq(Node)] |->
                   [n \in NullOr |-> IF n = Null THEN <<>>
                      ELSE list[tree.left[n]] \o <<n>> \o list[tree.right[n]]]]
  IN  Iterate(deeper, [n \in NullOr |-> <<>>], PathBound)[tree.root]

\* The members in the order of score and name, told from their scores alone.
Before(m, n) == zless(score[m], m, score[n], n)
Ranking ==
  LET place == [n \in hmap |-> Cardinality({m \in hmap : Before(m, n)}) + 1]
  IN  [i \in 1 .. Cardinality(hmap) |-> CHOOSE n \in hmap : place[n] = i]

\* Every variable has its declared type, and no height or count, which are
\* unsigned in the code, is ever below one.
TypeOK ==
  /\ tree \in Tree
  /\ tree.height \in [Node -> Nat \ {0}] /\ tree.count \in [Node -> Nat \ {0}]
  /\ score \in [Node -> Score \cup {Free}]
  /\ hmap \subseteq Node /\ ordered \in BOOLEAN /\ input \in Inputs

\* The tree and the hash map hold the same nodes, exactly those that are
\* allocated, each once, and every child leads back to its parent: neither
\* insert, update, rem nor a copy loses, leaks or frees a node the other
\* structure still has, whatever the scores are.
IndexesAgree ==
  /\ hmap = {n \in Node : score[n] # Free}
  /\ Nodes(tree) = hmap
  /\ Len(Listing) = Cardinality(hmap)
  /\ tree.root # Null => tree.parent[tree.root] = Null
  /\ \A n \in hmap : \A c \in {tree.left[n], tree.right[n]} \ {Null} :
       tree.parent[c] = n

\* After the rotations of insertions and deletions every node has the height
\* and the count of its subtree, and its two subtrees differ by at most one
\* in height (avl_verify in the tests).
Balanced ==
  \A n \in hmap :
    LET l == tree.left[n]  r == tree.right[n]
    IN  /\ tree.height[n] = Larger(h(tree, l), h(tree, r)) + 1
        /\ tree.count[n] = cnt(tree, l) + cnt(tree, r) + 1
        /\ h(tree, l) <= h(tree, r) + 1 /\ h(tree, r) <= h(tree, l) + 1

\* As long as no score was NaN, the tree is in the order of score and name,
\* although update moves nodes while others stay.
InOrder == ordered => Listing = Ranking

\* offset goes from any node to the one so many places away in the tree, or
\* to none, and so do successor and predscessor, whatever the scores are.
OffsetWalks ==
  LET list == Listing
      At(i) == IF i \in DOMAIN list THEN list[i] ELSE Null
  IN  \A i \in DOMAIN list :
        /\ \A d \in -i .. Len(list) + 1 - i : offset(list[i], d) = At(i + d)
        /\ successor(tree, list[i]) = At(i + 1)
        /\ predscessor(tree, list[i]) = At(i - 1)

\* What ZQUERYGE, ZQUERYLE and ZCOUNT answer is what a sorted list of the
\* members gives, for every place the query may begin at.
QueriesMatch ==
  ordered =>
    LET list == Ranking
        OffsetsAndLimits == {<<0, Len(list)>>, <<-1, 2>>, <<2, 1>>, <<0, -1>>}
        Scores == {i[2] : i \in input} \ {NaN}
        Part(from, step, limit) ==
          LET size == IF from \notin DOMAIN list THEN 0
                      ELSE Min({limit, IF step = 1 THEN Len(list) + 1 - from ELSE from})
          IN  [i \in 1 .. size |-> list[from + step * (i - 1)]]
    IN  \A s \in Scores :
          /\ \A n \in hmap \cup {NoName} :
               LET lower == Cardinality({m \in hmap : zless(score[m], m, s, n)})
                   upto == Cardinality({m \in hmap : ~ zgreater(score[m], m, s, n)})
               IN  \A q \in OffsetsAndLimits :
                     /\ do_zqueryge(s, n, q[1], q[2]) =
                          IF lower = Len(list) THEN <<>>
                          ELSE Part(lower + 1 + q[1], 1, q[2])
                     /\ do_zqueryle(s, n, q[1], q[2]) =
                          IF upto = 0 THEN <<>> ELSE Part(upto + q[1], -1, q[2])
          /\ \A max \in Scores :
               do_zcount(s, max) =
                 Cardinality({m \in hmap : s <= score[m] /\ score[m] <= max})

\* ZRANK gives the place of a member in the order, the least being 1 and the
\* greatest the number of members.
RankIsPlace == \A i \in DOMAIN Listing : ZSet_rank(Listing[i]) = i
=============================================================================
