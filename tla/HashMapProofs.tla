--------------------------- MODULE HashMapProofs ---------------------------
(***************************************************************************)
(* Proofs about HashMap, for every set of nodes, all hash codes and every  *)
(* k_rehashing_work and k_max_load_factor: both tables stay sound at every *)
(* stage of a migration, lookup, size and foreach see exactly the nodes    *)
(* that are in the map, and the map implements a set of nodes.             *)
(***************************************************************************)
EXTENDS HashMap, SequenceLemmas, FiniteSetTheorems

Sound(h) == IsHTab(h) /\ TabInv(h)

-----------------------------------------------------------------------------
(* One table. *)

\* hcode & mask is a slot of the table.
LEMMA SlotInTable ==
  ASSUME NEW h, IsHTab(h), NEW n \in Node
  PROVE  Slot(h, n) \in 0 .. h.mask
<1>1. Hcode[n] \in Nat
  BY HcodeAssumption
<1>2. CASE h.mask = 0
  BY <1>1, <1>2 DEF Slot
<1>3. CASE h.mask = 1
  BY <1>1, <1>3 DEF Slot
<1>4. CASE h.mask = 3
  BY <1>1, <1>4 DEF Slot
<1> QED BY <1>2, <1>3, <1>4 DEF IsHTab

\* The fields of a sound table.
LEMMA SoundFacts ==
  ASSUME NEW h, Sound(h)
  PROVE  /\ h.mask \in {0, 1, 3} /\ h.size \in Nat /\ h.alloc \in BOOLEAN
         /\ h.tab \in [0 .. h.mask -> Seq(Node)]
         /\ h = [alloc |-> h.alloc, mask |-> h.mask, size |-> h.size, tab |-> h.tab]
         /\ Nodes(h) \subseteq Node
         /\ \A i \in 0 .. h.mask : ToSet(h.tab[i]) \subseteq Nodes(h)
<1>1. /\ h.mask \in {0, 1, 3} /\ h.size \in Nat /\ h.alloc \in BOOLEAN
      /\ h.tab \in [0 .. h.mask -> Seq(Node)]
      /\ h = [alloc |-> h.alloc, mask |-> h.mask, size |-> h.size, tab |-> h.tab]
  BY DEF Sound, IsHTab
<1>2. \A i \in 0 .. h.mask : ToSet(h.tab[i]) \subseteq Node
  <2> TAKE i \in 0 .. h.mask
  <2>1. h.tab[i] \in Seq(Node)
    BY <1>1
  <2> QED BY <2>1 DEF ToSet
<1> QED BY <1>1, <1>2 DEF Nodes

\* HTab::lookup finds exactly the nodes of the table.
LEMMA HasIsMember ==
  ASSUME NEW h, Sound(h), NEW k \in Node
  PROVE  HTab_has(h, k) <=> k \in Nodes(h)
<1>1. Slot(h, k) \in 0 .. h.mask
  BY SlotInTable DEF Sound
<1>2. h.tab[Slot(h, k)] \in Seq(Node)
  BY <1>1, SoundFacts
<1>3. Contains(h.tab[Slot(h, k)], k) <=> k \in ToSet(h.tab[Slot(h, k)])
  BY <1>2 DEF Contains, ToSet
<1>4. k \in Nodes(h) <=> k \in ToSet(h.tab[Slot(h, k)])
  BY <1>1 DEF Nodes, Sound, TabInv
<1>5. k \in Nodes(h) => h.alloc
  BY DEF Sound, TabInv
<1> QED BY <1>3, <1>4, <1>5 DEF HTab_has

\* The table h with the chain s in the slot i and the counter c, and its nodes.
With(h, i, s, c) ==
  [alloc |-> h.alloc, mask |-> h.mask, size |-> c, tab |-> [h.tab EXCEPT ![i] = s]]

NodesWith(h, i, s) == (Nodes(h) \ ToSet(h.tab[i])) \cup ToSet(s)

\* It is sound if the chain and the counter are right.
LEMMA ChainReplaced ==
  ASSUME NEW h, Sound(h), h.alloc, NEW i \in 0 .. h.mask,
         NEW s \in Seq(Node), IsInjective(s),
         \A n \in ToSet(s) : Slot(h, n) = i,
         NEW c \in Nat, IsFiniteSet(NodesWith(h, i, s)),
         c = Cardinality(NodesWith(h, i, s))
  PROVE  /\ Sound(With(h, i, s, c)) /\ Nodes(With(h, i, s, c)) = NodesWith(h, i, s)
         /\ With(h, i, s, c).alloc /\ With(h, i, s, c).mask = h.mask
         /\ With(h, i, s, c).size = c
         /\ \A j \in 0 .. h.mask : j # i => With(h, i, s, c).tab[j] = h.tab[j]
<1> DEFINE g == With(h, i, s, c)
           N == NodesWith(h, i, s)
<1> DEFINE t == [h.tab EXCEPT ![i] = s]
<1>2. /\ t \in [0 .. h.mask -> Seq(Node)] /\ t[i] = s
      /\ \A j \in 0 .. h.mask : j # i => t[j] = h.tab[j]
  BY SoundFacts
<1>3. g.alloc = h.alloc /\ g.mask = h.mask /\ g.size = c /\ g.tab = t
  BY DEF With
<1>a. g = [alloc |-> h.alloc, mask |-> h.mask, size |-> c, tab |-> t]
  BY DEF With
<1> HIDE DEF t, g
<1>4. IsHTab(g)
  BY <1>2, <1>3, <1>a, SoundFacts DEF IsHTab
<1>5. \A n : Slot(g, n) = Slot(h, n)
  BY <1>3 DEF Slot
<1>6. Nodes(g) = N
  <2> USE DEF NodesWith
  <2>1. Nodes(g) = UNION {ToSet(t[j]) : j \in 0 .. h.mask}
    BY <1>3 DEF Nodes
  <2>2. ASSUME NEW x \in N PROVE x \in Nodes(g)
    <3>1. CASE x \in ToSet(s)
      BY <1>2, <2>1, <3>1
    <3>2. CASE x \in Nodes(h) \ ToSet(h.tab[i])
      <4>1. PICK j \in 0 .. h.mask : x \in ToSet(h.tab[j])
        BY <3>2 DEF Nodes
      <4> QED BY <1>2, <2>1, <3>2, <4>1
    <3> QED BY <2>2, <3>1, <3>2
  <2>3. ASSUME NEW x \in Nodes(g) PROVE x \in N
    <3>1. PICK j \in 0 .. h.mask : x \in ToSet(t[j])
      BY <2>1
    <3>2. CASE j = i
      BY <1>2, <3>1, <3>2
    <3>3. CASE j # i
      <4>1. x \in ToSet(h.tab[j])
        BY <1>2, <3>1, <3>3
      <4>2. Slot(h, x) = j
        BY <4>1 DEF Sound, TabInv
      <4>3. x \notin ToSet(h.tab[i])
        BY <3>3, <4>2 DEF Sound, TabInv
      <4> QED BY <4>1, <4>3, SoundFacts
    <3> QED BY <3>2, <3>3
  <2> QED BY <2>2, <2>3
<1>7. TabInv(g)
  <2>1. ASSUME NEW j \in 0 .. h.mask
        PROVE  IsInjective(t[j]) /\ \A n \in ToSet(t[j]) : Slot(g, n) = j
    BY <1>2, <1>5 DEF Sound, TabInv
  <2>2. g.alloc <=> g.mask # 0
    BY <1>3 DEF Sound, TabInv
  <2> QED BY <1>3, <1>6, <2>1, <2>2 DEF TabInv
<1> QED BY <1>2, <1>3, <1>4, <1>6, <1>7 DEF Sound, g

\* HTab::insert of a node that is not in the table.
LEMMA InsertOK ==
  ASSUME NEW h, Sound(h), h.alloc, NEW n \in Node, n \notin Nodes(h),
         NEW g, g = HTab_insert(h, n)
  PROVE  /\ Sound(g) /\ Nodes(g) = Nodes(h) \cup {n}
         /\ g.alloc /\ g.mask = h.mask /\ g.size = h.size + 1
<1> DEFINE i == Slot(h, n)
           s == Cons(n, h.tab[i])
<1>1. i \in 0 .. h.mask
  BY SlotInTable DEF Sound
<1>2. h.tab[i] \in Seq(Node) /\ IsInjective(h.tab[i]) /\ n \notin ToSet(h.tab[i])
  BY <1>1, SoundFacts DEF Sound, TabInv
<1>3. /\ s \in Seq(Node) /\ IsInjective(s) /\ ToSet(s) = ToSet(h.tab[i]) \cup {n}
  BY <1>2, ConsDistinct
<1>4. \A m \in ToSet(s) : Slot(h, m) = i
  BY <1>1, <1>3 DEF Sound, TabInv
<1>5. g = With(h, i, s, h.size + 1)
  <2>1. h = [alloc |-> h.alloc, mask |-> h.mask, size |-> h.size, tab |-> h.tab]
    BY SoundFacts
  <2> QED BY <2>1 DEF HTab_insert, With
<1> HIDE DEF i, s
<1> DEFINE N == Nodes(h) \cup {n}
<1>6. IsFiniteSet(N) /\ Cardinality(N) = h.size + 1
  BY FS_AddElement DEF Sound, TabInv
<1>7. N = NodesWith(h, i, s)
  BY <1>1, <1>3, SoundFacts DEF NodesWith
<1>8. h.size + 1 \in Nat
  BY SoundFacts
<1> HIDE DEF N
<1>9. /\ Sound(g) /\ Nodes(g) = N
      /\ g.alloc /\ g.mask = h.mask /\ g.size = h.size + 1
  BY <1>1, <1>3, <1>4, <1>5, <1>6, <1>7, <1>8, ChainReplaced
<1> QED BY <1>9 DEF N

\* HTab::detach of a node of the chain i.
LEMMA DetachOK ==
  ASSUME NEW h, Sound(h), h.alloc, NEW i \in 0 .. h.mask, NEW n \in ToSet(h.tab[i]),
         NEW g, g = HTab_detach(h, i, n)
  PROVE  /\ Sound(g) /\ Nodes(g) = Nodes(h) \ {n}
         /\ g.alloc /\ g.mask = h.mask /\ g.size = h.size - 1
         /\ \A j \in 0 .. h.mask : h.tab[j] = <<>> => g.tab[j] = <<>>
<1> DEFINE s == RemoveFirst(h.tab[i], n)
           N == Nodes(h) \ {n}
<1>1. h.tab[i] \in Seq(Node) /\ IsInjective(h.tab[i])
  BY SoundFacts DEF Sound, TabInv
<1>2. /\ s \in Seq(Node) /\ IsInjective(s) /\ ToSet(s) = ToSet(h.tab[i]) \ {n}
  BY <1>1, RemoveDistinct
<1>3. \A m \in ToSet(s) : Slot(h, m) = i
  BY <1>2 DEF Sound, TabInv
<1>4. g = With(h, i, s, h.size - 1)
  <2>1. h = [alloc |-> h.alloc, mask |-> h.mask, size |-> h.size, tab |-> h.tab]
    BY SoundFacts
  <2> QED BY <2>1 DEF HTab_detach, With
<1> HIDE DEF s
<1>5. n \in Nodes(h)
  BY SoundFacts
<1>6. IsFiniteSet(N) /\ Cardinality(N) = h.size - 1
  BY <1>5, FS_RemoveElement DEF Sound, TabInv
<1>7. N = NodesWith(h, i, s)
  BY <1>2, SoundFacts DEF NodesWith
<1>8. h.size - 1 \in Nat
  BY <1>6, FS_CardinalityType
<1> HIDE DEF N
<1>9. /\ Sound(g) /\ Nodes(g) = N
      /\ g.alloc /\ g.mask = h.mask /\ g.size = h.size - 1
      /\ \A j \in 0 .. h.mask : j # i => g.tab[j] = h.tab[j]
  BY <1>2, <1>3, <1>4, <1>6, <1>7, <1>8, ChainReplaced
<1>10. h.tab[i] # <<>>
  BY DEF ToSet
<1> QED BY <1>9, <1>10 DEF N

\* An empty table.
LEMMA EmptyOK ==
  ASSUME NEW m \in {0, 1, 3}, NEW a \in BOOLEAN, a <=> m # 0, NEW h,
         h = [alloc |-> a, mask |-> m, size |-> 0,
              tab |-> [i \in 0 .. m |-> <<>>]]
  PROVE  Sound(h) /\ Nodes(h) = {}
<1>1. ToSet(<<>>) = {} /\ IsInjective(<<>>)
  BY DEF ToSet, IsInjective
<1>2. h.mask = m /\ h.size = 0 /\ h.alloc = a
        /\ \A i \in 0 .. m : h.tab[i] = <<>>
  OBVIOUS
<1>3. Nodes(h) = {}
  BY <1>1, <1>2 DEF Nodes
<1>4. IsHTab(h)
  BY DEF IsHTab
<1>5. TabInv(h)
  BY <1>1, <1>2, <1>3, FS_EmptySet DEF TabInv
<1> QED BY <1>3, <1>4, <1>5 DEF Sound

\* A table that is not allocated and the tables init makes are empty.
LEMMA NewTables ==
  /\ Sound(Zombie) /\ Nodes(Zombie) = {} /\ ~ Zombie.alloc
  /\ Sound(init(2)) /\ Nodes(init(2)) = {} /\ init(2).alloc /\ init(2).mask = 1
  /\ Sound(init(4)) /\ Nodes(init(4)) = {} /\ init(4).alloc /\ init(4).mask = 3
<1>1. Zombie = [alloc |-> FALSE, mask |-> 0, size |-> 0, tab |-> [i \in 0 .. 0 |-> <<>>]]
  <2>1. 0 .. 0 = {0}
    OBVIOUS
  <2> QED BY <2>1 DEF Zombie
<1>2. init(2) = [alloc |-> TRUE, mask |-> 1, size |-> 0, tab |-> [i \in 0 .. 1 |-> <<>>]]
  <2>1. 2 - 1 = 1
    OBVIOUS
  <2> QED BY <2>1 DEF init
<1>3. init(4) = [alloc |-> TRUE, mask |-> 3, size |-> 0, tab |-> [i \in 0 .. 3 |-> <<>>]]
  <2>1. 4 - 1 = 3
    OBVIOUS
  <2> QED BY <2>1 DEF init
<1>4. Sound(Zombie) /\ Nodes(Zombie) = {}
  BY <1>1, EmptyOK
<1>5. Sound(init(2)) /\ Nodes(init(2)) = {}
  <2>1. 1 \in {0, 1, 3} /\ 1 # 0 /\ TRUE \in BOOLEAN
    OBVIOUS
  <2> QED BY <1>2, <2>1, EmptyOK
<1>6. Sound(init(4)) /\ Nodes(init(4)) = {}
  BY <1>3, EmptyOK
<1> QED BY <1>4, <1>5, <1>6, <1>1, <1>2, <1>3

-----------------------------------------------------------------------------
(* The inductive invariant. *)

\* The map is empty at first.
LEMMA InitIInv == Init => IInv /\ Members = {}
<1> SUFFICES ASSUME Init PROVE IInv /\ Members = {}
  OBVIOUS
<1>1. /\ Sound(newer) /\ Nodes(newer) = {} /\ Sound(older) /\ Nodes(older) = {}
      /\ ~ older.alloc
  BY NewTables DEF Init
<1>2. TypeOK
  BY <1>1, WorkAssumption DEF Init, TypeOK, Sound
<1> QED BY <1>1, <1>2 DEF Init, IInv, Members, Sound

\* A call of help_rehashing that goes on finds a node at migrate_pos or after.
LEMMA InBounds == IInv => MigrateInBounds
<1> SUFFICES ASSUME IInv, MoreWork PROVE migrate_pos <= older.mask
  BY DEF MigrateInBounds
<1>1. Nodes(older) # {}
  BY FS_EmptySet DEF MoreWork, IInv, TabInv
<1>2. PICK i \in 0 .. older.mask : ToSet(older.tab[i]) # {}
  BY <1>1 DEF Nodes
<1>3. older.tab[i] # <<>>
  BY <1>2 DEF ToSet
<1>4. ~ (i < migrate_pos)
  BY <1>3 DEF IInv
<1> QED BY <1>4 DEF IInv, TypeOK, IsHTab

\* lookup finds exactly the members.
LEMMA LookupIsMember ==
  ASSUME IInv, NEW k \in Node
  PROVE  /\ lookup(k) = IF k \in Members THEN k ELSE Nil
         /\ HTab_has(newer, k) <=> k \in Nodes(newer)
         /\ HTab_has(older, k) <=> k \in Nodes(older)
<1>1. Sound(newer) /\ Sound(older)
  BY DEF IInv, TypeOK, Sound
<1> QED BY <1>1, HasIsMember DEF lookup, Members

\* HMap::insert up to help_rehashing adds its node.
LEMMA InsertStep ==
  ASSUME IInv, NEW n \in Node, Insert(n)
  PROVE  IInv' /\ n \notin Members /\ Members' = Members \cup {n}
<1> DEFINE base == IF newer.alloc THEN newer ELSE init(4)
           h == HTab_insert(base, n)
           full == ~ older.alloc /\ h.size >= (h.mask + 1) * k_max_load_factor
<1>1. /\ pc = "idle" /\ lookup(n) = Nil
      /\ \/ full /\ trigger_rehashing(h)
         \/ ~ full /\ newer' = h /\ UNCHANGED <<older, migrate_pos>>
      /\ pc' = "insert" /\ nwork' = 0 /\ ret' = Nil /\ key' = key
  BY DEF Insert
<1>2. n \notin Nodes(newer) /\ n \notin Nodes(older)
  BY <1>1, LookupIsMember, NilNodeAssumption DEF Members
<1>3. Sound(base) /\ base.alloc /\ Nodes(base) = Nodes(newer)
  BY NewTables DEF IInv, TypeOK, TabInv, Sound
<1>4. Sound(h) /\ h.alloc /\ Nodes(h) = Nodes(newer) \cup {n}
  <2> HIDE DEF base
  <2> QED BY <1>2, <1>3, InsertOK
<1> HIDE DEF h
<1>5. CASE full /\ trigger_rehashing(h)
  <2>1. older.mask = 0 /\ Nodes(older) = {}
    BY <1>5 DEF IInv, TabInv
  <2>2. older' = h /\ newer' = init(2) /\ migrate_pos' = 0
    <3>1. (0 + 1) * 2 = 2
      OBVIOUS
    <3> QED BY <1>5, <2>1, <3>1 DEF trigger_rehashing
  <2>3. /\ Sound(newer') /\ Nodes(newer') = {} /\ newer'.alloc
        /\ Sound(older') /\ Nodes(older') = Nodes(newer) \cup {n}
    BY <1>4, <2>2, NewTables
  <2> QED
    <3>1. TypeOK'
      BY <1>1, <2>2, <2>3, WorkAssumption DEF IInv, TypeOK, Sound
    <3>2. \A i \in 0 .. older'.mask : i < migrate_pos' => older'.tab[i] = <<>>
      BY <2>2
    <3>3. TabInv(newer)' /\ TabInv(older)'
      BY <2>3 DEF Sound
    <3>4. IInv'
      BY <1>1, <2>3, <3>1, <3>2, <3>3 DEF IInv
    <3> QED BY <1>2, <2>1, <2>3, <3>4 DEF Members
<1>6. CASE ~ full /\ newer' = h /\ UNCHANGED <<older, migrate_pos>>
  <2>1. /\ Sound(newer') /\ Nodes(newer') = Nodes(newer) \cup {n} /\ newer'.alloc
    BY <1>4, <1>6
  <2>2. TypeOK'
    BY <1>1, <1>6, <2>1, WorkAssumption DEF IInv, TypeOK, Sound
  <2>3. IInv'
    BY <1>1, <1>2, <1>6, <2>1, <2>2 DEF IInv, Sound
  <2> QED BY <1>2, <1>6, <2>1, <2>3 DEF Members
<1> QED BY <1>1, <1>5, <1>6

\* The test at the end of help_rehashing never changes anything.
LEMMA CleanedIsOlder == IInv => Cleaned = older
<1> SUFFICES ASSUME IInv, ~ older.alloc PROVE older = Zombie
  BY DEF Cleaned
<1>1. Sound(older) /\ older.mask = 0 /\ Nodes(older) = {} /\ older.alloc = FALSE
  BY DEF IInv, TypeOK, TabInv, Sound, IsHTab
<1>2. older.size = 0
  BY <1>1, FS_EmptySet DEF Sound, TabInv
<1>3. 0 \in 0 .. 0 /\ 0 .. 0 = {0}
  OBVIOUS
<1>4. older.tab \in [{0} -> Seq(Node)] /\ ToSet(older.tab[0]) \subseteq Nodes(older)
  BY <1>1, <1>3, SoundFacts
<1>5. older.tab[0] = <<>>
  BY <1>1, <1>4 DEF ToSet
<1>6. older.tab = [i \in {0} |-> <<>>]
  BY <1>4, <1>5
<1>7. older = [alloc |-> older.alloc, mask |-> older.mask, size |-> older.size,
               tab |-> older.tab]
  BY <1>1, SoundFacts
<1> QED BY <1>1, <1>2, <1>6, <1>7 DEF Zombie

\* A round of help_rehashing that moves a node keeps the members.
LEMMA MigrateStepStep ==
  ASSUME IInv, MigrateStep
  PROVE  IInv' /\ Members' = Members
<1> DEFINE p == migrate_pos
           n == Head(older.tab[p])
<1>1. Sound(older) /\ Sound(newer)
  BY DEF IInv, TypeOK, Sound
<1>2. p \in 0 .. older.mask
  BY InBounds DEF MigrateInBounds, MigrateStep, IInv, TypeOK, IsHTab
<1>3. older.tab[p] \in Seq(Node) /\ older.tab[p] # <<>>
  BY <1>1, <1>2, SoundFacts DEF MigrateStep
<1>4. n \in ToSet(older.tab[p]) /\ n \in Node
  BY <1>3 DEF ToSet
<1>5. n \in Nodes(older) /\ n \notin Nodes(newer)
  <2>1. n \in Nodes(older)
    BY <1>1, <1>2, <1>4, SoundFacts
  <2> QED BY <2>1 DEF IInv
<1>6. older.alloc /\ newer.alloc
  BY <1>5 DEF IInv, TabInv
<1>7. /\ older' = HTab_detach(older, p, n) /\ newer' = HTab_insert(newer, n)
      /\ nwork' = nwork + 1 /\ nwork < k_rehashing_work
      /\ UNCHANGED <<migrate_pos, pc, key, ret>>
  BY DEF MigrateStep, MoreWork
<1> HIDE DEF n
<1>8. /\ Sound(older') /\ Nodes(older') = Nodes(older) \ {n}
      /\ older'.alloc /\ older'.mask = older.mask
      /\ \A j \in 0 .. older.mask : older.tab[j] = <<>> => older'.tab[j] = <<>>
  BY <1>1, <1>2, <1>4, <1>6, <1>7, DetachOK
<1>9. Sound(newer') /\ Nodes(newer') = Nodes(newer) \cup {n} /\ newer'.alloc
  BY <1>1, <1>4, <1>5, <1>6, <1>7, InsertOK
<1>10. nwork' \in 0 .. k_rehashing_work
  BY <1>7, WorkAssumption DEF IInv, TypeOK
<1>11. TypeOK'
  BY <1>7, <1>8, <1>9, <1>10 DEF IInv, TypeOK, Sound
<1>12. \A i \in 0 .. older'.mask : i < migrate_pos' => older'.tab[i] = <<>>
  BY <1>7, <1>8 DEF IInv
<1>13. Nodes(newer') \cap Nodes(older') = {}
  BY <1>8, <1>9 DEF IInv
<1>14. Members' = Members
  BY <1>5, <1>8, <1>9 DEF Members
<1> QED BY <1>7, <1>8, <1>9, <1>11, <1>12, <1>13, <1>14 DEF IInv, Sound

\* A round that passes an empty slot does so too.
LEMMA SkipStepStep ==
  ASSUME IInv, SkipStep
  PROVE  IInv' /\ Members' = Members
<1>1. /\ older.tab[migrate_pos] = <<>> /\ migrate_pos' = migrate_pos + 1
      /\ UNCHANGED <<newer, older, pc, key, nwork, ret>>
  BY DEF SkipStep
<1>2. older.mask \in Nat /\ migrate_pos \in Nat
  BY DEF IInv, TypeOK, IsHTab
<1>3. \A i \in 0 .. older.mask : i < migrate_pos + 1 => i < migrate_pos \/ i = migrate_pos
  BY <1>2
<1>4. \A i \in 0 .. older.mask : i < migrate_pos + 1 => older.tab[i] = <<>>
  BY <1>1, <1>3 DEF IInv
<1>5. TypeOK'
  BY <1>1, <1>2 DEF IInv, TypeOK
<1> QED BY <1>1, <1>4, <1>5 DEF IInv, Members

\* The end of insert changes no table.
LEMMA InsertDoneStep ==
  ASSUME IInv, InsertDone
  PROVE  IInv' /\ Members' = Members
<1>1. /\ older' = older /\ pc' = "idle" /\ nwork' = 0
      /\ UNCHANGED <<newer, migrate_pos, key, ret>>
  BY CleanedIsOlder DEF InsertDone
<1>2. TypeOK'
  BY <1>1, WorkAssumption DEF IInv, TypeOK
<1> QED BY <1>1, <1>2 DEF IInv, Members

\* The end of HMap::erase removes its key from the table that has it.
LEMMA EraseDoneStep ==
  ASSUME IInv, EraseDone
  PROVE  /\ IInv' /\ key \in Node /\ Members' = Members \ {key}
         /\ ret' = IF key \in Members THEN key ELSE Nil
<1>1. /\ pc = "erase" /\ pc' = "idle" /\ nwork' = 0 /\ key' = Nil
      /\ migrate_pos' = migrate_pos /\ Cleaned = older
  BY CleanedIsOlder DEF EraseDone
<1>2. key \in Node /\ Sound(newer) /\ Sound(older)
  BY <1>1 DEF IInv, TypeOK, Sound
<1>3. /\ HTab_has(newer, key) <=> key \in Nodes(newer)
      /\ HTab_has(older, key) <=> key \in Nodes(older)
  BY <1>2, LookupIsMember
<1>4. /\ Slot(newer, key) \in 0 .. newer.mask
      /\ Slot(older, key) \in 0 .. older.mask
  BY <1>2, SlotInTable DEF Sound
<1>5. CASE key \in Nodes(newer)
  <2>1. /\ newer' = HTab_detach(newer, Slot(newer, key), key)
        /\ older' = older /\ ret' = key
    BY <1>1, <1>3, <1>5 DEF EraseDone
  <2>2. newer.alloc /\ key \in ToSet(newer.tab[Slot(newer, key)])
    BY <1>5 DEF IInv, TabInv, Nodes
  <2>3. Sound(newer') /\ Nodes(newer') = Nodes(newer) \ {key} /\ newer'.alloc
    BY <1>2, <1>4, <2>1, <2>2, DetachOK
  <2>4. key \notin Nodes(older)
    BY <1>5 DEF IInv
  <2>5. TypeOK'
    BY <1>1, <1>2, <2>1, <2>3, WorkAssumption DEF IInv, TypeOK, Sound
  <2>6. IInv'
    BY <1>1, <2>1, <2>3, <2>5 DEF IInv, Sound
  <2> QED BY <1>2, <1>5, <2>1, <2>3, <2>4, <2>6 DEF Members
<1>6. CASE key \notin Nodes(newer) /\ key \in Nodes(older)
  <2>1. /\ older' = HTab_detach(older, Slot(older, key), key)
        /\ newer' = newer /\ ret' = key
    BY <1>1, <1>3, <1>6 DEF EraseDone
  <2>2. older.alloc /\ key \in ToSet(older.tab[Slot(older, key)])
    BY <1>6 DEF IInv, TabInv, Nodes
  <2>3. /\ Sound(older') /\ Nodes(older') = Nodes(older) \ {key}
        /\ older'.alloc /\ older'.mask = older.mask
        /\ \A j \in 0 .. older.mask : older.tab[j] = <<>> => older'.tab[j] = <<>>
    BY <1>2, <1>4, <2>1, <2>2, DetachOK
  <2>4. TypeOK'
    BY <1>1, <1>2, <2>1, <2>3, WorkAssumption DEF IInv, TypeOK, Sound
  <2>5. \A i \in 0 .. older'.mask : i < migrate_pos' => older'.tab[i] = <<>>
    BY <1>1, <2>3 DEF IInv
  <2>6. IInv'
    BY <1>1, <2>1, <2>2, <2>3, <2>4, <2>5 DEF IInv, Sound
  <2> QED BY <1>2, <1>6, <2>1, <2>3, <2>6 DEF Members
<1>7. CASE key \notin Nodes(newer) /\ key \notin Nodes(older)
  <2>1. older' = older /\ newer' = newer /\ ret' = Nil
    BY <1>1, <1>3, <1>7 DEF EraseDone
  <2>2. TypeOK'
    BY <1>1, <2>1, WorkAssumption DEF IInv, TypeOK
  <2>3. IInv'
    BY <1>1, <2>1, <2>2 DEF IInv
  <2> QED BY <1>2, <1>7, <2>1, <2>3 DEF Members
<1> QED BY <1>5, <1>6, <1>7

\* The beginning of erase removes nothing yet.
LEMMA EraseStep ==
  ASSUME IInv, NEW k \in Node, Erase(k)
  PROVE  IInv' /\ Members' = Members /\ ret' = ret
<1>1. TypeOK'
  BY WorkAssumption DEF Erase, IInv, TypeOK
<1> QED BY <1>1 DEF Erase, IInv, Members

\* HMap::lookup finds exactly the members.
LEMMA LookupStep ==
  ASSUME IInv, NEW k \in Node, Lookup(k)
  PROVE  IInv' /\ Members' = Members /\ ret' = IF k \in Members THEN k ELSE Nil
<1>1. ret' = IF k \in Members THEN k ELSE Nil
  BY LookupIsMember DEF Lookup
<1>2. TypeOK'
  BY <1>1 DEF Lookup, IInv, TypeOK
<1> QED BY <1>1, <1>2 DEF Lookup, IInv, Members

\* HMap::clear leaves no member.
LEMMA ClearStep ==
  ASSUME IInv, Clear
  PROVE  IInv' /\ Members' = {} /\ ret' = Nil
<1>1. /\ Sound(newer') /\ Nodes(newer') = {} /\ Sound(older') /\ Nodes(older') = {}
      /\ ~ older'.alloc
  BY NewTables DEF Clear
<1>2. TypeOK'
  BY <1>1 DEF Clear, IInv, TypeOK, Sound
<1>3. \A i \in 0 .. older'.mask : i < migrate_pos' => older'.tab[i] = <<>>
  <2>1. migrate_pos' = 0
    BY DEF Clear
  <2> QED BY <1>2, <2>1 DEF TypeOK, IsHTab
<1> QED BY <1>1, <1>2, <1>3 DEF Clear, IInv, Members, Sound

\* Nothing happens.
LEMMA StutterStep ==
  ASSUME IInv, UNCHANGED vars
  PROVE  IInv' /\ Members' = Members /\ ret' = ret
<1>1. TypeOK'
  BY DEF vars, IInv, TypeOK
<1> QED BY <1>1 DEF vars, IInv, Members

\* Every step keeps the invariant.
LEMMA NextIInv == IInv /\ [Next]_vars => IInv'
<1> SUFFICES ASSUME IInv, [Next]_vars PROVE IInv'
  OBVIOUS
<1>1. ASSUME NEW n \in Node, Insert(n) \/ Erase(n) \/ Lookup(n) PROVE IInv'
  BY <1>1, InsertStep, EraseStep, LookupStep
<1>2. CASE Clear
  BY <1>2, ClearStep
<1>3. CASE Running
  BY <1>3, MigrateStepStep, SkipStepStep, InsertDoneStep, EraseDoneStep DEF Running
<1>4. CASE UNCHANGED vars
  BY <1>4, StutterStep
<1> QED BY <1>1, <1>2, <1>3, <1>4 DEF Next, Operation

-----------------------------------------------------------------------------
(* Theorems. *)

\* Both tables are sound and disjoint, and no node is behind migrate_pos, at
\* every step of every operation.
THEOREM HashMapInvariant == Spec => []IInv
<1>1. Init => IInv
  BY InitIInv
<1> QED BY <1>1, NextIInv, PTL DEF Spec

\* help_rehashing never reads behind the last slot of the older table.
THEOREM HashMapInBounds == Spec => []MigrateInBounds
  BY InBounds, HashMapInvariant, PTL

\* lookup and size() are right at every stage of a migration.
THEOREM HashMapMembersFound == Spec => []MembersFound
<1>1. IInv => MembersFound
  <2> SUFFICES ASSUME IInv PROVE MembersFound
    OBVIOUS
  <2>1. \A n \in Node : lookup(n) = n <=> n \in Members
    BY LookupIsMember, NilNodeAssumption
  <2>2. /\ IsFiniteSet(Nodes(newer)) /\ newer.size = Cardinality(Nodes(newer))
        /\ IsFiniteSet(Nodes(older)) /\ older.size = Cardinality(Nodes(older))
        /\ Nodes(newer) \cap Nodes(older) = {}
        /\ newer.size \in Nat /\ older.size \in Nat
    BY DEF IInv, TabInv, TypeOK, IsHTab
  <2>3. Cardinality(Members) = newer.size + older.size - Cardinality({})
    BY <2>2, FS_Union DEF Members
  <2>4. size = Cardinality(Members)
    BY <2>2, <2>3, FS_EmptySet DEF size
  <2> QED BY <2>1, <2>4 DEF MembersFound
<1> QED BY <1>1, HashMapInvariant, PTL

\* What HTab::foreach visits in one table.
LEMMA TabForeach ==
  ASSUME NEW h, Sound(h)
  PROVE  /\ HTab_foreach(h) \in Seq(Node) /\ IsInjective(HTab_foreach(h))
         /\ ToSet(HTab_foreach(h)) = Nodes(h)
<1>1. CASE h.mask = 0
  <2>1. Nodes(h) = {} /\ HTab_foreach(h) = <<>>
    BY <1>1 DEF Sound, TabInv, HTab_foreach
  <2> QED BY <2>1 DEF ToSet, IsInjective
<1>2. CASE h.mask # 0
  <2> DEFINE n == h.mask + 1
             seqs == [i \in 1 .. n |-> h.tab[i - 1]]
  <2>1. n \in Nat /\ \A i \in 1 .. n : i - 1 \in 0 .. h.mask
    BY SoundFacts
  <2>2. \A i \in 1 .. n : seqs[i] \in Seq(Node) /\ seqs[i] = h.tab[i - 1]
    BY <2>1, SoundFacts
  <2>3. seqs \in Seq(Seq(Node)) /\ Len(seqs) = n
    <3>1. seqs \in [1 .. n -> Seq(Node)]
      BY <2>2
    <3> HIDE DEF seqs, n
    <3> QED BY <2>1, <3>1
  <2>4. HTab_foreach(h) = FlattenSeq(seqs)
    BY <1>2 DEF HTab_foreach
  <2> HIDE DEF seqs
  <2>5. \A i \in 1 .. n : IsInjective(seqs[i])
    BY <2>1, <2>2 DEF Sound, TabInv
  <2>6. ASSUME NEW i \in 1 .. n, NEW j \in 1 .. n, i # j
        PROVE  ToSet(seqs[i]) \cap ToSet(seqs[j]) = {}
    <3>1. i - 1 # j - 1
      BY <2>6
    <3>2. \A x \in ToSet(seqs[i]) : Slot(h, x) = i - 1
      BY <2>1, <2>2 DEF Sound, TabInv
    <3>3. \A x \in ToSet(seqs[j]) : Slot(h, x) = j - 1
      BY <2>1, <2>2 DEF Sound, TabInv
    <3> QED BY <3>1, <3>2, <3>3
  <2>7. /\ FlattenSeq(seqs) \in Seq(Node) /\ IsInjective(FlattenSeq(seqs))
        /\ ToSet(FlattenSeq(seqs)) = UNION {ToSet(seqs[i]) : i \in 1 .. n}
    <3> HIDE DEF n
    <3> QED BY <2>3, <2>5, <2>6, FlattenDistinct
  <2>8. UNION {ToSet(seqs[i]) : i \in 1 .. n} = Nodes(h)
    <3>1. \A j \in 0 .. h.mask : j + 1 \in 1 .. n /\ (j + 1) - 1 = j
      BY SoundFacts
    <3>2. \A j \in 0 .. h.mask : seqs[j + 1] = h.tab[j]
      BY <2>2, <3>1
    <3>3. ASSUME NEW x \in Nodes(h) PROVE \E i \in 1 .. n : x \in ToSet(seqs[i])
      <4>1. PICK j \in 0 .. h.mask : x \in ToSet(h.tab[j])
        BY DEF Nodes
      <4> QED BY <3>1, <3>2, <4>1
    <3>4. ASSUME NEW i \in 1 .. n, NEW x \in ToSet(seqs[i]) PROVE x \in Nodes(h)
      BY <2>1, <2>2, SoundFacts
    <3> QED BY <3>3, <3>4
  <2> QED BY <2>4, <2>7, <2>8
<1> QED BY <1>1, <1>2

\* foreach visits every member exactly once, so that end_run deletes every
\* entry and none twice.
THEOREM HashMapForeach == Spec => []ForeachVisitsOnce
<1>1. IInv => ForeachVisitsOnce
  <2> SUFFICES ASSUME IInv PROVE ForeachVisitsOnce
    OBVIOUS
  <2> DEFINE a == HTab_foreach(newer)
             b == HTab_foreach(older)
  <2>1. /\ a \in Seq(Node) /\ IsInjective(a) /\ ToSet(a) = Nodes(newer)
        /\ b \in Seq(Node) /\ IsInjective(b) /\ ToSet(b) = Nodes(older)
    BY TabForeach DEF IInv, TypeOK, Sound
  <2>2. ToSet(a) \cap ToSet(b) = {}
    BY <2>1 DEF IInv
  <2>3. foreach = a \o b
    BY DEF foreach
  <2> HIDE DEF a, b
  <2>4. ToSet(a \o b) = ToSet(a) \cup ToSet(b) /\ IsInjective(a \o b)
    BY <2>1, <2>2, ConcatDistinct
  <2> QED BY <2>1, <2>3, <2>4 DEF ForeachVisitsOnce, Members
<1> QED BY <1>1, HashMapInvariant, PTL

\* A step of the map is a step of the set it stands for, or changes neither
\* the members nor the result.
LEMMA NextRefines == IInv /\ [Next]_vars => [Abstract!Next]_(Abstract!vars)
<1> SUFFICES ASSUME IInv, [Next]_vars
             PROVE  Abstract!Next \/ (Members' = Members /\ ret' = ret)
  BY DEF Abstract!vars
<1>1. ASSUME NEW n \in Node, Insert(n) PROVE Abstract!Insert(n)
  <2>1. ret' = Nil
    BY <1>1 DEF Insert
  <2> QED BY <1>1, <2>1, InsertStep DEF Abstract!Insert
<1>2. ASSUME NEW n \in Node, Erase(n) PROVE Members' = Members /\ ret' = ret
  BY <1>2, EraseStep
<1>3. ASSUME NEW n \in Node, Lookup(n) PROVE Abstract!Lookup(n)
  BY <1>3, LookupStep DEF Abstract!Lookup
<1>4. CASE Clear
  BY <1>4, ClearStep DEF Abstract!Next, Abstract!Clear
<1>5. CASE MigrateStep \/ SkipStep \/ InsertDone
  <2>1. ret' = ret
    BY <1>5 DEF MigrateStep, SkipStep, InsertDone
  <2> QED BY <1>5, <2>1, MigrateStepStep, SkipStepStep, InsertDoneStep
<1>6. CASE EraseDone
  <2>1. key \in Node /\ Abstract!Erase(key)
    BY <1>6, EraseDoneStep DEF Abstract!Erase
  <2> QED BY <2>1 DEF Abstract!Next
<1>7. CASE UNCHANGED vars
  BY <1>7, StutterStep
<1> QED BY <1>1, <1>2, <1>3, <1>4, <1>5, <1>6, <1>7
         DEF Next, Operation, Running, Abstract!Next

\* The hash table implements a set of nodes.
THEOREM HashMapRefinesNodeSet == Spec => ImplementsNodeSet
<1>1. Init => Abstract!Init
  BY InitIInv DEF Init, Abstract!Init
<1> QED BY <1>1, NextRefines, HashMapInvariant, PTL
         DEF Spec, ImplementsNodeSet, Abstract!Spec
=============================================================================
