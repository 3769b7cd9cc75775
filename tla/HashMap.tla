------------------------------ MODULE HashMap ------------------------------
(***************************************************************************)
(* The hash table of MRD_hashtable.cpp: two chained tables, `newer` and    *)
(* `older`; every insert and erase moves a few nodes from the older to the *)
(* newer one, so that no single request pays for a whole rehash.           *)
(*                                                                         *)
(* One round of the loop of help_rehashing is one step: lookups and sizes  *)
(* are also judged in the middle of a migration.  A chain is the sequence  *)
(* of the nodes that `next` links.  A key is the node that has it: eq and  *)
(* the hash code of a LookupKey agree with those of the node.              *)
(***************************************************************************)
EXTENDS Integers, SequencesExt

CONSTANTS Node,               \* the HNodes of the callers
          Hcode,              \* HNode::hcode, the hash of the node's key
          k_rehashing_work,   \* nodes moved by one help_rehashing
          k_max_load_factor,  \* nodes per slot that start a rehash
          Nil                 \* nullptr

ASSUME HcodeAssumption == Hcode \in [Node -> Nat]
ASSUME WorkAssumption == k_rehashing_work \in Nat \ {0}
ASSUME LoadAssumption == k_max_load_factor \in Nat \ {0}
ASSUME NilNodeAssumption == Nil \notin Node

VARIABLES
  newer, older,  \* the HTabs
  migrate_pos,   \* the slot of older that help_rehashing looks at
  pc,            \* "idle", or who called help_rehashing: "insert" or "erase"
  key,           \* the argument of the erase that runs
  nwork,         \* the counter of help_rehashing
  ret            \* what the last operation returned

vars == <<newer, older, migrate_pos, pc, key, nwork, ret>>

-----------------------------------------------------------------------------
(* HTab.  `mask + 1` is a power of two (TypeOK), so `hcode & mask` is the   *)
(* remainder; alloc says whether tab is non-null.                          *)

\* HTab{} and a table after clear().
Zombie == [alloc |-> FALSE, mask |-> 0, size |-> 0, tab |-> [i \in {0} |-> <<>>]]

init(n) ==
  [alloc |-> TRUE, mask |-> n - 1, size |-> 0, tab |-> [i \in 0 .. n - 1 |-> <<>>]]

Slot(h, n) == Hcode[n] % (h.mask + 1)

Mut_HTab_insert(h, n) ==
  [h EXCEPT !.tab[Hcode[n] % 2] = Cons(n, @), !.size = @ + 1]

HTab_insert(h, n) ==
  [h EXCEPT !.tab[Slot(h, n)] = Cons(n, @), !.size = @ + 1]

\* HTab::lookup finds the node with the key k in the chain of its slot.
HTab_has(h, k) == h.alloc /\ Contains(h.tab[Slot(h, k)], k)

\* HTab::detach of the node n found in the chain of slot i.
HTab_detach(h, i, n) ==
  [h EXCEPT !.tab[i] = RemoveFirst(@, n), !.size = @ - 1]

Mut_HTab_foreach(h) ==
  IF h.mask = 0 THEN <<>> ELSE FlattenSeq([i \in 1 .. h.mask |-> h.tab[i - 1]])

\* The nodes HTab::foreach calls its function with, in order.
HTab_foreach(h) ==
  IF h.mask = 0 THEN <<>> ELSE FlattenSeq([i \in 1 .. h.mask + 1 |-> h.tab[i - 1]])

-----------------------------------------------------------------------------
(* HashMap. *)

Mut_lookup(k) == IF HTab_has(newer, k) THEN k ELSE Nil

lookup(k) == IF HTab_has(newer, k) \/ HTab_has(older, k) THEN k ELSE Nil

foreach == HTab_foreach(newer) \o HTab_foreach(older)

size == newer.size + older.size

\* The assignment `older = std::move(newer)` swaps the two tables, so it is
\* the mask of the table that was `older` that the size of the new one comes
\* from.
trigger_rehashing(h) ==
  /\ older' = h
  /\ newer' = init((older.mask + 1) * 2)
  /\ migrate_pos' = 0

\* insert(n), up to its call of help_rehashing.  The callers insert only
\* nodes whose key they have just looked up in vain.
Insert(n) ==
  LET h    == HTab_insert(IF newer.alloc THEN newer ELSE init(4), n)
      full == ~ older.alloc /\ h.size >= (h.mask + 1) * k_max_load_factor
  IN  /\ pc = "idle"
      /\ lookup(n) = Nil
      /\ \/ full /\ trigger_rehashing(h)
         \/ ~ full /\ newer' = h /\ UNCHANGED <<older, migrate_pos>>
      /\ pc' = "insert"
      /\ nwork' = 0
      /\ ret' = Nil
      /\ UNCHANGED key

\* erase(k), up to its call of help_rehashing.
Erase(k) ==
  /\ pc = "idle"
  /\ pc' = "erase"
  /\ key' = k
  /\ nwork' = 0
  /\ UNCHANGED <<newer, older, migrate_pos, ret>>

Mut_MoreWork == pc # "idle" /\ nwork < k_rehashing_work

MoreWork == pc # "idle" /\ nwork < k_rehashing_work /\ older.size > 0

\* A round of help_rehashing that moves the first node of a slot.
MigrateStep ==
  /\ MoreWork
  /\ older.tab[migrate_pos] # <<>>
  /\ LET n == Head(older.tab[migrate_pos])
     IN  /\ older' = HTab_detach(older, migrate_pos, n)
         /\ newer' = HTab_insert(newer, n)
  /\ nwork' = nwork + 1
  /\ UNCHANGED <<migrate_pos, pc, key, ret>>

Mut_SkipStep ==
  /\ MoreWork
  /\ older.tab[migrate_pos] = <<>>
  /\ UNCHANGED vars

\* A round that finds the slot empty.
SkipStep ==
  /\ MoreWork
  /\ older.tab[migrate_pos] = <<>>
  /\ migrate_pos' = migrate_pos + 1
  /\ UNCHANGED <<newer, older, pc, key, nwork, ret>>

\* The end of help_rehashing.  As it is written, the test asks for a table
\* that is not allocated, so an older table once emptied stays.
Cleaned == IF older.size = 0 /\ ~ older.alloc THEN Zombie ELSE older

InsertDone ==
  /\ pc = "insert" /\ ~ MoreWork
  /\ older' = Cleaned
  /\ pc' = "idle" /\ nwork' = 0
  /\ UNCHANGED <<newer, migrate_pos, key, ret>>

Mut_EraseDone ==
  /\ pc = "erase" /\ ~ MoreWork
  /\ IF HTab_has(newer, key)
     THEN newer' = HTab_detach(newer, Slot(newer, key), key) /\ ret' = key
     ELSE UNCHANGED newer /\ ret' = Nil
  /\ older' = Cleaned
  /\ pc' = "idle" /\ nwork' = 0 /\ key' = Nil
  /\ UNCHANGED migrate_pos

\* The rest of erase: the node is detached from the table that has it.
EraseDone ==
  /\ pc = "erase" /\ ~ MoreWork
  /\ \/ /\ HTab_has(newer, key)
        /\ newer' = HTab_detach(newer, Slot(newer, key), key)
        /\ older' = Cleaned
        /\ ret' = key
     \/ /\ ~ HTab_has(newer, key) /\ HTab_has(Cleaned, key)
        /\ older' = HTab_detach(Cleaned, Slot(Cleaned, key), key)
        /\ ret' = key
        /\ UNCHANGED newer
     \/ /\ ~ HTab_has(newer, key) /\ ~ HTab_has(Cleaned, key)
        /\ older' = Cleaned
        /\ ret' = Nil
        /\ UNCHANGED newer
  /\ pc' = "idle" /\ nwork' = 0 /\ key' = Nil
  /\ UNCHANGED migrate_pos

Lookup(k) ==
  /\ pc = "idle"
  /\ ret' = lookup(k)
  /\ UNCHANGED <<newer, older, migrate_pos, pc, key, nwork>>

Clear ==
  /\ pc = "idle"
  /\ newer' = Zombie /\ older' = Zombie /\ migrate_pos' = 0
  /\ ret' = Nil
  /\ UNCHANGED <<pc, key, nwork>>

-----------------------------------------------------------------------------
Init ==
  /\ newer = Zombie /\ older = Zombie /\ migrate_pos = 0
  /\ pc = "idle" /\ key = Nil /\ nwork = 0 /\ ret = Nil

Operation == Clear \/ \E n \in Node : Insert(n) \/ Erase(n) \/ Lookup(n)

Running == MigrateStep \/ SkipStep \/ InsertDone \/ EraseDone

Next == Operation \/ Running

Spec == Init /\ [][Next]_vars

\* The thread of the server goes on running the call it is in.
FairSpec == Spec /\ WF_vars(Running)

-----------------------------------------------------------------------------
(* Properties. *)

IsHTab(h) ==
  /\ h \in [alloc : BOOLEAN, mask : {0, 1, 3}, size : Nat,
            tab : [0 .. h.mask -> Seq(Node)]]

\* Every variable has its declared type.  Masks are 2^n - 1: the tables ever
\* allocated have four or two slots.
TypeOK ==
  /\ IsHTab(newer) /\ IsHTab(older)
  /\ migrate_pos \in Nat
  /\ pc \in {"idle", "insert", "erase"}
  /\ key \in Node \cup {Nil}
  /\ nwork \in 0 .. k_rehashing_work
  /\ ret \in Node \cup {Nil}

\* The nodes in the chains of h.
Nodes(h) == UNION {ToSet(h.tab[i]) : i \in 0 .. h.mask}

Members == Nodes(newer) \cup Nodes(older)

\* Every chain holds nodes of its own slot, each once; the counter counts; a
\* table that was never allocated, or was cleared, has one slot and no nodes.
TabInv(h) ==
  /\ \A i \in 0 .. h.mask :
       IsInjective(h.tab[i]) /\ \A n \in ToSet(h.tab[i]) : Slot(h, n) = i
  /\ IsFiniteSet(Nodes(h)) /\ h.size = Cardinality(Nodes(h))
  /\ h.alloc <=> h.mask # 0
  /\ ~ h.alloc => Nodes(h) = {}

\* The inductive invariant: all variables have their types, both tables are
\* sound, no node is in both, the slots of older below migrate_pos are empty,
\* and an erase has its key.
IInv ==
  /\ TypeOK
  /\ TabInv(newer) /\ TabInv(older)
  /\ Nodes(newer) \cap Nodes(older) = {}
  /\ \A i \in 0 .. older.mask : i < migrate_pos => older.tab[i] = <<>>
  /\ older.alloc => newer.alloc
  /\ pc = "erase" => key \in Node

\* help_rehashing never reads a slot past the end of older.
MigrateInBounds == MoreWork => migrate_pos <= older.mask

\* At every moment, in the middle of a migration too, lookup finds a node
\* exactly when some chain holds it, and size() is the number of those nodes.
MembersFound ==
  /\ \A n \in Node : lookup(n) = n <=> n \in Members
  /\ size = Cardinality(Members)

\* foreach, which end_run relies on to delete every entry once, visits each
\* member exactly once, wherever the migration stands.
ForeachVisitsOnce ==
  ToSet(foreach) = Members /\ IsInjective(foreach)

Abstract == INSTANCE NodeSet WITH members <- Members

\* The map implements a set of nodes: the steps of a migration change no
\* membership, and erase and lookup return what the set says.
ImplementsNodeSet == Abstract!Spec

\* help_rehashing comes to an end.
CallsEnd == pc # "idle" ~> pc = "idle"

\* What the name k_max_load_factor promises: with no migration under way
\* the newer table has at most that many nodes per slot.
LoadBounded ==
  pc = "idle" /\ older.size = 0 =>
    newer.size <= (newer.mask + 1) * k_max_load_factor
=============================================================================
