--------------------------- MODULE TtlHeapProofs ---------------------------
(***************************************************************************)
(* Proofs about TtlHeap: the inductive invariant IInv, the two facts the   *)
(* server relies on between operations, and the refinement of TtlTable,    *)
(* each for every set of entries, every set of lifetimes and every bound   *)
(* on the clock.                                                           *)
(***************************************************************************)
EXTENDS TtlHeap, WellFoundedInduction, TLAPS

-----------------------------------------------------------------------------
(* Arithmetic of positions. *)

\* parent is the inverse of left and right, and goes towards the root.
LEMMA ParentFacts ==
  ASSUME NEW i \in Nat, i > 0
  PROVE  /\ parent(i) \in Nat
         /\ parent(i) < i
         /\ \A p \in Nat : parent(i) = p <=> (i = left(p) \/ i = right(p))
  BY DEF parent, left, right

\* The order of the naturals as a set of pairs.
NatLt == {ss \in Nat \X Nat : ss[1] < ss[2]}

\* A nonempty set of naturals has a least element: the form of induction
\* used for RootIsEarliest.
LEMMA LeastElement ==
  ASSUME NEW T \in SUBSET Nat, T # {}
  PROVE  \E x \in T : \A y \in T : x <= y
<1>1. OpToRel(<, Nat) = NatLt
  BY Zenon DEF OpToRel, NatLt
<1>2. IsWellFoundedOn(NatLt, Nat)
  BY <1>1, NatLessThanWellFounded, Zenon
<1>3. PICK x \in T : \A y \in T : ~ (<<y, x>> \in NatLt)
  BY <1>2, WFMin
<1>4. ASSUME NEW y \in T PROVE x <= y
  <2>1. ~ (<<y, x>> \in NatLt)
    BY <1>3
  <2>2. x \in Nat /\ y \in Nat
    OBVIOUS
  <2>3. ~ (y < x)
    BY <2>1, <2>2, Zenon DEF NatLt
  <2> QED
    BY <2>2, <2>3
<1> QED
  BY <1>4

-----------------------------------------------------------------------------
(* OrderInv of an array b of n items, for the loop m at position p. *)

Ordered(b, n, p, m) ==
  /\ \A i \in 1 .. n - 1 :
       \/ m = "up" /\ i = p
       \/ m = "down" /\ parent(i) = p
       \/ b[parent(i)].val <= b[i].val
  /\ m # "idle" /\ p > 0 =>
       \A i \in 1 .. n - 1 : parent(i) = p => b[parent(p)].val <= b[i].val

\* When the only doubtful place is p, update chooses the loop that repairs it.
LEMMA UpdateOrder ==
  ASSUME NEW n \in Nat, NEW b \in [0 .. n - 1 -> Item],
         NEW p \in 0 .. n - 1, NEW m \in {"up", "down"},
         m = "up" <=> p > 0 /\ b[parent(p)].val > b[p].val,
         \A i \in 1 .. n - 1 :
           i # p /\ parent(i) # p => b[parent(i)].val <= b[i].val,
         \A i \in 1 .. n - 1 :
           parent(i) = p /\ p > 0 => b[parent(p)].val <= b[i].val
  PROVE  Ordered(b, n, p, m)
<1>1. \A i \in 0 .. n - 1 : b[i].val \in Nat
  BY DEF Item
<1>2. ASSUME NEW i \in 1 .. n - 1
      PROVE  \/ m = "up" /\ i = p
             \/ m = "down" /\ parent(i) = p
             \/ b[parent(i)].val <= b[i].val
  <2>1. parent(i) \in 0 .. n - 1
    BY ParentFacts
  <2>2. CASE m = "up" /\ parent(i) = p
    <3>1. parent(p) \in 0 .. n - 1
      BY <2>2, ParentFacts
    <3>2. b[parent(p)].val > b[p].val /\ b[parent(p)].val <= b[i].val
      BY <2>2
    <3> QED
      BY <3>1, <3>2, <2>1, <2>2, <1>1
  <2>3. CASE m = "down" /\ i = p
    BY <2>1, <2>3, <1>1
  <2>4. CASE i # p /\ parent(i) # p
    BY <2>4
  <2> QED
    BY <2>2, <2>3, <2>4
<1> QED
  BY <1>2 DEF Ordered

-----------------------------------------------------------------------------
(* The deadlines an array b of n items stands for. *)

DeadlineOf(b, n) ==
  [e \in Entry |->
     IF \E i \in 0 .. n - 1 : b[i].ref = e
     THEN b[CHOOSE i \in 0 .. n - 1 : b[i].ref = e].val
     ELSE -1]

UniqueRefs(b, n) ==
  \A i, j \in 0 .. n - 1 : b[i].ref = b[j].ref => i = j

\* The deadlines of a vector without duplicates are its items.
LEMMA DeadlineFacts ==
  ASSUME NEW n \in Nat, NEW b \in [0 .. n - 1 -> Item], UniqueRefs(b, n)
  PROVE  /\ \A i \in 0 .. n - 1 : DeadlineOf(b, n)[b[i].ref] = b[i].val
         /\ \A e \in Entry :
              (\A i \in 0 .. n - 1 : b[i].ref # e) => DeadlineOf(b, n)[e] = -1
<1>1. ASSUME NEW i \in 0 .. n - 1
      PROVE  DeadlineOf(b, n)[b[i].ref] = b[i].val
  <2> DEFINE c == CHOOSE j \in 0 .. n - 1 : b[j].ref = b[i].ref
  <2>1. b[i].ref \in Entry
    BY DEF Item
  <2>2. c \in 0 .. n - 1 /\ b[c].ref = b[i].ref
    BY Zenon
  <2>3. c = i
    BY <2>2 DEF UniqueRefs
  <2>4. DeadlineOf(b, n)[b[i].ref] = b[c].val
    BY <2>1, Zenon DEF DeadlineOf
  <2> QED
    BY <2>3, <2>4
<1>2. ASSUME NEW e \in Entry, \A i \in 0 .. n - 1 : b[i].ref # e
      PROVE  DeadlineOf(b, n)[e] = -1
  BY <1>2, Zenon DEF DeadlineOf
<1> QED
  BY <1>1, <1>2

\* The array c of m items has the items of the array b of n items but for the
\* one of e, whose deadline it changes to d.
Replaced(b, n, c, m, e, d) ==
  /\ n \in Nat /\ b \in [0 .. n - 1 -> Item] /\ UniqueRefs(b, n)
  /\ m \in Nat /\ c \in [0 .. m - 1 -> Item] /\ UniqueRefs(c, m)
  /\ \A i \in 0 .. n - 1 :
       b[i].ref # e => \E j \in 0 .. m - 1 : c[j] = b[i]
  /\ \A j \in 0 .. m - 1 :
       c[j].ref # e => \E i \in 0 .. n - 1 : c[j] = b[i]
  /\ \/ \E j \in 0 .. m - 1 : c[j].ref = e /\ c[j].val = d
     \/ d = -1 /\ \A j \in 0 .. m - 1 : c[j].ref # e

\* Replacing the items of one entry changes its deadline only.
LEMMA DeadlineChange ==
  ASSUME NEW n, NEW b, NEW m, NEW c, NEW d, NEW e \in Entry,
         Replaced(b, n, c, m, e, d)
  PROVE  DeadlineOf(c, m) =
           [f \in Entry |-> IF f = e THEN d ELSE DeadlineOf(b, n)[f]]
<1> USE DEF Replaced
<1>0. /\ \A j \in 0 .. m - 1 : DeadlineOf(c, m)[c[j].ref] = c[j].val
      /\ \A f \in Entry :
           (\A j \in 0 .. m - 1 : c[j].ref # f) => DeadlineOf(c, m)[f] = -1
  BY DeadlineFacts
<1>1. ASSUME NEW f \in Entry, f # e
      PROVE  DeadlineOf(c, m)[f] = DeadlineOf(b, n)[f]
  <2>1. CASE \E i \in 0 .. n - 1 : b[i].ref = f
    <3>1. PICK i \in 0 .. n - 1 : b[i].ref = f
      BY <2>1
    <3>2. PICK j \in 0 .. m - 1 : c[j] = b[i]
      BY <3>1, <1>1
    <3>3. DeadlineOf(b, n)[f] = b[i].val
      BY <3>1, DeadlineFacts
    <3>4. c[j].ref = f
      BY <3>1, <3>2
    <3>5. DeadlineOf(c, m)[f] = c[j].val
      BY <3>4, <1>0, Zenon
    <3> QED
      BY <3>2, <3>3, <3>5
  <2>2. CASE \A i \in 0 .. n - 1 : b[i].ref # f
    <3>1. \A j \in 0 .. m - 1 : c[j].ref # f
      BY <1>1, <2>2
    <3>2. DeadlineOf(b, n)[f] = -1
      BY <2>2, DeadlineFacts
    <3>3. DeadlineOf(c, m)[f] = -1
      BY <3>1, <1>0, Zenon
    <3> QED
      BY <3>2, <3>3
  <2> QED
    BY <2>1, <2>2
<1>2. DeadlineOf(c, m)[e] = d
  BY <1>0
<1>3. DeadlineOf(c, m) = [f \in Entry |-> DeadlineOf(c, m)[f]]
  BY Zenon DEF DeadlineOf
<1> QED
  BY <1>1, <1>2, <1>3, Zenon

\* A rearrangement of the items changes no deadline.
LEMMA DeadlineExchange ==
  ASSUME NEW n \in Nat, NEW b \in [0 .. n - 1 -> Item], UniqueRefs(b, n),
         NEW c \in [0 .. n - 1 -> Item], UniqueRefs(c, n),
         \A i \in 0 .. n - 1 : \E j \in 0 .. n - 1 : c[j] = b[i],
         \A j \in 0 .. n - 1 : \E i \in 0 .. n - 1 : c[j] = b[i]
  PROVE  DeadlineOf(c, n) = DeadlineOf(b, n)
<1>0. /\ \A j \in 0 .. n - 1 : DeadlineOf(c, n)[c[j].ref] = c[j].val
      /\ \A f \in Entry :
           (\A j \in 0 .. n - 1 : c[j].ref # f) => DeadlineOf(c, n)[f] = -1
  BY DeadlineFacts
<1>1. ASSUME NEW f \in Entry
      PROVE  DeadlineOf(c, n)[f] = DeadlineOf(b, n)[f]
  <2>1. CASE \E i \in 0 .. n - 1 : b[i].ref = f
    <3>1. PICK i \in 0 .. n - 1 : b[i].ref = f
      BY <2>1
    <3>2. PICK j \in 0 .. n - 1 : c[j] = b[i]
      OBVIOUS
    <3>3. DeadlineOf(b, n)[f] = b[i].val
      BY <3>1, DeadlineFacts
    <3>4. c[j].ref = f
      BY <3>1, <3>2
    <3>5. DeadlineOf(c, n)[f] = c[j].val
      BY <3>4, <1>0, Zenon
    <3> QED
      BY <3>2, <3>3, <3>5
  <2>2. CASE \A i \in 0 .. n - 1 : b[i].ref # f
    <3>1. \A j \in 0 .. n - 1 : c[j].ref # f
      BY <2>2, ZenonT(30)
    <3>2. DeadlineOf(b, n)[f] = -1
      BY <2>2, DeadlineFacts
    <3>3. DeadlineOf(c, n)[f] = -1
      BY <3>1, <1>0, Zenon
    <3> QED
      BY <3>2, <3>3
  <2> QED
    BY <2>1, <2>2
<1>2. DeadlineOf(b, n) = [f \in Entry |-> DeadlineOf(b, n)[f]]
  BY Zenon DEF DeadlineOf
<1>3. DeadlineOf(c, n) = [f \in Entry |-> DeadlineOf(c, n)[f]]
  BY Zenon DEF DeadlineOf
<1> QED
  BY <1>1, <1>2, <1>3, Zenon

-----------------------------------------------------------------------------
(* The inductive invariant. *)

\* The empty heap satisfies the invariant.
LEMMA InitInv == Init => IInv
<1> SUFFICES ASSUME Init PROVE IInv
  OBVIOUS
<1>1. TypeOK
  BY DEF Init, TypeOK, TimersOK, Positions, Item, NoIdx
<1>2. RefInv
  BY DEF Init, RefInv, Positions, NoIdx
<1>3. OrderInv
  BY DEF Init, OrderInv, Positions
<1> QED
  BY <1>1, <1>2, <1>3 DEF IInv

\* entry_set_ttl with a time replaces or appends the item of e and starts a
\* loop at its position; the deadline of e is all that changes.
LEMMA SetTtlInv ==
  ASSUME IInv, NEW e \in Entry, NEW ttl \in Ttl, SetTtl(e, ttl)
  PROVE  IInv' /\ deadline' = [deadline EXCEPT ![e] = now + ttl]
<1> DEFINE item == [val |-> now + ttl, ref |-> e]
           p == IF InVector(heap_idx[e]) THEN heap_idx[e] ELSE size
           n == IF InVector(heap_idx[e]) THEN size ELSE size + 1
           b == [i \in 0 .. n - 1 |-> IF i = p THEN item ELSE ttl_heap[i]]
<1>1. /\ pc = "idle" /\ ttl_heap' = b /\ size' = n
      /\ pos' = p /\ t' = b[p] /\ pc' \in {"up", "down"}
      /\ pc' = "up" <=> p > 0 /\ b[parent(p)].val > b[p].val
      /\ UNCHANGED <<heap_idx, del, timers>>
  BY DEF SetTtl, update
<1>2. /\ size \in Nat /\ ttl_heap \in [0 .. size - 1 -> Item]
      /\ heap_idx \in [Entry -> Nat \cup {-1}] /\ now \in Nat /\ TimersOK
      /\ del = Nil
  BY <1>1 DEF IInv, TypeOK, TimersOK, Positions, NoIdx, RefInv
<1>3. item \in Item
  BY <1>2, TtlAssumption DEF Item
<1>4. /\ n \in Nat /\ p \in 0 .. n - 1 /\ p \in Nat
      /\ size <= n
      /\ \A i \in 0 .. n - 1 : i # p => i \in 0 .. size - 1
  BY <1>2 DEF InVector
<1>5. b \in [0 .. n - 1 -> Item] /\ b[p] = item
  BY <1>2, <1>3, <1>4
<1>6. TypeOK'
  BY <1>1, <1>2, <1>4, <1>5 DEF TypeOK, TimersOK, timers, Positions, NoIdx
<1>7. Shown' = b
  BY <1>1, <1>4, <1>5 DEF Shown
<1>8. /\ \A i, j \in 0 .. size - 1 : ttl_heap[i].ref = ttl_heap[j].ref => i = j
      /\ \A i \in 0 .. size - 1 : heap_idx[ttl_heap[i].ref] = i
      /\ \A f \in Entry : \/ \E i \in 0 .. size - 1 : ttl_heap[i].ref = f
                          \/ heap_idx[f] = -1
  BY <1>1, <1>2, NilAssumption DEF IInv, RefInv, Shown, Positions, NoIdx
<1>9. \A i \in 0 .. n - 1 : i # p => ttl_heap[i].ref # e
  BY <1>2, <1>4, <1>8 DEF InVector
<1>10. RefInv'
  <2>1. \A i, j \in 0 .. n - 1 : b[i].ref = b[j].ref => i = j
    BY <1>2, <1>4, <1>5, <1>8, <1>9
  <2>2. \A i \in 0 .. n - 1 : i = p \/ heap_idx[b[i].ref] = i
    BY <1>2, <1>4, <1>5, <1>8
  <2>3. \A f \in Entry : \/ \E i \in 0 .. n - 1 : b[i].ref = f
                         \/ heap_idx[f] = -1
    <3> SUFFICES ASSUME NEW f \in Entry, heap_idx[f] # -1
                 PROVE  \E i \in 0 .. n - 1 : b[i].ref = f
      OBVIOUS
    <3>1. CASE f = e
      BY <3>1, <1>4, <1>5
    <3>2. CASE f # e
      <4>1. PICK i \in 0 .. size - 1 : ttl_heap[i].ref = f
        BY <1>8
      <4>2. i \in 0 .. n - 1 /\ i # p
        BY <4>1, <3>2, <1>2, <1>4, <1>8 DEF InVector
      <4> QED
        BY <4>1, <4>2
    <3> QED
      BY <3>1, <3>2
  <2> QED
    BY <1>1, <1>2, <1>7, <2>1, <2>2, <2>3, ZenonT(30) DEF RefInv, Positions, NoIdx
<1>11. OrderInv'
  <2>1. \A i \in 1 .. size - 1 : ttl_heap[parent(i)].val <= ttl_heap[i].val
    BY <1>1, <1>2 DEF IInv, OrderInv, Shown, Positions
  <2>2. \A i \in 0 .. n - 1 : i # p => b[i] = ttl_heap[i]
    OBVIOUS
  <2>3. p < size => n = size
    BY <1>2 DEF InVector
  <2> HIDE DEF b, n, p, item
  <2>4. ASSUME NEW i \in 1 .. n - 1, i # p, parent(i) # p
        PROVE  b[parent(i)].val <= b[i].val
    <3>1. parent(i) \in 0 .. n - 1
      BY ParentFacts, <1>4
    <3> QED
      BY <3>1, <2>1, <2>2, <2>4, <1>4
  <2>5. ASSUME NEW i \in 1 .. n - 1, parent(i) = p, p > 0
        PROVE  b[parent(p)].val <= b[i].val
    <3>1. p < i /\ parent(p) < p /\ parent(p) \in Nat
      BY ParentFacts, <1>4, <2>5
    <3>2. /\ i \in 1 .. size - 1 /\ p \in 1 .. size - 1
          /\ parent(p) \in 0 .. size - 1
      <4>1. i \in 0 .. n - 1 /\ i # p
        BY <3>1, <1>4
      <4>2. i \in 0 .. size - 1
        BY <4>1, <1>4
      <4> QED
        BY <4>2, <3>1, <2>5, <1>2, <1>4
    <3>3. /\ ttl_heap[parent(p)].val <= ttl_heap[p].val
          /\ ttl_heap[p].val <= ttl_heap[i].val
      BY <3>2, <2>5, <2>1
    <3>4. /\ ttl_heap[parent(p)].val \in Nat /\ ttl_heap[p].val \in Nat
          /\ ttl_heap[i].val \in Nat
      BY <3>2, <1>2 DEF Item
    <3>5. b[parent(p)] = ttl_heap[parent(p)] /\ b[i] = ttl_heap[i]
      BY <3>1, <3>2, <1>4, <2>2
    <3> QED
      BY <3>3, <3>4, <3>5
  <2>6. Ordered(b, n, p, pc')
    BY <1>1, <1>4, <1>5, <2>4, <2>5, UpdateOrder
  <2> QED
    BY <1>1, <1>4, <1>7, <2>6 DEF OrderInv, Ordered, Positions
<1>12. deadline' = [deadline EXCEPT ![e] = now + ttl]
  <2>1. deadline = DeadlineOf(ttl_heap, size)
    BY <1>1 DEF deadline, DeadlineOf, Positions, Shown
  <2>2. deadline' = DeadlineOf(b, n)
    BY <1>1, <1>7 DEF deadline, DeadlineOf, Positions
  <2>3. UniqueRefs(ttl_heap, size)
    BY <1>8 DEF UniqueRefs
  <2>4. UniqueRefs(b, n)
    BY <1>1, <1>7, <1>10 DEF RefInv, UniqueRefs, Positions
  <2>5. \A i \in 0 .. n - 1 : i # p => b[i] = ttl_heap[i]
    OBVIOUS
  <2>6. b[p].ref = e /\ b[p].val = now + ttl
    BY <1>5
  <2>7. p < size => ttl_heap[p].ref = e
    BY <1>2, <1>8 DEF InVector
  <2> HIDE DEF b, n, p, item
  <2>8. ASSUME NEW i \in 0 .. size - 1, ttl_heap[i].ref # e
        PROVE  \E j \in 0 .. n - 1 : b[j] = ttl_heap[i]
    <3>1. i \in 0 .. n - 1 /\ i # p
      BY <2>7, <2>8, <1>2, <1>4
    <3> QED
      BY <3>1, <2>5
  <2>9. ASSUME NEW j \in 0 .. n - 1, b[j].ref # e
        PROVE  \E i \in 0 .. size - 1 : b[j] = ttl_heap[i]
    <3>1. j # p /\ j \in 0 .. size - 1
      BY <2>6, <2>9, <1>4
    <3> QED
      BY <3>1, <2>5
  <2>10. DeadlineOf(b, n) =
          [f \in Entry |->
             IF f = e THEN now + ttl ELSE DeadlineOf(ttl_heap, size)[f]]
    <3>1. size \in Nat /\ ttl_heap \in [0 .. size - 1 -> Item]
      BY <1>2
    <3>2. n \in Nat /\ b \in [0 .. n - 1 -> Item]
      BY <1>4, <1>5
    <3>3. \E j \in 0 .. n - 1 : b[j].ref = e /\ b[j].val = now + ttl
      BY <1>4, <2>6
    <3> QED
      <4>1. Replaced(ttl_heap, size, b, n, e, now + ttl)
        BY <3>1, <3>2, <3>3, <2>3, <2>4, <2>8, <2>9, Zenon DEF Replaced
      <4> QED
        BY <4>1, DeadlineChange
  <2>11. deadline = [f \in Entry |-> deadline[f]]
    BY DEF deadline
  <2> QED
    BY <2>1, <2>2, <2>10, <2>11
<1> QED
  BY <1>6, <1>10, <1>11, <1>12 DEF IInv

\* Between two operations: the invariant in terms of the vector itself.
LEMMA IdleFacts ==
  ASSUME IInv, pc = "idle"
  PROVE  /\ size \in Nat /\ ttl_heap \in [0 .. size - 1 -> Item]
         /\ heap_idx \in [Entry -> Nat \cup {-1}] /\ now \in Nat /\ TimersOK
         /\ del = Nil
         /\ \A i, j \in 0 .. size - 1 : ttl_heap[i].ref = ttl_heap[j].ref => i = j
         /\ \A i \in 0 .. size - 1 : heap_idx[ttl_heap[i].ref] = i
         /\ \A f \in Entry : \/ \E i \in 0 .. size - 1 : ttl_heap[i].ref = f
                             \/ heap_idx[f] = -1
         /\ \A f \in Entry :
              heap_idx[f] # -1 =>
                heap_idx[f] \in 0 .. size - 1 /\ ttl_heap[heap_idx[f]].ref = f
         /\ \A i \in 1 .. size - 1 : ttl_heap[parent(i)].val <= ttl_heap[i].val
<1>1. /\ size \in Nat /\ ttl_heap \in [0 .. size - 1 -> Item]
      /\ heap_idx \in [Entry -> Nat \cup {-1}] /\ now \in Nat /\ TimersOK
      /\ del = Nil
  BY DEF IInv, TypeOK, TimersOK, Positions, NoIdx, RefInv
<1>2. /\ \A i, j \in 0 .. size - 1 : ttl_heap[i].ref = ttl_heap[j].ref => i = j
      /\ \A i \in 0 .. size - 1 : heap_idx[ttl_heap[i].ref] = i
      /\ \A f \in Entry : \/ \E i \in 0 .. size - 1 : ttl_heap[i].ref = f
                          \/ heap_idx[f] = -1
  BY <1>1, NilAssumption DEF IInv, RefInv, Shown, Positions, NoIdx
<1>3. \A i \in 1 .. size - 1 : ttl_heap[parent(i)].val <= ttl_heap[i].val
  BY <1>1 DEF IInv, OrderInv, Shown, Positions
<1> QED
  BY <1>1, <1>2, <1>3

\* HeapItem::erase puts the last item at the place of the erased one and
\* starts a loop there, unless the erased one was the last; e has no deadline
\* any more, and no other entry's has changed.
LEMMA EraseInv ==
  ASSUME IInv, pc = "idle", NEW e \in Entry, heap_idx[e] # NoIdx, erase(e),
         UNCHANGED timers
  PROVE  IInv' /\ deadline' = [deadline EXCEPT ![e] = -1]
<1> DEFINE p == heap_idx[e]
           n == size - 1
           b == [i \in 0 .. n - 1 |-> IF i = p THEN ttl_heap[n] ELSE ttl_heap[i]]
<1>1. /\ size \in Nat /\ ttl_heap \in [0 .. size - 1 -> Item]
      /\ heap_idx \in [Entry -> Nat \cup {-1}] /\ now \in Nat /\ TimersOK
      /\ del = Nil
      /\ \A i, j \in 0 .. size - 1 : ttl_heap[i].ref = ttl_heap[j].ref => i = j
      /\ \A i \in 0 .. size - 1 : heap_idx[ttl_heap[i].ref] = i
      /\ \A f \in Entry : \/ \E i \in 0 .. size - 1 : ttl_heap[i].ref = f
                          \/ heap_idx[f] = -1
      /\ \A i \in 1 .. size - 1 : ttl_heap[parent(i)].val <= ttl_heap[i].val
  BY IdleFacts
<1>2. p \in 0 .. size - 1 /\ ttl_heap[p].ref = e
  BY IdleFacts DEF NoIdx
<1>3. /\ n \in Nat /\ p \in 0 .. n /\ n + 1 = size
      /\ 0 .. size - 1 = 0 .. n
  BY <1>1, <1>2
<1>4. b \in [0 .. n - 1 -> Item]
  BY <1>1, <1>3
<1>5. \A i \in 0 .. n - 1 : b[i] = IF i = p THEN ttl_heap[n] ELSE ttl_heap[i]
  OBVIOUS
<1>6. ttl_heap' = b /\ size' = n /\ UNCHANGED timers
  BY DEF erase
<1>7. ASSUME Shown' = b, RefInv'
      PROVE  deadline' = [deadline EXCEPT ![e] = -1]
  <2>1. deadline = DeadlineOf(ttl_heap, size)
    BY DEF deadline, DeadlineOf, Positions, Shown
  <2>2. deadline' = DeadlineOf(b, n)
    BY <1>6, <1>7 DEF deadline, DeadlineOf, Positions
  <2>3. UniqueRefs(ttl_heap, size)
    BY <1>1 DEF UniqueRefs
  <2>4. UniqueRefs(b, n)
    BY <1>6, <1>7 DEF RefInv, UniqueRefs, Positions
  <2> HIDE DEF b, n, p
  <2>5. ASSUME NEW j \in 0 .. n - 1
        PROVE  b[j].ref # e /\ \E i \in 0 .. size - 1 : b[j] = ttl_heap[i]
    <3>1. CASE j = p
      <4>1. n \in 0 .. size - 1 /\ n # p /\ b[j] = ttl_heap[n]
        BY <3>1, <1>3, <1>5
      <4> QED
        BY <4>1, <1>1, <1>2
    <3>2. CASE j # p
      <4>1. j \in 0 .. size - 1 /\ b[j] = ttl_heap[j]
        BY <3>2, <1>3, <1>5
      <4> QED
        BY <4>1, <3>2, <1>1, <1>2
    <3> QED
      BY <3>1, <3>2
  <2>6. ASSUME NEW i \in 0 .. size - 1, ttl_heap[i].ref # e
        PROVE  \E j \in 0 .. n - 1 : b[j] = ttl_heap[i]
    <3>1. i # p
      BY <2>6, <1>2
    <3>2. CASE i = n
      <4>1. p \in 0 .. n - 1 /\ b[p] = ttl_heap[i]
        BY <3>1, <3>2, <1>3, <1>5
      <4> QED
        BY <4>1
    <3>3. CASE i # n
      <4>1. i \in 0 .. n - 1 /\ b[i] = ttl_heap[i]
        BY <3>1, <3>3, <1>3, <1>5
      <4> QED
        BY <4>1
    <3> QED
      BY <3>2, <3>3
  <2>7. DeadlineOf(b, n) =
          [f \in Entry |->
             IF f = e THEN -1 ELSE DeadlineOf(ttl_heap, size)[f]]
    <3>1. size \in Nat /\ ttl_heap \in [0 .. size - 1 -> Item]
      BY <1>1
    <3>2. n \in Nat /\ b \in [0 .. n - 1 -> Item]
      BY <1>3, <1>4
    <3>3. \A j \in 0 .. n - 1 :
            b[j].ref # e => \E i \in 0 .. size - 1 : b[j] = ttl_heap[i]
      BY <2>5
    <3>4. \A j \in 0 .. n - 1 : b[j].ref # e
      BY <2>5
    <3> QED
      <4>1. Replaced(ttl_heap, size, b, n, e, -1)
        BY <3>1, <3>2, <3>3, <3>4, <2>3, <2>4, <2>6, Zenon DEF Replaced
      <4> QED
        BY <4>1, DeadlineChange
  <2>8. deadline = [f \in Entry |-> deadline[f]]
    BY DEF deadline
  <2> QED
    BY <2>1, <2>2, <2>7, <2>8
<1>8. CASE p < n
  <2>1. /\ pc' \in {"up", "down"} /\ pos' = p /\ t' = b[p] /\ del' = e
        /\ pc' = "up" <=> p > 0 /\ b[parent(p)].val > b[p].val
        /\ heap_idx' = heap_idx
    BY <1>1, <1>3, <1>8 DEF erase, update
  <2> HIDE DEF b, n, p
  <2>2. p \in 0 .. n - 1
    BY <1>3, <1>8
  <2>3. TypeOK'
    BY <1>1, <1>3, <1>4, <1>6, <2>1, <2>2
       DEF TypeOK, TimersOK, timers, Positions, NoIdx
  <2>4. Shown' = b
    BY <1>4, <1>6, <2>1, <2>2 DEF Shown
  <2>5. RefInv'
    <3>1. \A i, j \in 0 .. n - 1 : b[i].ref = b[j].ref => i = j
      BY <1>1, <1>3, <1>5, <2>2
    <3>2. \A i \in 0 .. n - 1 : i = p \/ heap_idx[b[i].ref] = i
      BY <1>1, <1>3, <1>5
    <3>3. \A i \in 0 .. n - 1 : b[i].ref # e
      BY <1>1, <1>2, <1>3, <1>5, <2>2
    <3>4. ASSUME NEW f \in Entry, heap_idx[f] # -1, f # e
          PROVE  \E i \in 0 .. n - 1 : b[i].ref = f
      <4>1. PICK i \in 0 .. n : ttl_heap[i].ref = f
        BY <3>4, <1>1, <1>3
      <4>2. i # p
        BY <4>1, <3>4, <1>2
      <4>3. CASE i = n
        <5>1. b[p].ref = f
          BY <4>1, <4>3, <1>5, <2>2
        <5> QED
          BY <5>1, <2>2
      <4>4. CASE i # n
        <5>1. i \in 0 .. n - 1
          BY <4>4, <1>3
        <5> QED
          BY <5>1, <4>1, <4>2, <1>5
      <4> QED
        BY <4>3, <4>4
    <3> QED
      BY <1>6, <2>1, <2>4, <3>1, <3>2, <3>3, <3>4
         DEF RefInv, Positions, NoIdx
  <2>6. OrderInv'
    <3>1. ASSUME NEW i \in 1 .. n - 1, i # p, parent(i) # p
          PROVE  b[parent(i)].val <= b[i].val
      <4>1. parent(i) \in 0 .. n - 1
        BY ParentFacts, <1>3
      <4>2. i \in 1 .. size - 1
        BY <1>3
      <4>3. b[parent(i)] = ttl_heap[parent(i)] /\ b[i] = ttl_heap[i]
        BY <4>1, <3>1, <1>3, <1>5
      <4> QED
        BY <4>2, <4>3, <1>1
    <3>2. ASSUME NEW i \in 1 .. n - 1, parent(i) = p, p > 0
          PROVE  b[parent(p)].val <= b[i].val
      <4>1. p < i /\ parent(p) < p /\ parent(p) \in Nat
        BY ParentFacts, <1>3, <3>2
      <4>2. /\ i \in 1 .. size - 1 /\ p \in 1 .. size - 1
            /\ parent(p) \in 0 .. size - 1
        BY <4>1, <3>2, <1>3
      <4>3. /\ ttl_heap[parent(p)].val <= ttl_heap[p].val
            /\ ttl_heap[p].val <= ttl_heap[i].val
        BY <4>2, <3>2, <1>1
      <4>4. /\ ttl_heap[parent(p)].val \in Nat /\ ttl_heap[p].val \in Nat
            /\ ttl_heap[i].val \in Nat
        BY <4>2, <1>1 DEF Item
      <4>5. b[parent(p)] = ttl_heap[parent(p)] /\ b[i] = ttl_heap[i]
        BY <4>1, <1>3, <1>5, <2>2
      <4> QED
        BY <4>3, <4>4, <4>5
    <3>3. Ordered(b, n, p, pc')
      BY <1>3, <1>4, <2>1, <2>2, <3>1, <3>2, UpdateOrder
    <3> QED
      BY <1>3, <1>6, <2>1, <2>4, <3>3 DEF OrderInv, Ordered, Positions
  <2> QED
    BY <2>3, <2>4, <2>5, <2>6, <1>7 DEF IInv
<1>9. CASE ~ (p < n)
  <2>1. /\ pc' = pc /\ pos' = pos /\ t' = t /\ del' = del
        /\ heap_idx' = [heap_idx EXCEPT ![e] = NoIdx]
    BY <1>1, <1>3, <1>9 DEF erase
  <2> HIDE DEF b, n, p
  <2>2. p = n
    BY <1>3, <1>9
  <2>3. TypeOK'
    BY <1>1, <1>3, <1>4, <1>6, <2>1
       DEF IInv, TypeOK, TimersOK, timers, Positions, NoIdx
  <2>4. Shown' = b
    BY <1>6, <2>1 DEF Shown
  <2>5. \A i \in 0 .. n - 1 : /\ b[i] = ttl_heap[i] /\ b[i].ref # e
                              /\ b[i].ref \in Entry
    BY <1>1, <1>2, <1>3, <1>5, <2>2 DEF Item
  <2>6. RefInv'
    <3>1. \A i, j \in 0 .. n - 1 : b[i].ref = b[j].ref => i = j
      BY <1>1, <1>3, <2>5
    <3>2. \A i \in 0 .. n - 1 : heap_idx'[b[i].ref] = i
      BY <1>1, <1>3, <2>1, <2>5
    <3>3. ASSUME NEW f \in Entry, heap_idx'[f] # -1
          PROVE  \E i \in 0 .. n - 1 : b[i].ref = f
      <4>1. f # e /\ heap_idx[f] # -1
        BY <3>3, <2>1, <1>1 DEF NoIdx
      <4>2. PICK i \in 0 .. n : ttl_heap[i].ref = f
        BY <4>1, <1>1, <1>3
      <4>3. i \in 0 .. n - 1
        BY <4>1, <4>2, <1>2, <1>3, <2>2
      <4> QED
        BY <4>2, <4>3, <2>5
    <3> QED
      BY <1>1, <1>6, <2>1, <2>4, <3>1, <3>2, <3>3
         DEF RefInv, Positions, NoIdx
  <2>7. OrderInv'
    <3>1. ASSUME NEW i \in 1 .. n - 1
          PROVE  b[parent(i)].val <= b[i].val
      <4>1. parent(i) \in 0 .. n - 1
        BY ParentFacts, <1>3
      <4> QED
        BY <4>1, <1>1, <1>3, <2>5
    <3> QED
      BY <1>3, <1>6, <2>1, <2>4, <3>1 DEF OrderInv, Positions
  <2> QED
    BY <2>3, <2>4, <2>6, <2>7, <1>7 DEF IInv
<1> QED
  BY <1>8, <1>9

-----------------------------------------------------------------------------
(* The loops exchange the item in hand with one above or below it. *)

Exchanged(b, c, n, p, q) ==
  \A i \in 0 .. n - 1 :
    c[i] = IF i = p THEN b[q] ELSE IF i = q THEN b[p] ELSE b[i]

\* A round of up keeps the order but at the item's new position.
LEMMA UpOrder ==
  ASSUME NEW n \in Nat, NEW b \in [0 .. n - 1 -> Item],
         NEW c \in [0 .. n - 1 -> Item], NEW p \in 1 .. n - 1, NEW q \in Nat,
         q = parent(p), b[q].val > b[p].val, Ordered(b, n, p, "up"),
         Exchanged(b, c, n, p, q)
  PROVE  Ordered(c, n, q, "up")
<1>1. q \in 0 .. n - 1 /\ q < p
  BY ParentFacts
<1>2. /\ \A i \in 0 .. n - 1 : b[i].val \in Nat
      /\ \A i \in 0 .. n - 1 :
           c[i] = IF i = p THEN b[q] ELSE IF i = q THEN b[p] ELSE b[i]
  BY DEF Item, Exchanged
<1>3. \A i \in 1 .. n - 1 : i = p \/ b[parent(i)].val <= b[i].val
  BY DEF Ordered
<1>4. \A i \in 1 .. n - 1 : parent(i) = p => b[q].val <= b[i].val
  BY DEF Ordered
<1>5. ASSUME NEW i \in 1 .. n - 1, i # q PROVE c[parent(i)].val <= c[i].val
  <2>1. parent(i) \in 0 .. n - 1 /\ parent(i) < i
    BY ParentFacts
  <2>2. CASE i = p
    BY <2>2, <1>1, <1>2
  <2>3. CASE i # p /\ parent(i) = p
    BY <2>1, <2>3, <1>1, <1>2, <1>4, <1>5
  <2>4. CASE i # p /\ parent(i) = q
    <3>1. c[parent(i)] = b[p] /\ c[i] = b[i] /\ b[q].val <= b[i].val
      BY <2>4, <1>1, <1>2, <1>3, <1>5
    <3> QED
      BY <3>1, <1>1, <1>2
  <2>5. CASE i # p /\ parent(i) # p /\ parent(i) # q
    BY <2>1, <2>5, <1>2, <1>3, <1>5
  <2> QED
    BY <2>2, <2>3, <2>4, <2>5
<1>6. ASSUME q > 0, NEW i \in 1 .. n - 1, parent(i) = q
      PROVE  c[parent(q)].val <= c[i].val
  <2>1. parent(q) \in 0 .. n - 1 /\ parent(q) < q
    BY <1>1, <1>6, ParentFacts
  <2>2. c[parent(q)] = b[parent(q)] /\ b[parent(q)].val <= b[q].val
    BY <2>1, <1>1, <1>2, <1>3, <1>6
  <2>3. i > q
    BY <1>6, ParentFacts
  <2>4. CASE i = p
    BY <2>2, <2>4, <1>2
  <2>5. CASE i # p
    <3>1. c[i] = b[i] /\ b[q].val <= b[i].val
      BY <2>3, <2>5, <1>2, <1>3, <1>6
    <3> QED
      BY <3>1, <2>1, <2>2, <1>1, <1>2
  <2> QED
    BY <2>4, <2>5
<1> QED
  BY <1>5, <1>6 DEF Ordered

\* A round of down keeps the order but at the children of the new position.
LEMMA DownOrder ==
  ASSUME NEW n \in Nat, NEW b \in [0 .. n - 1 -> Item],
         NEW c \in [0 .. n - 1 -> Item], NEW p \in 0 .. n - 1,
         NEW q \in 1 .. n - 1, parent(q) = p, b[q].val < b[p].val,
         \A i \in 1 .. n - 1 : parent(i) = p => b[q].val <= b[i].val,
         Ordered(b, n, p, "down"), Exchanged(b, c, n, p, q)
  PROVE  Ordered(c, n, q, "down")
<1>1. p < q
  BY ParentFacts
<1>2. /\ \A i \in 0 .. n - 1 : b[i].val \in Nat
      /\ \A i \in 0 .. n - 1 :
           c[i] = IF i = p THEN b[q] ELSE IF i = q THEN b[p] ELSE b[i]
  BY DEF Item, Exchanged
<1>3. \A i \in 1 .. n - 1 : parent(i) = p \/ b[parent(i)].val <= b[i].val
  BY DEF Ordered
<1>4. p > 0 => b[parent(p)].val <= b[q].val
  BY DEF Ordered
<1>5. ASSUME NEW i \in 1 .. n - 1, parent(i) # q
      PROVE  c[parent(i)].val <= c[i].val
  <2>1. parent(i) \in 0 .. n - 1 /\ parent(i) < i
    BY ParentFacts
  <2>2. CASE i = q
    BY <2>2, <1>1, <1>2
  <2>3. CASE i # q /\ parent(i) = p
    BY <2>1, <2>3, <1>1, <1>2
  <2>4. CASE i = p
    BY <2>1, <2>4, <1>1, <1>2, <1>4, <1>5
  <2>5. CASE i # p /\ i # q /\ parent(i) # p
    BY <2>1, <2>5, <1>2, <1>3, <1>5
  <2> QED
    BY <2>2, <2>3, <2>4, <2>5
<1>6. ASSUME NEW i \in 1 .. n - 1, parent(i) = q
      PROVE  c[parent(q)].val <= c[i].val
  <2>1. i > q
    BY <1>6, ParentFacts
  <2>2. c[i] = b[i] /\ c[p] = b[q] /\ b[q].val <= b[i].val
    BY <2>1, <1>1, <1>2, <1>3, <1>6
  <2> QED
    BY <2>2
<1> QED
  BY <1>5, <1>6 DEF Ordered

\* What the invariant says while a loop runs.
LEMMA LoopFacts ==
  ASSUME IInv, pc # "idle"
  PROVE  /\ size \in Nat /\ ttl_heap \in [0 .. size - 1 -> Item]
         /\ heap_idx \in [Entry -> Nat \cup {-1}] /\ now \in Nat /\ TimersOK
         /\ pos \in 0 .. size - 1 /\ t \in Item /\ del \in Entry \cup {Nil}
         /\ Shown \in [0 .. size - 1 -> Item]
         /\ \A i \in 0 .. size - 1 :
              Shown[i] = IF i = pos THEN t ELSE ttl_heap[i]
         /\ Ordered(Shown, size, pos, pc)
<1>1. /\ size \in Nat /\ ttl_heap \in [0 .. size - 1 -> Item]
      /\ heap_idx \in [Entry -> Nat \cup {-1}] /\ now \in Nat /\ TimersOK
      /\ pos \in 0 .. size - 1 /\ t \in Item /\ del \in Entry \cup {Nil}
  BY DEF IInv, TypeOK, TimersOK, Positions, NoIdx
<1>2. /\ Shown \in [0 .. size - 1 -> Item]
      /\ \A i \in 0 .. size - 1 :
           Shown[i] = IF i = pos THEN t ELSE ttl_heap[i]
  BY <1>1 DEF Shown
<1>3. Ordered(Shown, size, pos, pc)
  BY <1>1 DEF IInv, OrderInv, Ordered, Positions
<1> QED
  BY <1>1, <1>2, <1>3

\* A round of either loop exchanges two items and keeps heap_idx in step.
LEMMA MoveRef ==
  ASSUME IInv, pc # "idle", NEW q \in 0 .. size - 1, q # pos, MoveFrom(q)
  PROVE  /\ TypeOK' /\ RefInv' /\ deadline' = deadline
         /\ size' = size /\ pc' = pc /\ pos' = q
         /\ Shown' \in [0 .. size - 1 -> Item]
         /\ Exchanged(Shown, Shown', size, pos, q)
<1>1. /\ size \in Nat /\ ttl_heap \in [0 .. size - 1 -> Item]
      /\ heap_idx \in [Entry -> Nat \cup {-1}] /\ now \in Nat /\ TimersOK
      /\ pos \in 0 .. size - 1 /\ t \in Item /\ del \in Entry \cup {Nil}
      /\ Shown \in [0 .. size - 1 -> Item]
      /\ \A i \in 0 .. size - 1 :
           Shown[i] = IF i = pos THEN t ELSE ttl_heap[i]
  BY LoopFacts
<1>2. /\ ttl_heap' = [ttl_heap EXCEPT ![pos] = ttl_heap[q]]
      /\ heap_idx' = [heap_idx EXCEPT ![ttl_heap[q].ref] = pos]
      /\ pos' = q
      /\ size' = size /\ pc' = pc /\ t' = t /\ del' = del /\ UNCHANGED timers
  BY DEF MoveFrom
<1>3. TypeOK'
  BY <1>1, <1>2 DEF IInv, TypeOK, TimersOK, timers, Positions, NoIdx, Item
<1>4. Shown' = [ttl_heap' EXCEPT ![q] = t]
  BY <1>2 DEF Shown
<1>5. /\ Shown' \in [0 .. size - 1 -> Item]
      /\ Exchanged(Shown, Shown', size, pos, q)
  BY <1>1, <1>2, <1>4 DEF Exchanged
<1>6. /\ \A i, j \in 0 .. size - 1 : Shown[i].ref = Shown[j].ref => i = j
      /\ \A i \in 0 .. size - 1 : i = pos \/ heap_idx[Shown[i].ref] = i
      /\ \A e \in Entry :
           \/ \E i \in 0 .. size - 1 : Shown[i].ref = e
           \/ heap_idx[e] = -1
           \/ e = del
      /\ del # Nil => \A i \in 0 .. size - 1 : Shown[i].ref # del
  BY DEF IInv, RefInv, Positions, NoIdx
<1>7. RefInv'
  <2> DEFINE b == Shown
             c == Shown'
  <2>1. /\ \A i \in 0 .. size - 1 :
             c[i] = IF i = pos THEN b[q] ELSE IF i = q THEN b[pos] ELSE b[i]
        /\ b[q] = ttl_heap[q]
    BY <1>1, <1>5 DEF Exchanged
  <2>2. \A i \in 0 .. size - 1 : b[i].ref \in Entry
    BY <1>1 DEF Item
  <2> HIDE DEF b, c
  <2>3. \A i, j \in 0 .. size - 1 : c[i].ref = c[j].ref => i = j
    BY <1>1, <1>6, <2>1 DEF b
  <2>4. \A i \in 0 .. size - 1 : i = q \/ heap_idx'[c[i].ref] = i
    BY <1>1, <1>2, <1>6, <2>1, <2>2 DEF b
  <2>5. ASSUME NEW e \in Entry
        PROVE  \/ \E i \in 0 .. size - 1 : c[i].ref = e
               \/ heap_idx'[e] = -1
               \/ e = del
    <3>1. CASE \E i \in 0 .. size - 1 : b[i].ref = e
      BY <3>1, <1>1, <2>1
    <3>2. CASE heap_idx[e] = -1 /\ ~ \E i \in 0 .. size - 1 : b[i].ref = e
      BY <3>2, <1>1, <1>2, <2>1
    <3> QED
      BY <3>1, <3>2, <1>6 DEF b
  <2>6. del # Nil => \A i \in 0 .. size - 1 : c[i].ref # del
    BY <1>1, <1>6, <2>1 DEF b
  <2> QED
    BY <1>2, <2>3, <2>4, <2>5, <2>6 DEF RefInv, Positions, NoIdx, c
<1>8. deadline' = deadline
  <2> DEFINE b == Shown
             c == Shown'
  <2>1. deadline = DeadlineOf(b, size) /\ deadline' = DeadlineOf(c, size)
    BY <1>2 DEF deadline, DeadlineOf, Positions
  <2>2. UniqueRefs(b, size) /\ UniqueRefs(c, size)
    BY <1>2, <1>6, <1>7 DEF RefInv, UniqueRefs, Positions
  <2>3. \A i \in 0 .. size - 1 :
          c[i] = IF i = pos THEN b[q] ELSE IF i = q THEN b[pos] ELSE b[i]
    BY <1>5 DEF Exchanged
  <2>4. b \in [0 .. size - 1 -> Item] /\ c \in [0 .. size - 1 -> Item]
    BY <1>1, <1>5
  <2> HIDE DEF b, c
  <2>5. /\ \A i \in 0 .. size - 1 : \E j \in 0 .. size - 1 : c[j] = b[i]
        /\ \A j \in 0 .. size - 1 : \E i \in 0 .. size - 1 : c[j] = b[i]
    BY <1>1, <2>3
  <2> QED
    BY <1>1, <2>1, <2>2, <2>4, <2>5, DeadlineExchange
<1> QED
  BY <1>2, <1>3, <1>5, <1>7, <1>8

\* A round of HeapItem::up.
LEMMA UpStepInv ==
  ASSUME IInv, UpStep
  PROVE  IInv' /\ deadline' = deadline
<1> DEFINE q == parent(pos)
<1>1. pc = "up" /\ pos > 0 /\ ttl_heap[q].val > t.val /\ MoveFrom(q)
  BY DEF UpStep, MustRise
<1>2. /\ size \in Nat /\ pos \in 1 .. size - 1
      /\ Shown \in [0 .. size - 1 -> Item]
      /\ \A i \in 0 .. size - 1 :
           Shown[i] = IF i = pos THEN t ELSE ttl_heap[i]
      /\ Ordered(Shown, size, pos, "up")
  BY <1>1, LoopFacts
<1>3. q \in 0 .. size - 1 /\ q # pos /\ q \in Nat
  BY <1>2, ParentFacts
<1>4. Shown[q].val > Shown[pos].val
  BY <1>1, <1>2, <1>3
<1> HIDE DEF q
<1>5. /\ TypeOK' /\ RefInv' /\ deadline' = deadline
      /\ size' = size /\ pc' = pc /\ pos' = q
      /\ Shown' \in [0 .. size - 1 -> Item]
      /\ Exchanged(Shown, Shown', size, pos, q)
  BY <1>1, <1>3, MoveRef
<1>6. Ordered(Shown', size, q, "up")
  BY <1>2, <1>3, <1>4, <1>5, UpOrder DEF q
<1>7. OrderInv'
  BY <1>1, <1>2, <1>5, <1>6 DEF OrderInv, Ordered, Positions
<1> QED
  BY <1>5, <1>7 DEF IInv

\* What the two comparisons of down find.
LEMMA MinPosFacts ==
  ASSUME IInv, pc = "down"
  PROVE  \/ /\ min_pos = pos
            /\ \A i \in 1 .. size - 1 :
                 parent(i) = pos => Shown[pos].val <= Shown[i].val
         \/ /\ min_pos \in 1 .. size - 1 /\ parent(min_pos) = pos
            /\ min_pos # pos
            /\ Shown[min_pos].val < Shown[pos].val
            /\ \A i \in 1 .. size - 1 :
                 parent(i) = pos => Shown[min_pos].val <= Shown[i].val
<1> DEFINE l == left(pos)
           r == right(pos)
<1>1. /\ size \in Nat /\ pos \in 0 .. size - 1 /\ pos \in Nat
      /\ Shown \in [0 .. size - 1 -> Item]
      /\ \A i \in 0 .. size - 1 :
           Shown[i] = IF i = pos THEN t ELSE ttl_heap[i]
  BY LoopFacts
<1>2. /\ l \in Nat /\ r \in Nat /\ l > pos /\ r > pos /\ l > 0 /\ r > 0
  BY <1>1 DEF left, right
<1>3. parent(l) = pos /\ parent(r) = pos
  BY <1>1, <1>2, ParentFacts
<1>4. \A i \in 1 .. size - 1 : parent(i) = pos => i = l \/ i = r
  BY <1>1, ParentFacts
<1>5. \A i \in 0 .. size - 1 : Shown[i].val \in Nat
  BY <1>1 DEF Item
<1>6. /\ l < size => l \in 1 .. size - 1 /\ ttl_heap[l] = Shown[l]
      /\ r < size => r \in 1 .. size - 1 /\ ttl_heap[r] = Shown[r]
      /\ t = Shown[pos]
  BY <1>1, <1>2
<1>7. min_pos = LET ml == l < size /\ ttl_heap[l].val < t.val
                    mv == IF ml THEN ttl_heap[l].val ELSE t.val
                IN  IF r < size /\ ttl_heap[r].val < mv THEN r
                    ELSE IF ml THEN l ELSE pos
  BY DEF min_pos
<1> HIDE DEF l, r
<1>8. CASE l < size /\ Shown[l].val < Shown[pos].val
  <2>1. min_pos = IF r < size /\ Shown[r].val < Shown[l].val THEN r ELSE l
    BY <1>6, <1>7, <1>8
  <2> QED
    BY <2>1, <1>1, <1>2, <1>3, <1>4, <1>5, <1>6, <1>8
<1>9. CASE ~ (l < size /\ Shown[l].val < Shown[pos].val)
  <2>1. min_pos = IF r < size /\ Shown[r].val < Shown[pos].val THEN r ELSE pos
    BY <1>6, <1>7, <1>9
  <2> QED
    BY <2>1, <1>1, <1>2, <1>3, <1>4, <1>5, <1>6, <1>9
<1> QED
  BY <1>8, <1>9

\* A round of HeapItem::down.
LEMMA DownStepInv ==
  ASSUME IInv, DownStep
  PROVE  IInv' /\ deadline' = deadline
<1> DEFINE q == min_pos
<1>1. pc = "down" /\ q # pos /\ MoveFrom(q)
  BY DEF DownStep
<1>2. /\ q \in 1 .. size - 1 /\ parent(q) = pos
      /\ Shown[q].val < Shown[pos].val
      /\ \A i \in 1 .. size - 1 : parent(i) = pos => Shown[q].val <= Shown[i].val
  BY <1>1, MinPosFacts
<1>3. /\ size \in Nat /\ pos \in 0 .. size - 1
      /\ Shown \in [0 .. size - 1 -> Item]
      /\ Ordered(Shown, size, pos, "down")
  BY <1>1, LoopFacts
<1> HIDE DEF q
<1>4. q \in 0 .. size - 1
  BY <1>2
<1>5. /\ TypeOK' /\ RefInv' /\ deadline' = deadline
      /\ size' = size /\ pc' = pc /\ pos' = q
      /\ Shown' \in [0 .. size - 1 -> Item]
      /\ Exchanged(Shown, Shown', size, pos, q)
  BY <1>1, <1>4, MoveRef
<1>6. Ordered(Shown', size, q, "down")
  BY <1>2, <1>3, <1>5, DownOrder
<1>7. OrderInv'
  BY <1>1, <1>3, <1>5, <1>6 DEF OrderInv, Ordered, Positions
<1> QED
  BY <1>5, <1>7 DEF IInv

\* The end of a loop stores the item in hand where the loop stopped.
LEMMA ReturnInv ==
  ASSUME IInv, pc # "idle", Return,
         \A i \in 1 .. size - 1 : Shown[parent(i)].val <= Shown[i].val
  PROVE  IInv' /\ deadline' = deadline
<1>1. /\ size \in Nat /\ ttl_heap \in [0 .. size - 1 -> Item]
      /\ heap_idx \in [Entry -> Nat \cup {-1}] /\ now \in Nat /\ TimersOK
      /\ pos \in 0 .. size - 1 /\ t \in Item /\ del \in Entry \cup {Nil}
      /\ Shown \in [0 .. size - 1 -> Item]
      /\ \A i \in 0 .. size - 1 :
           Shown[i] = IF i = pos THEN t ELSE ttl_heap[i]
  BY LoopFacts
<1> DEFINE h == [heap_idx EXCEPT ![t.ref] = pos]
<1>2. /\ ttl_heap' = [ttl_heap EXCEPT ![pos] = t]
      /\ heap_idx' = IF del = Nil THEN h ELSE [h EXCEPT ![del] = NoIdx]
      /\ pc' = "idle" /\ pos' = 0 /\ t' = Nil /\ del' = Nil
      /\ size' = size /\ UNCHANGED timers
  BY DEF Return
<1>3. Shown' = Shown /\ ttl_heap' = Shown
  BY <1>2 DEF Shown
<1>4. h \in [Entry -> Nat \cup {-1}]
  BY <1>1 DEF Item
<1>5. heap_idx' \in [Entry -> Nat \cup {-1}]
  BY <1>1, <1>2, <1>4 DEF NoIdx
<1>6. TypeOK'
  BY <1>1, <1>2, <1>3, <1>5 DEF TypeOK, TimersOK, timers, Positions, NoIdx
<1>7. RefInv'
  <2>1. /\ \A i, j \in 0 .. size - 1 : Shown[i].ref = Shown[j].ref => i = j
        /\ \A i \in 0 .. size - 1 : i = pos \/ heap_idx[Shown[i].ref] = i
        /\ \A e \in Entry :
             \/ \E i \in 0 .. size - 1 : Shown[i].ref = e
             \/ heap_idx[e] = -1
             \/ e = del
        /\ del # Nil => \A i \in 0 .. size - 1 : Shown[i].ref # del
    BY DEF IInv, RefInv, Positions, NoIdx
  <2>2. \A i \in 0 .. size - 1 : Shown[i].ref \in Entry
    BY <1>1 DEF Item
  <2>3. \A i \in 0 .. size - 1 : h[Shown[i].ref] = i
    BY <1>1, <2>1, <2>2
  <2>4. \A e \in Entry : \/ \E i \in 0 .. size - 1 : Shown[i].ref = e
                         \/ h[e] = -1
                         \/ e = del
    BY <1>1, <2>1
  <2> HIDE DEF h
  <2>5. \A i \in 0 .. size - 1 : heap_idx'[Shown[i].ref] = i
    BY <1>1, <1>2, <1>4, <2>1, <2>2, <2>3 DEF NoIdx
  <2>6. \A e \in Entry : \/ \E i \in 0 .. size - 1 : Shown[i].ref = e
                         \/ heap_idx'[e] = -1
    BY <1>1, <1>2, <1>4, <2>4, NilAssumption DEF NoIdx
  <2> QED
    BY <1>2, <1>3, <2>1, <2>5, <2>6 DEF RefInv, Positions, NoIdx
<1>8. OrderInv'
  BY <1>1, <1>2, <1>3 DEF OrderInv, Positions
<1>9. deadline' = deadline
  BY <1>2, <1>3 DEF deadline, Positions
<1> QED
  BY <1>6, <1>7, <1>8, <1>9 DEF IInv

\* The end of up.
LEMMA UpDoneInv ==
  ASSUME IInv, UpDone
  PROVE  IInv' /\ deadline' = deadline
<1>1. pc = "up" /\ ~ MustRise /\ Return
  BY DEF UpDone
<1>2. /\ size \in Nat /\ pos \in 0 .. size - 1
      /\ Shown \in [0 .. size - 1 -> Item]
      /\ \A i \in 0 .. size - 1 :
           Shown[i] = IF i = pos THEN t ELSE ttl_heap[i]
      /\ Ordered(Shown, size, pos, "up")
  BY <1>1, LoopFacts
<1>3. pos > 0 => Shown[parent(pos)].val <= Shown[pos].val
  <2> SUFFICES ASSUME pos > 0
               PROVE  Shown[parent(pos)].val <= Shown[pos].val
    OBVIOUS
  <2>1. parent(pos) \in 0 .. size - 1 /\ parent(pos) # pos
    BY <1>2, ParentFacts
  <2>2. ~ (Shown[parent(pos)].val > Shown[pos].val)
    BY <2>1, <1>1, <1>2 DEF MustRise
  <2> QED
    BY <2>1, <2>2, <1>2 DEF Item
<1>4. \A i \in 1 .. size - 1 : Shown[parent(i)].val <= Shown[i].val
  BY <1>2, <1>3 DEF Ordered
<1> QED
  BY <1>1, <1>4, ReturnInv

\* The end of down.
LEMMA DownDoneInv ==
  ASSUME IInv, DownDone
  PROVE  IInv' /\ deadline' = deadline
<1>1. pc = "down" /\ min_pos = pos /\ Return
  BY DEF DownDone
<1>2. \A i \in 1 .. size - 1 : parent(i) = pos => Shown[pos].val <= Shown[i].val
  BY <1>1, MinPosFacts
<1>3. Ordered(Shown, size, pos, "down")
  BY <1>1, LoopFacts
<1>4. \A i \in 1 .. size - 1 : Shown[parent(i)].val <= Shown[i].val
  BY <1>2, <1>3 DEF Ordered
<1> QED
  BY <1>1, <1>4, ReturnInv

-----------------------------------------------------------------------------
(* The theorems. *)

\* Every step of the server keeps the inductive invariant.
LEMMA NextInv == IInv /\ [Next]_vars => IInv'
<1> SUFFICES ASSUME IInv, [Next]_vars PROVE IInv'
  OBVIOUS
<1>1. ASSUME NEW e \in Entry, NEW ttl \in Ttl, SetTtl(e, ttl) PROVE IInv'
  BY <1>1, SetTtlInv
<1>2. ASSUME NEW e \in Entry, ClearTtl(e) PROVE IInv'
  BY <1>2, EraseInv DEF ClearTtl
<1>3. CASE ExpireTop
  <2>1. /\ pc = "idle" /\ size > 0 /\ heap_idx[ttl_heap[0].ref] # NoIdx
        /\ erase(ttl_heap[0].ref) /\ UNCHANGED timers
    BY <1>3 DEF ExpireTop
  <2>2. ttl_heap[0].ref \in Entry
    BY <2>1 DEF IInv, TypeOK, Positions, Item
  <2> QED
    BY <2>1, <2>2, EraseInv
<1>4. CASE Loop
  BY <1>4, UpStepInv, UpDoneInv, DownStepInv, DownDoneInv DEF Loop
<1>5. ASSUME UNCHANGED heap, TimersOK' PROVE IInv'
  BY <1>5 DEF heap, IInv, TypeOK, RefInv, OrderInv, Positions, Shown
<1>6. CASE Tick \/ TimersBegin \/ TimersEnd \/ UNCHANGED vars
  <2>1. UNCHANGED heap
    BY <1>6 DEF Tick, TimersBegin, TimersEnd, vars
  <2>2. TimersOK'
    BY <1>6 DEF Tick, TimersBegin, TimersEnd, vars, timers, IInv, TypeOK, TimersOK
  <2> QED
    BY <2>1, <2>2, <1>5
<1> QED
  BY <1>1, <1>2, <1>3, <1>4, <1>6 DEF Next, Operation, Timers

\* The inductive invariant holds for every set of entries and lifetimes.
THEOREM HeapInvariant == Spec => []IInv
  BY InitInv, NextInv, PTL DEF Spec

\* No access of up, down, update and erase is out of bounds.
THEOREM HeapTypeOK == Spec => []TypeOK
<1>1. IInv => TypeOK
  BY DEF IInv
<1> QED
  BY <1>1, HeapInvariant, PTL

\* heap_idx and ttl_heap are inverse to each other between operations.
THEOREM HeapIndexInverse == Spec => []IndexInverse
<1>1. IInv => IndexInverse
  BY IdleFacts DEF IndexInverse, Positions, NoIdx
<1> QED
  BY <1>1, HeapInvariant, PTL

\* The least position that holds an item earlier than the root would have a
\* parent that is no later, hence a lesser such position.
LEMMA RootLemma == IInv => RootIsEarliest
<1> SUFFICES ASSUME IInv, pc = "idle", NEW k \in 0 .. size - 1,
                    ~ (ttl_heap[0].val <= ttl_heap[k].val)
             PROVE  FALSE
  BY DEF RootIsEarliest, Positions
<1>1. /\ size \in Nat /\ ttl_heap \in [0 .. size - 1 -> Item]
      /\ \A i \in 1 .. size - 1 : ttl_heap[parent(i)].val <= ttl_heap[i].val
  BY IdleFacts
<1>2. \A i \in 0 .. size - 1 : ttl_heap[i].val \in Nat
  BY <1>1 DEF Item
<1> DEFINE T == {i \in 0 .. size - 1 : ~ (ttl_heap[0].val <= ttl_heap[i].val)}
<1>3. T \in SUBSET Nat /\ T # {}
  BY <1>1
<1>4. PICK x \in T : \A y \in T : x <= y
  BY <1>3, LeastElement, Zenon
<1>5. x \in 1 .. size - 1
  BY <1>1, <1>2, <1>4
<1>6. parent(x) \in 0 .. size - 1 /\ parent(x) < x
  BY <1>1, <1>5, ParentFacts
<1>7. parent(x) \in T
  BY <1>1, <1>2, <1>4, <1>5, <1>6
<1> QED
  BY <1>4, <1>5, <1>6, <1>7

\* The root, the only item process_timers looks at, has the earliest deadline.
THEOREM HeapRootIsEarliest == Spec => []RootIsEarliest
  BY RootLemma, HeapInvariant, PTL

\* Every step of the heap is a step of TtlTable or changes no deadline.
LEMMA NextRefines == IInv /\ [Next]_vars => [Table!Next]_(Table!vars)
<1> SUFFICES ASSUME IInv, [Next]_vars
             PROVE  Table!Next \/ UNCHANGED <<deadline, now, caller>>
  BY DEF Table!vars
<1>1. ASSUME NEW e \in Entry, NEW ttl \in Ttl, SetTtl(e, ttl)
      PROVE  Table!SetTtl(e, ttl)
  BY <1>1, SetTtlInv DEF SetTtl, Table!SetTtl, timers
<1>2. \A e \in Entry : pc = "idle" /\ heap_idx[e] # NoIdx =>
        \E i \in 0 .. size - 1 : ttl_heap[i].ref = e
  BY IdleFacts DEF NoIdx
<1>3. pc = "idle" =>
        /\ deadline = DeadlineOf(ttl_heap, size)
        /\ UniqueRefs(ttl_heap, size)
        /\ size \in Nat /\ ttl_heap \in [0 .. size - 1 -> Item]
  BY IdleFacts DEF UniqueRefs, deadline, DeadlineOf, Positions, Shown
<1>4. pc = "idle" =>
        /\ \A i \in 0 .. size - 1 : deadline[ttl_heap[i].ref] = ttl_heap[i].val
        /\ \A f \in Entry :
             \/ deadline[f] = -1
             \/ \E i \in 0 .. size - 1 : deadline[f] = ttl_heap[i].val
  <2> SUFFICES ASSUME pc = "idle"
               PROVE  /\ \A i \in 0 .. size - 1 :
                           deadline[ttl_heap[i].ref] = ttl_heap[i].val
                      /\ \A f \in Entry :
                           \/ deadline[f] = -1
                           \/ \E i \in 0 .. size - 1 :
                                deadline[f] = ttl_heap[i].val
    OBVIOUS
  <2>1. /\ \A i \in 0 .. size - 1 :
             DeadlineOf(ttl_heap, size)[ttl_heap[i].ref] = ttl_heap[i].val
        /\ \A f \in Entry :
             (\A i \in 0 .. size - 1 : ttl_heap[i].ref # f) =>
               DeadlineOf(ttl_heap, size)[f] = -1
    BY <1>3, DeadlineFacts
  <2> QED
    BY <2>1, <1>3, Zenon
<1>5. ASSUME NEW e \in Entry, ClearTtl(e) PROVE Table!ClearTtl(e)
  <2>1. PICK i \in 0 .. size - 1 : ttl_heap[i].ref = e
    BY <1>2, <1>5 DEF ClearTtl
  <2>2. deadline[e] = ttl_heap[i].val /\ ttl_heap[i].val \in Nat
    BY <2>1, <1>3, <1>4, <1>5 DEF ClearTtl, Item
  <2>3. deadline' = [deadline EXCEPT ![e] = -1]
    BY <1>5, EraseInv DEF ClearTtl
  <2> QED
    BY <2>2, <2>3, <1>5 DEF ClearTtl, Table!ClearTtl, Table!NoTtl, timers
<1>6. ASSUME ExpireTop PROVE Table!Expire(ttl_heap[0].ref)
  <2> DEFINE e == ttl_heap[0].ref
  <2>1. /\ pc = "idle" /\ size > 0 /\ heap_idx[e] # NoIdx
        /\ erase(e) /\ UNCHANGED timers
        /\ caller = "timers" /\ ttl_heap[0].val < tnow
    BY <1>6 DEF ExpireTop
  <2>2. 0 \in 0 .. size - 1 /\ e \in Entry /\ ttl_heap[0].val \in Nat
    BY <2>1, <1>3 DEF Item
  <2>3. deadline' = [deadline EXCEPT ![e] = -1]
    BY <2>1, <2>2, EraseInv
  <2>4. deadline[e] = ttl_heap[0].val
    BY <2>1, <2>2, <1>4
  <2>5. \A i \in 0 .. size - 1 : ttl_heap[0].val <= ttl_heap[i].val
    BY <2>1, RootLemma DEF RootIsEarliest, Positions
  <2>6. \A f \in Entry : deadline[f] = -1 \/ deadline[e] <= deadline[f]
    BY <2>1, <2>4, <2>5, <1>4
  <2>7. ttl_heap[0].val < now
    BY <2>1, <2>2 DEF IInv, TypeOK, TimersOK
  <2> QED
    BY <2>1, <2>2, <2>3, <2>4, <2>6, <2>7 DEF Table!Expire, Table!NoTtl, timers
<1>7. ASSUME Loop PROVE UNCHANGED <<deadline, now, caller>>
  <2>1. deadline' = deadline
    BY <1>7, UpStepInv, UpDoneInv, DownStepInv, DownDoneInv DEF Loop
  <2>2. UNCHANGED <<now, caller>>
    BY <1>7 DEF Loop, UpStep, UpDone, DownStep, DownDone, MoveFrom, Return, timers
  <2> QED
    BY <2>1, <2>2
<1>8. ASSUME UNCHANGED heap PROVE deadline' = deadline
  BY <1>8 DEF heap, deadline, Shown, Positions
<1>9. ASSUME Tick PROVE Table!Tick
  BY <1>8, <1>9 DEF Tick, Table!Tick
<1>10. ASSUME ExpireTop PROVE ttl_heap[0].ref \in Entry
  BY <1>10, <1>3 DEF ExpireTop, Item
<1>11. ASSUME TimersBegin PROVE Table!TimersBegin
  BY <1>8, <1>11 DEF TimersBegin, Table!TimersBegin
<1>12. ASSUME TimersEnd PROVE Table!TimersEnd
  BY <1>8, <1>12 DEF TimersEnd, Table!TimersEnd
<1>13. ASSUME UNCHANGED vars PROVE UNCHANGED <<deadline, now, caller>>
  BY <1>8, <1>13 DEF vars, timers
<1> QED
  BY <1>1, <1>5, <1>6, <1>7, <1>9, <1>10, <1>11, <1>12, <1>13
     DEF Next, Operation, Timers, Table!Next

\* The heap implements TtlTable, for every set of entries and lifetimes and
\* every bound on the clock.
THEOREM HeapRefinesTable == Spec => ImplementsTtlTable
<1>1. Init => Table!Init
  BY DEF Init, Table!Init, Table!NoTtl, deadline, Positions, Shown
<1> QED
  BY <1>1, NextRefines, HeapInvariant, PTL
     DEF Spec, ImplementsTtlTable, Table!Spec

\* Each round of up goes to the parent and each round of down to a child.
LEMMA RoundsAdvance ==
  ASSUME IInv, Next, pc # "idle", pc' # "idle", now' = now
  PROVE  pc' = pc /\ IF pc = "up" THEN pos' < pos ELSE pos < pos'
<1>1. pos \in Nat /\ now \in Nat /\ pc \in {"up", "down"}
  BY DEF IInv, TypeOK, TimersOK
<1>2. CASE UpStep
  BY <1>1, <1>2 DEF UpStep, MoveFrom, MustRise, parent
<1>3. CASE DownStep
  BY <1>1, <1>3 DEF DownStep, MoveFrom, min_pos, left, right
<1>4. CASE UpDone \/ DownDone
  BY <1>4 DEF UpDone, DownDone, Return
<1>5. CASE Tick
  BY <1>1, <1>5 DEF Tick
<1>6. CASE Operation \/ Timers
  BY <1>6 DEF Operation, ClearTtl, SetTtl, Timers, TimersBegin, ExpireTop, TimersEnd
<1> QED
  BY <1>2, <1>3, <1>4, <1>5, <1>6 DEF Next, Loop

\* The loops of HeapItem::up and HeapItem::down come to an end for every
\* heap: their position moves one way only, and stays inside the vector.
THEOREM HeapLoopsAdvance == Spec => LoopsAdvance
<1>1. IInv /\ [Next]_vars =>
        [pc # "idle" /\ pc' # "idle" /\ now' = now =>
           /\ pc' = pc
           /\ IF pc = "up" THEN pos' < pos ELSE pos < pos']_vars
  BY RoundsAdvance
<1> QED
  BY <1>1, HeapInvariant, PTL DEF Spec, LoopsAdvance
=============================================================================
