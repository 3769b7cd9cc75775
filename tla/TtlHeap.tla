------------------------------- MODULE TtlHeap -------------------------------
(***************************************************************************)
(* The TTL index of the server: the min-heap of MRD_heap.cpp as            *)
(* Server::entry_set_ttl and Server::process_timers drive it.              *)
(*                                                                         *)
(* ttl_heap is a vector of items, each a deadline and a pointer `ref` back *)
(* to the heap_idx field of the Entry it belongs to.  Every move of an     *)
(* item must be mirrored in the heap_idx it points to: a missed one makes  *)
(* the next entry_set_ttl or entry_del overwrite or remove the item of     *)
(* another entry.                                                          *)
(*                                                                         *)
(* One iteration of the loops of HeapItem::up and HeapItem::down is one    *)
(* step, so that the intermediate arrays (where the item in hand is stored *)
(* nowhere and another one is stored twice) are states of the model.  The  *)
(* server has one thread: while pc # "idle" no other operation starts, and *)
(* while process_timers runs no request is served.                         *)
(***************************************************************************)
EXTENDS Integers

CONSTANTS Entry,    \* the Entry objects of the server
          Ttl,      \* the lifetimes requests ask for, in ms
          MaxTime,  \* bound on the clock
          Nil       \* "no item" and "no entry"

ASSUME TtlAssumption == Ttl \subseteq Nat
ASSUME NilAssumption == Nil \notin Entry
ASSUME MaxTimeAssumption == MaxTime \in Nat

\* heap_idx of an entry that is not in the heap: size_t(-1).
NoIdx == -1

Item == [val : Nat, ref : Entry]

VARIABLES
  ttl_heap,   \* the vector, a function on 0 .. size-1
  size,       \* ttl_heap.size()
  heap_idx,   \* Entry::heap_idx
  now,        \* get_monotonic_msec()
  caller,     \* "requests", or "timers" while process_timers runs
  tnow,       \* now_ms of process_timers
  pc,         \* "idle", or the loop that runs: "up" or "down"
  pos,        \* the loop's position
  t,          \* the item the loop has in hand
  del         \* the entry whose heap_idx becomes -1 when erase returns

heap == <<ttl_heap, size, heap_idx, pc, pos, t, del>>
timers == <<now, caller, tnow>>
vars == <<heap, timers>>

-----------------------------------------------------------------------------
(* Positions. *)

parent(p) == (p + 1) \div 2 - 1

left(p) == p * 2 + 1

right(p) == p * 2 + 2

\* `pos < a.size()` on size_t: -1 is SIZE_MAX, which is never smaller.
InVector(p) == 0 <= p /\ p < size

-----------------------------------------------------------------------------
(* HeapItem::update, entered with the array b and position p. *)

Mut_update(b, p) ==
  /\ pc' = "down"
  /\ pos' = p
  /\ t' = b[p]

update(b, p) ==
  /\ pc' = IF p > 0 /\ b[parent(p)].val > b[p].val THEN "up" ELSE "down"
  /\ pos' = p
  /\ t' = b[p]

Mut_SetTtl(e, ttl) ==
  LET item == [val |-> now - ttl, ref |-> e]
      p    == IF InVector(heap_idx[e]) THEN heap_idx[e] ELSE size
      n    == IF InVector(heap_idx[e]) THEN size ELSE size + 1
      b    == [i \in 0 .. n - 1 |-> IF i = p THEN item ELSE ttl_heap[i]]
  IN  /\ pc = "idle" /\ caller = "requests"
      /\ ttl_heap' = b
      /\ size' = n
      /\ update(b, p)
      /\ UNCHANGED <<heap_idx, del, timers>>

\* entry_set_ttl(e, ttl) with ttl >= 0: HeapItem::upsert, then update.
SetTtl(e, ttl) ==
  LET item == [val |-> now + ttl, ref |-> e]
      p    == IF InVector(heap_idx[e]) THEN heap_idx[e] ELSE size
      n    == IF InVector(heap_idx[e]) THEN size ELSE size + 1
      b    == [i \in 0 .. n - 1 |-> IF i = p THEN item ELSE ttl_heap[i]]
  IN  /\ pc = "idle" /\ caller = "requests"
      /\ ttl_heap' = b
      /\ size' = n
      /\ update(b, p)
      /\ UNCHANGED <<heap_idx, del, timers>>

Mut_erase(e) ==
  LET p == heap_idx[e]
      n == size - 1
      b == [i \in 0 .. n - 1 |-> IF i = p THEN ttl_heap[n] ELSE ttl_heap[i]]
  IN  /\ ttl_heap' = b
      /\ size' = n
      /\ heap_idx' = [heap_idx EXCEPT ![e] = NoIdx]
      /\ UNCHANGED <<pc, pos, t, del>>

\* HeapItem::erase of the item of e, then ent->heap_idx = -1.  Nothing is
\* left to sift when the item was the last one.
erase(e) ==
  LET p == heap_idx[e]
      n == size - 1
      b == [i \in 0 .. n - 1 |-> IF i = p THEN ttl_heap[n] ELSE ttl_heap[i]]
  IN  /\ ttl_heap' = b
      /\ size' = n
      /\ \/ /\ p < n
            /\ update(b, p)
            /\ del' = e
            /\ UNCHANGED heap_idx
         \/ /\ p >= n
            /\ heap_idx' = [heap_idx EXCEPT ![e] = NoIdx]
            /\ UNCHANGED <<pc, pos, t, del>>

\* entry_set_ttl(e, -1): EXPIRE with a negative time, and the entry_del of
\* DEL.  It does nothing to an entry that is not in the heap.
ClearTtl(e) ==
  /\ pc = "idle" /\ caller = "requests"
  /\ heap_idx[e] # NoIdx
  /\ erase(e)
  /\ UNCHANGED timers

-----------------------------------------------------------------------------
(* process_timers. *)

TimersBegin ==
  /\ pc = "idle" /\ caller = "requests"
  /\ caller' = "timers" /\ tnow' = now
  /\ UNCHANGED <<heap, now>>

Mut_ExpireTop ==
  /\ pc = "idle" /\ caller = "timers"
  /\ size > 0
  /\ ttl_heap[0].val <= tnow
  /\ heap_idx[ttl_heap[0].ref] # NoIdx
  /\ erase(ttl_heap[0].ref)
  /\ UNCHANGED timers

\* One round of its second loop: the entry the root's ref belongs to is
\* deleted, which clears its TTL.
ExpireTop ==
  /\ pc = "idle" /\ caller = "timers"
  /\ size > 0
  /\ ttl_heap[0].val < tnow
  /\ heap_idx[ttl_heap[0].ref] # NoIdx
  /\ erase(ttl_heap[0].ref)
  /\ UNCHANGED timers

\* The loop ends: nothing is due, or it has made MAX_WORKS rounds.  The
\* rounds are counted in Keyspace; here it may end after any of them.
TimersEnd ==
  /\ pc = "idle" /\ caller = "timers"
  /\ caller' = "requests" /\ tnow' = 0
  /\ UNCHANGED <<heap, now>>

-----------------------------------------------------------------------------
(* The loops.  Both end with a[pos] = t; *a[pos].ref = pos.  Control then   *)
(* returns to entry_set_ttl, which resets the heap_idx of an erased entry. *)

Mut_Return ==
  /\ ttl_heap' = [ttl_heap EXCEPT ![pos] = t]
  /\ heap_idx' = IF del = Nil THEN heap_idx
                 ELSE [heap_idx EXCEPT ![del] = NoIdx]
  /\ pc' = "idle" /\ pos' = 0 /\ t' = Nil /\ del' = Nil
  /\ UNCHANGED <<size, timers>>

Return ==
  LET h == [heap_idx EXCEPT ![t.ref] = pos]
  IN  /\ ttl_heap' = [ttl_heap EXCEPT ![pos] = t]
      /\ heap_idx' = IF del = Nil THEN h ELSE [h EXCEPT ![del] = NoIdx]
      /\ pc' = "idle" /\ pos' = 0 /\ t' = Nil /\ del' = Nil
      /\ UNCHANGED <<size, timers>>

Mut_MoveFrom(q) ==
  /\ ttl_heap' = [ttl_heap EXCEPT ![pos] = ttl_heap[q]]
  /\ heap_idx' = [heap_idx EXCEPT ![ttl_heap[q].ref] = pos]
  /\ UNCHANGED <<size, pc, pos, t, del, timers>>

\* a[pos] = a[q]; *a[pos].ref = pos; pos = q.
MoveFrom(q) ==
  /\ ttl_heap' = [ttl_heap EXCEPT ![pos] = ttl_heap[q]]
  /\ heap_idx' = [heap_idx EXCEPT ![ttl_heap[q].ref] = pos]
  /\ pos' = q
  /\ UNCHANGED <<size, pc, t, del, timers>>

MustRise == pos > 0 /\ ttl_heap[parent(pos)].val > t.val

UpStep ==
  /\ pc = "up"
  /\ MustRise
  /\ MoveFrom(parent(pos))

UpDone ==
  /\ pc = "up"
  /\ ~ MustRise
  /\ Return

Mut_min_pos ==
  LET l == left(pos)
      r == right(pos)
  IN  IF r < size /\ ttl_heap[r].val < t.val THEN r
      ELSE IF l < size /\ ttl_heap[l].val < t.val THEN l ELSE pos

\* The position of the least of the item in hand and the children of pos.
min_pos ==
  LET l  == left(pos)
      r  == right(pos)
      ml == l < size /\ ttl_heap[l].val < t.val
      mv == IF ml THEN ttl_heap[l].val ELSE t.val
  IN  IF r < size /\ ttl_heap[r].val < mv THEN r ELSE IF ml THEN l ELSE pos

DownStep ==
  /\ pc = "down"
  /\ min_pos # pos
  /\ MoveFrom(min_pos)

DownDone ==
  /\ pc = "down"
  /\ min_pos = pos
  /\ Return

-----------------------------------------------------------------------------
Init ==
  /\ ttl_heap = [i \in 0 .. -1 |-> Nil]
  /\ size = 0
  /\ heap_idx = [e \in Entry |-> NoIdx]
  /\ now = 0 /\ caller = "requests" /\ tnow = 0
  /\ pc = "idle" /\ pos = 0 /\ t = Nil /\ del = Nil

\* The clock; between two operations, and while one runs.
Tick ==
  /\ now < MaxTime
  /\ now' = now + 1
  /\ UNCHANGED <<heap, caller, tnow>>

Operation ==
  \E e \in Entry : ClearTtl(e) \/ \E ttl \in Ttl : SetTtl(e, ttl)

Loop == UpStep \/ UpDone \/ DownStep \/ DownDone

Timers == TimersBegin \/ ExpireTop \/ TimersEnd

Next == Operation \/ Timers \/ Loop \/ Tick

Spec == Init /\ [][Next]_vars

-----------------------------------------------------------------------------
(* Properties. *)

Positions == 0 .. size - 1

TimersOK == now \in Nat /\ tnow \in 0 .. now /\ caller \in {"requests", "timers"}

\* Every variable has the type its declaration in MRD_heap.h, MRD_server.h
\* or the loop gives it; a running loop has an item in hand and a position
\* inside the vector, so no access of up, down or update is out of bounds.
TypeOK ==
  /\ size \in Nat
  /\ ttl_heap \in [Positions -> Item]
  /\ heap_idx \in [Entry -> Nat \cup {NoIdx}]
  /\ TimersOK
  /\ pc \in {"idle", "up", "down"}
  /\ pos \in Nat
  /\ pc # "idle" => pos \in Positions /\ t \in Item
  /\ del \in Entry \cup {Nil}

\* The array with the item in hand put at the position of the loop: what the
\* loops keep a permutation of.
Shown == IF pc = "idle" THEN ttl_heap ELSE [ttl_heap EXCEPT ![pos] = t]

\* Each item of Shown but the one in hand is where its entry's heap_idx says,
\* no entry has two items, and an entry without one has heap_idx -1, or will
\* have when erase returns.
RefInv ==
  /\ \A i, j \in Positions : Shown[i].ref = Shown[j].ref => i = j
  /\ \A i \in Positions :
       (pc # "idle" /\ i = pos) \/ heap_idx[Shown[i].ref] = i
  /\ \A e \in Entry :
       \/ \E i \in Positions : Shown[i].ref = e
       \/ heap_idx[e] = NoIdx
       \/ e = del
  /\ del # Nil => pc # "idle" /\ \A i \in Positions : Shown[i].ref # del

\* No parent is later than its child, but where the loop works: up may find
\* pos earlier than its parent, down may find it later than its children.
\* The children of pos are not earlier than its parent.
OrderInv ==
  /\ \A i \in Positions \ {0} :
       \/ pc = "up" /\ i = pos
       \/ pc = "down" /\ parent(i) = pos
       \/ Shown[parent(i)].val <= Shown[i].val
  /\ pc # "idle" /\ pos > 0 =>
       \A i \in Positions \ {0} :
         parent(i) = pos => Shown[parent(pos)].val <= Shown[i].val

\* The inductive invariant of the heap.
IInv == TypeOK /\ RefInv /\ OrderInv

\* Between two operations heap_idx and ttl_heap are inverse to each other:
\* entry_set_ttl, entry_del and do_ttl index the vector with heap_idx and
\* rely on finding the item of their own entry there.
IndexInverse ==
  pc = "idle" =>
    /\ \A i \in Positions : heap_idx[ttl_heap[i].ref] = i
    /\ \A e \in Entry :
         heap_idx[e] # NoIdx =>
           heap_idx[e] \in Positions /\ ttl_heap[heap_idx[e]].ref = e

\* Between two operations no deadline is earlier than the root's: the only
\* item process_timers and next_timer_ms look at.
RootIsEarliest ==
  pc = "idle" =>
    \A i \in Positions : ttl_heap[0].val <= ttl_heap[i].val

\* The deadline of each entry, the abstract state the heap represents.
deadline ==
  [e \in Entry |->
     IF \E i \in Positions : Shown[i].ref = e
     THEN Shown[CHOOSE i \in Positions : Shown[i].ref = e].val
     ELSE -1]

Table == INSTANCE TtlTable

\* The heap implements TtlTable: each operation changes the deadline of one
\* entry and of no other, the loops change none, and while process_timers
\* runs, whatever part of the vector has been moved, the only deadlines that
\* go are overdue, and none goes before an earlier one.
ImplementsTtlTable == Table!Spec

\* up and down come to an end: every round takes up closer to the root and
\* down closer to the end of the vector (which TypeOK keeps pos below), and
\* no round goes over to the other loop.
LoopsAdvance ==
  [][pc # "idle" /\ pc' # "idle" /\ now' = now =>
       /\ pc' = pc
       /\ IF pc = "up" THEN pos' < pos ELSE pos < pos']_vars
=============================================================================
