------------------------------- MODULE DList -------------------------------
(***************************************************************************)
(* The intrusive doubly linked list of MRD_DList.cpp, as operators on the  *)
(* links l = [next |-> function, prev |-> function] of all list nodes.  A  *)
(* node is the idle_node of a connection, or the head of a list.           *)
(***************************************************************************)

\* DList::empty
Empty(l, head) == l.next[head] = head

\* DList::detach.  The links of the node itself stay.
detach(l, n) ==
  [next |-> [l.next EXCEPT ![l.prev[n]] = l.next[n]],
   prev |-> [l.prev EXCEPT ![l.next[n]] = l.prev[n]]]

\* The nodes detach dereferences.
DetachTouches(l, n) == {n, l.prev[n], l.next[n]}

\* DList::insert_before: "insert node before target".
insert_before(l, n, target) ==
  LET p == l.prev[target]
  IN  [next |-> [l.next EXCEPT ![p] = n, ![n] = target],
       prev |-> [l.prev EXCEPT ![n] = p, ![target] = n]]

\* The nodes insert_before dereferences.
InsertTouches(l, n, target) == {n, target, l.prev[target]}

\* The links of nodes that are each in a list of their own: DList::DList().
Alone(nodes) ==
  [next |-> [n \in nodes |-> n], prev |-> [n \in nodes |-> n]]
=============================================================================
