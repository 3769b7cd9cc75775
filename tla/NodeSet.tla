------------------------------ MODULE NodeSet ------------------------------
(***************************************************************************)
(* What the callers of HashMap expect: a set of nodes.  insert adds a node *)
(* that is not there, erase takes a node out and returns it, lookup        *)
(* returns it, and both return null for a key that is not there.           *)
(* HashMap implements this specification.                                  *)
(***************************************************************************)
CONSTANTS Node, Nil

VARIABLES members,  \* the nodes in the map
          ret       \* what the last operation returned

vars == <<members, ret>>

Init == members = {} /\ ret = Nil

Insert(n) ==
  /\ n \notin members
  /\ members' = members \cup {n}
  /\ ret' = Nil

Erase(k) ==
  /\ members' = members \ {k}
  /\ ret' = IF k \in members THEN k ELSE Nil

Lookup(k) ==
  /\ ret' = IF k \in members THEN k ELSE Nil
  /\ UNCHANGED members

Clear == members' = {} /\ ret' = Nil

Next == Clear \/ \E n \in Node : Insert(n) \/ Erase(n) \/ Lookup(n)

Spec == Init /\ [][Next]_vars
=============================================================================
