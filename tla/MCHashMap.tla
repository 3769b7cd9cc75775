----------------------------- MODULE MCHashMap -----------------------------
(* Instance of HashMap for TLC.  The hash codes collide in the table of    *)
(* four slots (n1, n5) and leave one of its slots empty; in the table of   *)
(* two slots they all fall on both sides.                                  *)
EXTENDS HashMap

CONSTANTS n1, n2, n3, n4, n5

HcodeValue ==
  (n1 :> 1) @@ (n2 :> 3) @@ (n3 :> 6) @@ (n4 :> 2) @@ (n5 :> 5)
=============================================================================
