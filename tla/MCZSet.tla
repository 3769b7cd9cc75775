------------------------------- MODULE MCZSet -------------------------------
(* Instances of ZSet for TLC. *)
EXTENDS ZSet

CONSTANTS
  Many,    \* names that all have the same score: large trees
  Some,    \* names with three scores: ties, and updates that move a node
  Few      \* names one of which has the score NaN

MCNode == 1 .. Max({Many, Some, Few})
MCInputs ==
  { (1 .. Many) \X {1},
    (1 .. Some) \X {1, 2, 3},
    (1 .. Few) \X {1} \cup {<<2, NaN>>} }
=============================================================================
