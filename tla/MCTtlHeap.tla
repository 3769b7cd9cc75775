----------------------------- MODULE MCTtlHeap -----------------------------
(* Instance of TtlHeap for TLC. *)
EXTENDS TtlHeap, TLC

Symmetry == Permutations(Entry)
=============================================================================
