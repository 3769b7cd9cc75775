\* Trees of up to eleven nodes, ties and updates, a score that is not a number.
CONSTANTS
  Many = 11
  Some = 5
  Few = 5
  Node <- MCNode
  Inputs <- MCInputs
  Null = 0
  NaN = NaN
  Free = Free
SPECIFICATION Spec
INVARIANTS TypeOK IndexesAgree Balanced InOrder OffsetWalks QueriesMatch
