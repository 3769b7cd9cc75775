\* Five names with one score.
CONSTANTS
  Many = 5
  Some = 0
  Few = 0
  Node <- MCNode
  Inputs <- MCInputs
  Null = 0
  NaN = NaN
  Free = Free
SPECIFICATION Spec
INVARIANT RankIsPlace
