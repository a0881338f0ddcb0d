SPECIFICATION Spec
CONSTANTS
  a1 = a1
  a2 = a2
  v1 = v1
  v2 = v2
  Path <- PathAB
  CbPath <- All
  Cb = {a1, a2}
  Val = {v1}
  NoVal = NoVal
  NoCb = NoCb
  Reaction <- Anywhere
  Reuse = FALSE
  MaxDepth = 2
INVARIANTS Informed
SYMMETRY Symmetry
CHECK_DEADLOCK FALSE
