CONSTANTS
  Worlds = {w1, w2}
  Vars = {x}
  Vals = {0, 1, 2}
  Input <- MCInput
  Ops <- MCOps
  MaxDepth = 4
  MixedCallees = FALSE
  UnguardedExits = TRUE
  MaxStatements = 4
SPECIFICATION MCSpec
SYMMETRY Symmetry
INVARIANT BlockResult
CHECK_DEADLOCK FALSE
