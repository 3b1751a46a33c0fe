CONSTANTS
  Worlds = {w1, w2}
  Vars = {x}
  Vals = {0, 1, 2}
  Input <- MCInput
  Ops <- MCOps
  MaxDepth = 3
  MixedCallees = TRUE
  MaxStatements = 4
SPECIFICATION MCSpec
SYMMETRY Symmetry
INVARIANT SkipsOnlyDead
CHECK_DEADLOCK FALSE
