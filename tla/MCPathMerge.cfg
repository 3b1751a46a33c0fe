CONSTANTS
  Worlds = {w1, w2, w3}
  Vars = {x}
  Vals = {0, 1, 2}
  Input <- MCInput
  Ops <- MCOps
  MaxDepth = 4
  MixedCallees = FALSE
  MaxStatements = 5
SPECIFICATION MCSpec
SYMMETRY Symmetry
INVARIANTS
  TypeOK
  PathIsLive
  LiveAgrees
  SkipsOnlyDead
  PathUnclaimed
  BlockResult
  IInv
CHECK_DEADLOCK FALSE
