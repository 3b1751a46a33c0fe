CONSTANTS
  Worlds = {w1, w2}
  Vars = {x}
  Vals = {0, 1, 2}
  Input <- MCInput
  Ops <- MCOps
  MaxDepth = 4
  MixedCallees = FALSE
  UnguardedExits = FALSE
  MaxStatements = 6
SPECIFICATION MCSpec
SYMMETRY Symmetry
INVARIANTS
  TypeOK
  PathMissesNone
  LiveAgrees
  SkipsOnlyDead
  BlockResult
  IInv
CHECK_DEADLOCK FALSE
