CONSTANTS
  Worlds = {w1, w2}
  Headers = {h1, h2}
  Structs = {s}
  Vals = {0, 1}
  Inputs <- MCInputs
  Undef = Undef
  Invalid = Invalid
  MaxDepth = 2
  StaleWrites = TRUE
  MaxStatements = 3
SPECIFICATION MCSpec
SYMMETRY Symmetry
INVARIANT NestedAgrees
CHECK_DEADLOCK FALSE
