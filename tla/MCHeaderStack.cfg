CONSTANTS
  Worlds <- MCWorlds
  Indices <- MCIndices
  Input <- MCInput
  Size = 3
  Vals = {0, 1}
  Undef = Undef
  MaxDepth = 2
  MaxShift = 4
  MaxStatements = 3
SPECIFICATION MCSpec
INVARIANTS
  ElementsAgree
  ReadsAgree
  IInv
CHECK_DEADLOCK FALSE
