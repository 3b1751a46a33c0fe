CONSTANTS
  Worlds = {w1, w2}
  Values = {0, 1, 2}
  Undef = 0
  Globals = {"g", "h"}
  Locals = {"p", "q"}
  Input <- MCInput
  Signatures <- MCSignatures
  MaxDepth = 3
  MaxStatements = 4
  Results = {"h"}
SPECIFICATION MCSpec
SYMMETRY Symmetry
INVARIANTS
  NamesAgree
  CallersAgree
  OutputsAgree
  IInv
CHECK_DEADLOCK FALSE
