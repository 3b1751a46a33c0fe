CONSTANTS
  T1 = T1
  T2 = T2
  T3 = T3
  Missing = Missing
  MaxPasses = 3
  NOutputs = 2
  Equal <- MCEqual
  Forgiven <- MCForgiven
SPECIFICATION MCSpec
INVARIANTS
  TestResultEarned
  SuccessKeepsDefined
PROPERTIES
  ValidationRefined
  TestEnds
CHECK_DEADLOCK FALSE
