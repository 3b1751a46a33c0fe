CONSTANTS
  MaxWidth = 4
  Deviations <- None
SPECIFICATION RefSpec
INVARIANTS
  TypeOK
  ValuesAgree
