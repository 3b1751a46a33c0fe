CONSTANTS
  Worlds <- MCWorlds
  States <- MCStates
  Params <- MCParams
  Parsers <- MCParsers
  Input <- MCInput
SPECIFICATION FairSpec
INVARIANTS
  ParserAgrees
  LeavesOnce
  IInv
PROPERTIES
  VisitEnds
CHECK_DEADLOCK FALSE
