CONSTANTS
  NoFile = NoFile
  NO_CHNG_ITERS = 2
  PRUNER_MAX_ITERS = 3
  REPLACE_VARS_MAX_ITERS = 2
  StatementsRemoved <- MCStatementsRemoved
  ExpressionsReduced <- MCExpressionsReduced
  BooleansReduced <- MCBooleansReduced
  GenericPasses <- MCGenericPasses
  VariablesReplaced <- MCVariablesReplaced
  UnusedRemoved <- MCUnusedRemoved
  CountStatements <- MCCountStatements
  Compiler <- MCCompiler
  ValidationScript <- MCValidationScript
  Inputs <- MCInputs
  Tools <- MCTools
  Configs <- MCConfigs
SPECIFICATION FairSpec
INVARIANTS
  IfsKeepBranches
PROPERTIES
  ReductionRefined
  PrunerEnds
CHECK_DEADLOCK FALSE
