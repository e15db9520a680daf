SPECIFICATION FairTaskSpec
CONSTANTS
  Home <- HomeDef
  Dir = Dir
  Registered <- RegisteredDef
  Calls <- CallsDef
  AllowLists <- AllowListsDef
  StepCaps <- StepCapsDef
  MaxCalls = 2
CHECK_DEADLOCK FALSE
INVARIANTS
  ResultIsTheRuns
  OneResult
  RowAgreesWithRun
PROPERTY TaskSettles
