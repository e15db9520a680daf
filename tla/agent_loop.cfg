SPECIFICATION FairSpec
CONSTANTS
  Home <- HomeDef
  Dir = Dir
  Registered <- RegisteredDef
  Calls <- AllCalls
  AllowLists <- AllowListsDef
  StepCaps <- StepCapsDef
  MaxCalls = 2
CHECK_DEADLOCK FALSE
INVARIANTS
  TypeOK
  MessagesPaired
  DispatchedOnce
  StepCapHolds
  TraceTellsAll
PROPERTIES
  ImplementsAgentRun
  Terminates
