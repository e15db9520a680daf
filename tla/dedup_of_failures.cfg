SPECIFICATION Spec
CONSTANTS
  Home <- HomeDef
  Dir = Dir
  Registered <- RegisteredDef
  Calls <- ResultCalls
  AllowLists <- AllowListsDef
  StepCaps <- StepCapsDef
  MaxCalls = 2
CHECK_DEADLOCK FALSE
PROPERTY
  InterceptsSuccesses
