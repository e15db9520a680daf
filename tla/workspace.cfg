SPECIFICATION Spec
CONSTANTS
  Home <- HomeDef
  Dir = Dir
  Names = {"result.md", "t10"}
  MaxUps = 2
  MaxParts = 2
  Texts = {"draft"}
  Paths <- PathsDef
  Worlds <- WorldsDef
INVARIANTS
  TreeWellFormed
  SeesOnlyItsOwn
PROPERTIES
  OutsideUntouched
  NothingVanishes
