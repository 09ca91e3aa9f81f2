SPECIFICATION Spec
CONSTANTS
  Keys = {"a", "b", "p", "q"}
  Atoms <- AnyAtom
  MaxLevels = 3
  Schemas <- OneBoundSchemas
  ConfigsFor <- PlainConfigs
  ReusedSchemas <- OneBoundSchemas
INVARIANTS Answers
