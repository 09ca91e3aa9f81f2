SPECIFICATION Spec
CONSTANTS
  Keys = {"a", "b", "p", "q"}
  Atoms <- AnyAtom
  MaxLevels = 3
  Schemas <- OptionalObject
  ConfigsFor <- WithoutA
  ReusedSchemas <- OptionalObject
INVARIANTS Answers
