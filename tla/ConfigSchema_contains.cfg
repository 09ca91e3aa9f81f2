SPECIFICATION Spec
CONSTANTS
  Keys = {"a", "b", "p", "q"}
  Atoms <- AnyAtom
  MaxLevels = 3
  Schemas <- BoundedElements
  ConfigsFor <- IntegerArrays
  ReusedSchemas <- BoundedElements
INVARIANTS Answers
