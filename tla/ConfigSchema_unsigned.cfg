SPECIFICATION Spec
CONSTANTS
  Keys = {"a", "b", "p", "q"}
  Atoms <- AnyAtom
  MaxLevels = 3
  Schemas <- BoundedInteger
  ConfigsFor <- UnsignedInteger
  ReusedSchemas <- BoundedInteger
INVARIANTS AlwaysReturns
