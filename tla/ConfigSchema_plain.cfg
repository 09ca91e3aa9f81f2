SPECIFICATION Spec
CONSTANTS
  Keys = {"a", "b", "p", "q"}
  Atoms <- AnyAtom
  MaxLevels = 3
  Schemas <- SomeSchemas
  ConfigsFor <- PlainConfigs
  ReusedSchemas <- PlainSchemas
INVARIANTS TypeOK Answers  ConfigKept SchemaKept
PROPERTIES SameAnswerTwice
