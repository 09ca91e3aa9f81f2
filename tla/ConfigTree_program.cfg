SPECIFICATION Spec
CONSTANTS
  k1 = k1
  k2 = k2
  v1 = "TRUE"
  v2 = "true"
  Keys = {k1, k2}
  KeyOrder <- ReverseOrder
  Atoms <- SomeTexts
  Vals = {"TRUE", "true"}
  Empty = ""
  Updates <- SomeUpdates
  YamlFiles <- SomeYamlFiles
  JsonFiles <- SomeJsonFiles
  MaxLevels = 5
  MaxItems = 5
INVARIANTS TypeOK YamlKeepsAll JsonKeepsAllButEmpty
PROPERTIES AccessKeepsValues UpdateIsDeep SpoiledOnlyByLookup
