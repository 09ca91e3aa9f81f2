SPECIFICATION Spec
CONSTANTS
  Keys = {"URI", "k", "l"}
  Atoms <- Texts
  MaxLevels = 4
  Empty = ""
  KeyOrder <- SomeKeys
  Start <- FileA
  Disks <- SomeDisks
  FilenameOf <- Filename
  NoName = NoName
  Uri = "URI"
  MaxDepth = 10
  PartsOf <- Parts
  Inlined <- InlinedItem
INVARIANTS TypeOK LoadsWhatIsNamed NothingIsLoadedTwice OverflowsOnlyInCircles FailsForAReason
PROPERTIES Ends
