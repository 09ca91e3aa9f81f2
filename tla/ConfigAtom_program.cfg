SPECIFICATION Spec
CONSTANTS
  Texts <- SomeTexts
  Numbers <- SomeNumbers
INVARIANTS TypeOK UntestedReads TestThenRead
PROPERTIES TypeIsSticky
