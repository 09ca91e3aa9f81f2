SPECIFICATION Spec
CONSTANTS
  Texts <- SomeTexts
  Numbers <- SomeNumbers
INVARIANTS ReadsWhatWasGiven
