SPECIFICATION Spec
CONSTANTS
  Items = {x1, x2, p1, p2, p3}
  Variables = {x1, x2}
  Places = {p1, p2, p3}
  Bodies = {b1, b2, b3, b4}
  Program = Program
  Free = Free
  Null = Null
SYMMETRY AddressSymmetry
INVARIANTS TypeOK Ownership Trees NothingElseLeaks CopiesAreComplete
PROPERTIES OneValueChanges ReferencesSurviveLookups AssignedFromApart
