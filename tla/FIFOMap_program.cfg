SPECIFICATION FairSpec
CONSTANTS
  Maps = {m1, m2}
  Keys = {k1, k2}
  Vals = {v0, v1}
  Default = v0
  Nodes = {a1, a2, a3, a4}
  Free = Free
  NoRef = NoRef
  Idle = Idle
INVARIANTS TypeOK Coherent Ownership HeldEntry AppendProgress
PROPERTIES SelfAppendChangesNothing DictSpec AppendEnds
