SPECIFICATION Spec
CONSTANTS
  c1 = c1
  c2 = c2
  d1 = d1
  k1 = k1
  k2 = k2
  NoKey = NoKey
  EmptyKey = EmptyKey
  NoStatus = NoStatus
  Old = old
  Calls = {c1, c2}
  Bodies <- AllBodies
  MaxAttempts = 2
  MaxCrashes = 1
  MaxReorgs = 1
  MaxDepth = 2
CHECK_DEADLOCK FALSE
INVARIANTS TableLeadsChain LogMatchesChain MirroredWhenSerial DeactivatedStaysWhenSerial
 
