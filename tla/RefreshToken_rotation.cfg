SPECIFICATION Spec
CONSTANTS
  AccessTTL = 1
  RefreshTTL = 2
  FallbackTTL = 2
  MaxPairs = 2
  MaxTime = 3
  MaxRestarts = 1
CHECK_DEADLOCK FALSE
INVARIANTS WithdrawnStaysListed RotatedOncePerIncarnation
