SPECIFICATION Spec
CONSTANTS
  r1 = r1
  r2 = r2
  r3 = r3
  n1 = n1
  NoNonce = NoNonce
  Raw = Raw
  Requests = {r1, r2, r3}
  Envelopes <- ReplayEnvelopes
  RawBodies = {}
  PolicyIds = {}
  PolicyRows = {}
  Window = 1
  MaxTime = 4
  MaxEpoch = 1
CHECK_DEADLOCK FALSE
INVARIANTS NoReplayInWindow ConflictIsJustified
PROPERTY ExpiredNoncesForgotten
