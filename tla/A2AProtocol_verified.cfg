SPECIFICATION Spec
CONSTANTS
  r1 = r1
  r2 = r2
  r3 = r3
  n1 = n1
  NoNonce = NoNonce
  Raw = Raw
  Requests = {r1, r2}
  Envelopes <- MeteringEnvelopes
  RawBodies <- RawBody
  PolicyIds = {}
  PolicyRows = {}
  Window = 1
  MaxTime = 0
  MaxEpoch = 0
INVARIANT ExecutedOnlyIfVerified
CHECK_DEADLOCK FALSE
