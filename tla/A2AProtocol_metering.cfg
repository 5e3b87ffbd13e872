SPECIFICATION Spec
CONSTANTS
  r1 = r1
  r2 = r2
  r3 = r3
  n1 = n1
  NoNonce = NoNonce
  Raw = Raw
  Requests = {r1, r2}
  Envelopes <- MeteringEnvelopes
  RawBodies <- RawBody
  PolicyIds = {1, 2}
  PolicyRows <- TwoPolicyRows
  Window = 0
  MaxTime = 0
  MaxEpoch = 1
CHECK_DEADLOCK FALSE
INVARIANTS ReceiptIsMetered AnswerMatchesTables ExecutedOnlyIfAllowed OneDecisionPerRequest
PROPERTIES EveryRequestSettles
