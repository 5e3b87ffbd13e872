SPECIFICATION Spec
CONSTANTS
  Callers = {"t1", "t2"}
  Watched = {"t2"}
  MaxEpoch = 1
  Confirmations = 2
  MaxReorg = 2
  MaxHeight = 4
  Timeout = 3
  BaseDelay = 1
  MaxDelay = 2
CHECK_DEADLOCK FALSE
INVARIANTS GapOnlyFromFailedSend FinalIsDeep
PROPERTIES DrawsTickets EveryReservationSettles EveryPollEnds FinalityReached
