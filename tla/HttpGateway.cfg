SPECIFICATION Spec
CONSTANTS
  Slots = {"s1", "s2"}
  Shapes <- MCShapes
  KnownKeys = {"k1"}
  Ttl = 1
INVARIANTS TransportSeriesExact AuditedOnce ServedAsEntitled
PROPERTIES RefusalHeals DetailAnswers
