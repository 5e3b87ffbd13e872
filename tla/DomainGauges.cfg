SPECIFICATION GaugesSpec
CONSTANTS
  Agents = {"a1"}
  Runs = {1}
  TicksPerHour = 2
  Interval = 1
  MaxTime = 2
  MaxUsage = 1
  Scrapes = {"c1", "c2"}
  GaugeTtl = 2
CHECK_DEADLOCK FALSE
INVARIANTS CachedIsFresh RecoveryClearsPending
PROPERTIES NeverOlder EveryScrapeAnswers
