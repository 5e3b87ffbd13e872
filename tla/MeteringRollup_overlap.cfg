SPECIFICATION Spec
CONSTANTS
  a1 = a1
  a2 = a2
  Agents = {a1, a2}
  Runs = {1,2}
  TicksPerHour = 2
  Interval = 2
  MaxTime = 2
  MaxUsage = 2
SYMMETRY Symmetry
CHECK_DEADLOCK FALSE
PROPERTY RerunsAreSafe
