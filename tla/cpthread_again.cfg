\* A thread whose scheduling attributes were refused.
SPECIFICATION CpSpec
CONSTANTS
  PrioMin = 1
  PrioMax = 99
  MaxRuns = 2
  Priorities <- MCPriorities
  Cpus = {1}
PROPERTY
  TriesAgainInside
CHECK_DEADLOCK FALSE
