\* An object that is started, moved, interrupted, terminated and destroyed in
\* every order.
SPECIFICATION CpSpec
CONSTANTS
  PrioMin = 1
  PrioMax = 99
  MaxRuns = 2
  Priorities <- MCPriorities
  Cpus <- MCCpus
INVARIANTS
  CpTypeOK
  IdNamesLiveThread
  AffinityIsKnown
  NoUseAfterDestroy
PROPERTY
  RequestsEndIt
\* An object whose destructor or whose exec waits for itself stops for good.
CHECK_DEADLOCK FALSE
