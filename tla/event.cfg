\* Three waiters of an event of any kind.
SPECIFICATION EventSpec
CONSTANTS
  Waiters = {w1, w2, w3}
  Kinds <- MCKinds
INVARIANTS
  EventTypeOK
  NoLostWakeup
  ManualWakesAll
PROPERTY
  EventIsSignal
