\* WatchBurnEventLogs returns an error.
CONSTANTS
  SubscribeFaults = TRUE
  MaxDrops = 1
  MaxBurns = 2
SPECIFICATION Spec
\* The loop blocks on its channels once the chain stops emitting.
CHECK_DEADLOCK FALSE
INVARIANTS NoPanic
