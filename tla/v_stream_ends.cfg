SPECIFICATION FairSpec
CONSTANTS
  Threads = {a}
  MaxRules = 2
  MaxRequests = 2
  MaxFaults = 1
  Slots = 1
  Models <- MCModels
  WeightsMissing = {}
  Faults <- StreamFaults
  Reconciling = FALSE
PROPERTY
  EventuallyWatched
\* The requests are bounded: when they are served, everything may have stopped.
CHECK_DEADLOCK FALSE
