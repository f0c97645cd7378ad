SPECIFICATION FairSpec
CONSTANTS
  Threads = {a, b}
  MaxRules = 2
  MaxRequests = 2
  MaxFaults = 1
  Slots = 1
  Models <- MCModels
  WeightsMissing = {}
  Faults <- LeakFaults
  Reconciling = TRUE
PROPERTIES
  EventuallyNoneWithoutRules
  AbortedPipelineStops
\* The requests are bounded: when they are served, everything may have stopped.
CHECK_DEADLOCK FALSE
