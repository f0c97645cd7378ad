SPECIFICATION FairSpec
CONSTANTS
  Threads = {a}
  MaxRules = 2
  MaxRequests = 3
  MaxFaults = 2
  Slots = 1
  Models <- MCModels
  WeightsMissing = {}
  Faults <- SurvivableFaults
  Reconciling = FALSE
INVARIANT
  ActiveRulesKeepATask
PROPERTIES
  EventuallyWatched
  EventuallyInSync
  AdoptsRunningTask
\* The requests are bounded: when they are served, everything may have stopped.
CHECK_DEADLOCK FALSE
