SPECIFICATION Spec
CONSTANTS
  Threads = {a}
  MaxRules = 2
  MaxRequests = 4
  MaxFaults = 2
  Slots = 1
  Models <- MCModels
  WeightsMissing = {}
  Faults <- ServiceFaults
  Reconciling = FALSE
INVARIANTS
  TypeOK
  IInv
  OneTaskPerCamera
  SharedByActiveRules
PROPERTY
  ImplementsSingleTask
\* The requests are bounded: when they are served, everything may have stopped.
CHECK_DEADLOCK FALSE
