SPECIFICATION FairSpec
CONSTANTS
  Processes <- MCProcesses
  Threads <- MCThreads
  Limit = 2
  Window = 3
INVARIANTS
  TypeOK
  AllowedIsBounded
PROPERTIES
  RefusalEnds
