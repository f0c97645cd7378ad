SPECIFICATION FairSpec
CONSTANTS
  Copies <- MCCopies
  TaskOf <- MCTaskOf
  ClaimTTL = 2
  FrameTTL = 3
  IdleTimeout = 4
  MaxFaults = 1
INVARIANTS
  TypeOK
  OnePublisherUnlessLapsed
PROPERTIES
  PictureFromTheOwner
  PictureComesBack
  StreamEnds
  StreamLastsWithFrames
