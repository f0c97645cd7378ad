SPECIFICATION FairSpec
CONSTANTS
  Operators <- MCOperators
  Files <- MCFiles
  MaxCameras = 2
  MaxRequests = 4
INVARIANTS
  TypeOK
  PictureOfItsCamera
  AlertAgreesUnlessSuspect
  AcknowledgedBySomebody
  HealthAgrees
  RefreshIsAtomic
PROPERTIES
  FirstAcknowledgementStays
  EveryRequestIsAnswered
\* The requests are bounded: when they are served, everything has stopped.
CHECK_DEADLOCK FALSE
