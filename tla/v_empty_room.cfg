SPECIFICATION Spec
CONSTANTS
  r1 = r1
  r2 = r2
  left = left
  right = right
  Rules <- MCRules
  Cells <- MCCells
  Offer <- OneOfAType
  FPS = 1
  Rate = 1
  Delays <- EverySecondFrame
  PersonSkip = 1
  ShopSkip = 3
  Cooldown = 7
  MaxFrames = 5
  Faults <- NoFaults
PROPERTY
  EmptyRoomIsNoCrowd
CHECK_DEADLOCK FALSE
