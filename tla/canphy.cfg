CONSTANTS
  Frames <- MCFrames
  NFrames = 2
  MaxIdle = 4
SPECIFICATION Spec
INVARIANTS
  EverySofSeen
  ApartPublishedOnce
CHECK_DEADLOCK FALSE
