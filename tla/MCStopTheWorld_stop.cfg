SPECIFICATION FairSpec
CONSTANTS
  Mutators = {m1, m2}
  NoThread = NoThread
  MaxUserRequests = 2
  SpuriousWakeups = FALSE
PROPERTY
  StopIsSeen
CHECK_DEADLOCK FALSE
