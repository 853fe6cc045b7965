SPECIFICATION Spec
CONSTANTS
  Mutators = {m1, m2}
  NoThread = NoThread
  MaxUserRequests = 2
  SpuriousWakeups = FALSE
INVARIANT
  NoStrandedWaiter
