SPECIFICATION Spec
CONSTANTS
  Mutators = {m1, m2, m3}
  NoThread = NoThread
  MaxUserRequests = 3
  SpuriousWakeups = TRUE
SYMMETRY ThreadSymmetry
INVARIANTS
  TypeOK
  CollectOnlyStopped
  PauseInv
  BlockedHasRequest
  UserRequestsCounted
PROPERTY
  ImplementsPause
