SPECIFICATION FairSpec
CONSTANTS
  Threads = {t1, t2}
  DEFAULT_COLLECT_INTERVAL = 80
  BYTES_IN_PAGE = 21
  USIZE_BITS = 16
  MaxTotalMemory = 275
  Estimates = {0, 100}
  AllocPages = {3}
  SurvivalPercents = {0, 100}
  Generational = TRUE
  PlanCollects = TRUE
  UserCollects = TRUE
  MaxMallocPages = 1
  MaxPages = 7
CHECK_DEADLOCK FALSE
INVARIANTS
  TypeOK
  TargetWithinGuardrails
  NeverThrashing
PROPERTIES
  OverLimitForcesFull
  AllocationSucceeds
