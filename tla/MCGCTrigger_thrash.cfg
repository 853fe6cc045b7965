SPECIFICATION Spec
CONSTANTS
  Threads = {t1}
  DEFAULT_COLLECT_INTERVAL = 16
  BYTES_IN_PAGE = 2
  USIZE_BITS = 16
  MaxTotalMemory = 50
  Estimates = {0, 5, 100}
  AllocPages = {1, 4}
  SurvivalPercents = {0, 50, 100}
  Generational = FALSE
  PlanCollects = FALSE
  UserCollects = FALSE
  MaxMallocPages = 0
  MaxPages = 24
CHECK_DEADLOCK FALSE
INVARIANT
  ThrashingDetected
