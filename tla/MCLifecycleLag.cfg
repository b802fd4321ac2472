SPECIFICATION Spec
CONSTANTS
  Managed = TRUE
  Manual = FALSE
  CacheLag = TRUE
  LoadFailures = FALSE
  LostReplies = {}
  MaxPlans = 1
  MaxRefresh = 0
  MaxFaults = 0
INVARIANTS ExpiredMeansClean
CHECK_DEADLOCK FALSE
