SPECIFICATION Spec
CONSTANTS
  Managed = TRUE
  Manual = TRUE
  CacheLag = FALSE
  LoadFailures = FALSE
  LostReplies = {"save", "status", "acquire", "ensure", "apply", "release"}
  MaxPlans = 2
  MaxRefresh = 1
  MaxFaults = 2
INVARIANTS EffectsRecorded GoneMeansClean ExpiredMeansClean
PROPERTIES NoResurrection DeletionCompletes ExpiryCompletes
CHECK_DEADLOCK FALSE
