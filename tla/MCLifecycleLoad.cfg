SPECIFICATION Spec
CONSTANTS
  Managed = TRUE
  Manual = FALSE
  CacheLag = FALSE
  LoadFailures = TRUE
  LostReplies = {}
  MaxPlans = 1
  MaxRefresh = 0
  MaxFaults = 1
PROPERTIES DeletionCompletes
CHECK_DEADLOCK FALSE
