SPECIFICATION Spec
CONSTANTS
  Managed = FALSE
  Manual = FALSE
  CacheLag = TRUE
  LoadFailures = TRUE
  LostReplies = {"save", "status", "acquire", "ensure", "apply", "release", "delete"}
  MaxPlans = 1
  MaxRefresh = 0
  MaxFaults = 1
PROPERTIES DeletionCompletes
CHECK_DEADLOCK FALSE
