SPECIFICATION Spec
CONSTANTS
  MaxRuns = 2
  Settings <- MCSettings
  Retain = 1
  Forced = TRUE
  Interval = FALSE
  MaxMeddling = 1
  MaxFaults = 1
INVARIANTS CaptureProtected OneValidGeneration
PROPERTIES LeaseKept ForgetsOnlyClean MirrorEnds
CHECK_DEADLOCK FALSE
