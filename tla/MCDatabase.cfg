SPECIFICATION Spec
CONSTANTS
  Copies = 2
  MaxMeddling = 1
  MaxFaults = 2
INVARIANTS RawPrivate CapturedOnce IsolationOutlivesPods
PROPERTIES DatabaseCleanupEnds
CHECK_DEADLOCK FALSE
