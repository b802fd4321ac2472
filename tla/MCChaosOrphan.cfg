SPECIFICATION Spec
CONSTANTS
  x1 = x1
  x2 = x2
  none = none
  NoMark = none
  Experiments = {x1}
  Plan <- NetworkPlan
  MaxScale = 1
  UserMay = {}
  MaxMeddling = 0
  MaxFaults = 0
PROPERTIES ReplicaCleanupEnds
CHECK_DEADLOCK FALSE
