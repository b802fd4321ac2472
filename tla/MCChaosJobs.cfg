SPECIFICATION Spec
CONSTANTS
  x1 = x1
  x2 = x2
  none = none
  NoMark = none
  Experiments = {x1}
  Plan <- JobPlan
  MaxScale = 1
  UserMay = {"delete", "create", "cancel"}
  MaxMeddling = 1
  MaxFaults = 1
INVARIANTS FinishedMeansRestored IsolationOutlivesPods
PROPERTIES ExperimentEnds ReplicaSettles
CHECK_DEADLOCK FALSE
