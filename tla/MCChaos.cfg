SPECIFICATION Spec
CONSTANTS
  x1 = x1
  x2 = x2
  none = none
  NoMark = none
  Experiments = {x1, x2}
  Plan <- NetworkPlan
  MaxScale = 1
  UserMay = {"scale", "replace", "namespace"}
  MaxMeddling = 1
  MaxFaults = 1
INVARIANTS EffectsIntended OneExperiment FinishedMeansRestored
PROPERTIES ForeignPreserved RollbackBeforeTeardown
SYMMETRY Symmetry
CHECK_DEADLOCK FALSE
