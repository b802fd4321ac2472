SPECIFICATION Spec
CONSTANTS
  space = space
  pvc = pvc
  ctl = ctl
  res = res
  none = none
  NoObject = none
  Objects <- TreeObjects
  Order <- TreeOrder
  Desired <- TreeDesired
  Namespaces = {space}
  Volumes = {pvc}
  NamespaceOf <- TreeNamespaceOf
  ControllerOf <- TreeControllerOf
  UserMay = {"delete", "create", "edit"}
  MaxMeddling = 2
  MaxFaults = 1
INVARIANTS InventoryComplete AppliedComplete CleanedMeansGone
PROPERTIES ForeignPreserved NoSilentRecreation CleanupCompletes DependentsFirst
CHECK_DEADLOCK FALSE
