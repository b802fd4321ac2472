SPECIFICATION Spec
CONSTANTS
  h1 = h1
  h2 = h2
  x1 = x1
  capped = capped
  open = open
  Replicas <- MCReplicas
  Helm <- MCHelm
  Grants <- MCGrants
  GrantOf <- MCGrantOf
  Cap <- MCCap
  Legacy = {h1}
  Attempts = 2
  MaxFaults = 1
INVARIANTS OneRuntime
PROPERTIES AtomicAdmission DrainCompletes QueuedIsAdmitted
CHECK_DEADLOCK FALSE
