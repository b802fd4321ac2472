SPECIFICATION Spec
CONSTANTS
  MaxFaults = 1
  MaxChanges = 1
INVARIANTS CredentialsRecorded VerifiedMeansGone
PROPERTIES TeardownOrder SessionEnds
CHECK_DEADLOCK FALSE
