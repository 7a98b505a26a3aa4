CHECK_DEADLOCK FALSE
SPECIFICATION FairSpec
CONSTANTS
  RebuildId = {1, 2, 3}
  JobId = {1, 2}
  NoWork = NoWork
  MaxFaults = 2
INVARIANTS
  OutcomesAgree
PROPERTIES
  StartedSettles
