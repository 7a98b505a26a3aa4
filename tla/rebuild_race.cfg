SPECIFICATION Spec
CONSTANTS
  RebuildId = {1, 2, 3}
  JobId = {1, 2}
  NoWork = NoWork
  MaxFaults = 0
INVARIANTS
  PendingHasJob
