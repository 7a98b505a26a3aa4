CHECK_DEADLOCK FALSE
SPECIFICATION FairSpec
CONSTANTS
  QuestionId = {1, 2}
  JobId = {1, 2}
  NoWork = NoWork
  MaxFaults = 2
INVARIANTS
  LastAttemptSettles
  FailedAfterAllAttempts
PROPERTIES
  SettledStays
  QuestionSettles
