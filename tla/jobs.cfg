SPECIFICATION FairSpec
CONSTANTS
  sync = sync
  question = question
  catalog = catalog
  NoWork = NoWork
  NoKey = NoKey
  JobId <- ThreeJobs
  Work <- AllWork
  Queue <- OneQueue
  QueueOf <- SharedQueue
  Slots <- TwoSlots
  MaxAttempts <- TwoAttempts
  Key <- UniqueSync
  MaxFaults = 2
INVARIANTS
  UniquePending
  SlotsRespected
  OneRunPerJob
  AttemptsAccounted
PROPERTIES
  FinishedStays
  EveryJobEnds
