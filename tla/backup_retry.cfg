\* A tick of the only scheduled minute that fails is due in another one.
SPECIFICATION BackupSpec
CHECK_DEADLOCK FALSE
CONSTANTS
  MaxMinute = 4
  Scheduled = {1}
  MaxAttempts = 3
PROPERTIES
  TicksBackUp
