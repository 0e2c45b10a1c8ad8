\* One crash.
CONSTANTS
  MaxJobs = 1
  Tracks = {t1}
  NoTrack = none
  NStages = 2
  MaxSweepTries = 2
  Faults = {"crash"}
  MaxFaults = 1
SPECIFICATION FairSpec
PROPERTIES
  PlayerUnblocked
\* All jobs may be finished and the worker waits for more.
CHECK_DEADLOCK FALSE
