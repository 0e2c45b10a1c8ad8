\* Up to two crashes at any steps, the second one possibly while the sweep after the
\* first is under way; the behaviours without them are among them.
CONSTANTS
  MaxJobs = 2
  Tracks = {t1, t2}
  NoTrack = none
  NStages = 2
  MaxSweepTries = 2
  Faults = {"crash"}
  MaxFaults = 2
SPECIFICATION FairSpec
INVARIANTS
  WaitHasCause
  CrashLosesNoJob
PROPERTIES
  UnblockedWhenHealthy
  JobConcludes
\* All jobs may be finished and the worker waits for more.
CHECK_DEADLOCK FALSE
