\* Two faults of any kind, late claims and sweeps among them, three jobs of a track
\* or clips, two stages.
CONSTANTS
  MaxJobs = 3
  Tracks = {t1}
  NoTrack = none
  NStages = 2
  MaxSweepTries = 2
  Faults = {"crash", "transport", "reject", "late_call"}
  MaxFaults = 2
SPECIFICATION Spec
INVARIANTS
  TypeOK
  AudioKept
  VerdictConsistent
  DoneMeansComplete
  DoneEventMeansDone
  CachedMeansAnalyzed
\* All jobs may be finished and the worker waits for more.
CHECK_DEADLOCK FALSE
