\* Two analyses with tag jobs before, between and after them: output that fits the pipe and output
\* that does not, a lost event, a slow kill and a crash.
CONSTANTS
  MaxJobs = 2
  HardTimeout = 2
  PipeSize = 1
  MaxOutput = 2
  Faults = {"event", "stuck", "crash"}
  MaxFaults = 3
SPECIFICATION FairSpec
INVARIANTS
  TypeOK
  OneModelAtATime
PROPERTIES
  StageEnds
  ChildrenEnd
\* The worker may have nothing more to do.
CHECK_DEADLOCK FALSE
