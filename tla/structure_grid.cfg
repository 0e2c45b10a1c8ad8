\* One analysis, no fault.
CONSTANTS
  MaxJobs = 1
  HardTimeout = 2
  PipeSize = 2
  MaxOutput = 2
  Faults = {}
  MaxFaults = 0
SPECIFICATION Spec
INVARIANTS
  GridDelivered
CHECK_DEADLOCK FALSE
