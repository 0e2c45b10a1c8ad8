CONSTANTS
  Threads = {h1}
  Clients = {c1}
  Cap = 2
  MaxEvents = 1
SPECIFICATION Spec
INVARIANTS
  NoMissedWakeup
\* All events may have been published and read.
CHECK_DEADLOCK FALSE
