\* Two requests, two threads, three faults of any kind: timeouts against late
\* results, restarts with clips queued, every thread waiting.
CONSTANTS
  MaxJobs = 2
  Requests = {r1, r2}
  PoolSize = 2
  Faults = {"crash", "lost", "locked", "restart"}
  MaxFaults = 3
SPECIFICATION FairSpec
INVARIANTS
  TypeOK
  NoEmptyWake
  ResultsDrained
  ClipKept
PROPERTIES
  EveryRequestAnswered
  ResultsGetThrough
  RendezvousSpec
\* All requests may be answered.
CHECK_DEADLOCK FALSE
