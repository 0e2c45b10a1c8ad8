\* Three concurrent claims, two concurrent creations around a full second, a sweep and
\* three rows: every race of the pollers on one row, of a time stamp with the id it is
\* stored under, and of a sweep with results and claims.
CONSTANTS
  MaxJobs = 3
  Pollers = {p1, p2, p3}
  Writers = {w1, w2}
  MaxTime = 2
SPECIFICATION Spec
SYMMETRY ThreadSymmetry
INVARIANTS
  ClaimExact
PROPERTIES
  QueueSpec
\* All rows may be inserted and closed with no handler running.
CHECK_DEADLOCK FALSE
