\* Two threads with three events each, a queue of two and one connection.
CONSTANTS
  Threads = {h1, h2}
  Clients = {c1}
  Cap = 2
  MaxEvents = 3
SPECIFICATION Spec
SYMMETRY ThreadSymmetry
INVARIANTS
  TypeOK
  BacklogBounded
PROPERTIES
  BroadcastSpec
\* All events may have been published and read.
CHECK_DEADLOCK FALSE
