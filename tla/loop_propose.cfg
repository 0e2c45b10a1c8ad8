\* Two-bar loops, two build-ups out of four, every energy profile of up to nine
\* windows over three levels.
CONSTANTS
  LoopBars = 2
  MinGap = 2
  NumLoops = 4
  NumBuildups = 2
  MaxBars = 11
  Levels = {0, 1, 2}
SPECIFICATION Spec
INVARIANTS
  TypeOK
  LoopsDisjoint
  SegmentsTile
  BuildupsSteepest
  AtMostNumLoops
\* The picker ends.
CHECK_DEADLOCK FALSE
