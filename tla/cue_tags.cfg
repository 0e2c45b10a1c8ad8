\* Two requests of up to two windows that read and write in any order, while the worker
\* replaces the cues or tags them; three jobs, so that a result that went missing can
\* arrive after the one that replaced it.
CONSTANTS
  Windows <- MCWindows
  TooShort <- MCTooShort
  PlayerIds = {1}
  Proposals <- MCProposals
  MaxRequest = 2
  MaxOpened = 2
  MaxJobs = 3
  MaxCues = 3
SPECIFICATION Spec
INVARIANTS
  TypeOK
  TagsCatchUp
  ResolvedDistinct
CHECK_DEADLOCK FALSE
