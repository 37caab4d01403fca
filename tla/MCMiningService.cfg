CONSTANTS
  c1 = c1
  c2 = c2
  Creators = {c1}
  Cancellers = {c2}
  MaxJobs = 2
  MaxHeight = 1
SPECIFICATION Spec
CHECK_DEADLOCK FALSE
INVARIANTS
  OneMining
  StatusIsTrue
PROPERTIES
  FinalIsFinal
  EverythingEnds
