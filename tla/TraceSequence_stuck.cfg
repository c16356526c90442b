CONSTANTS
  Scouts = {s1, s2}
  ContinueOnError = TRUE
  Before = 2
  MaxEvents = 2
CHECK_DEADLOCK FALSE
SPECIFICATION FairSpec
PROPERTY SweepEnds
