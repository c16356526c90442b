CONSTANTS
  Scouts = {s1, s2, s3}
  ContinueOnError = TRUE
  Before = 2
  MaxEvents = 4
\* The scouts may wait for each other for ever: TraceSequence_stuck.cfg.
CHECK_DEADLOCK FALSE
SPECIFICATION FairSpec
INVARIANTS OneWriter CollisionFollowsFinish
PROPERTIES TimelineGrows SerialSweepEnds
