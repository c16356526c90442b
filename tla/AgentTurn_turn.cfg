CONSTANTS
  MaxToolCalls = 2
  MaxRequests = 4
\* A turn ends; that it does not stop before is TurnEnds.
CHECK_DEADLOCK FALSE
SPECIFICATION FairSpec
INVARIANTS ToolBudget LoopNeverBlocks ResultsComplete TurnIsTraced
PROPERTIES QuietAfterTurn TurnEnds
