CONSTANTS
  MaxCollectRounds = 3
  MaxFollowupRounds = 2
  MaxWritingRevisions = 2
  MinSelectedItems = 2
  MinReportBodyItems = 2
  ManualReviewOnFailure = TRUE
  MaxWritingRounds = 3
  MaxToolCalls = 100
  MaxModelCalls = 50
  HasFinalReview = TRUE
  Tasks <- CliTasks
  ScoutSuccesses = {5}
  ToolCalls = {0}
  MaxClusters = 2
  MaxCrashes = 0
SPECIFICATION Spec
INVARIANT RaisedIsFailed
