CONSTANTS
  MaxCollectRounds = 2
  MaxFollowupRounds = 1
  MaxWritingRevisions = 1
  MinSelectedItems = 1
  MinReportBodyItems = 2
  ManualReviewOnFailure = TRUE
  MaxWritingRounds = 2
  MaxToolCalls = 2
  MaxModelCalls = 15
  HasFinalReview = TRUE
  Tasks <- FewTasks
  ScoutSuccesses = {2}
  ToolCalls = {0}
  MaxClusters = 2
  MaxCrashes = 1
SPECIFICATION FairSpec
INVARIANTS CompletedIsReviewed CallsPaidByRounds UnmarkedHasCause ReturnsSettled
PROPERTIES SettledStays KeepsLifecycle ReopenIsLastReview BookedCallsStay Shrinks InvocationEnds
