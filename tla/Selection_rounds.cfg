\* Up to three rounds, one of them a follow-up, over two clusters, with one judgement
\* in a round: high, low, or out of scale.
CONSTANTS
  MaxCollectRounds = 2
  MaxFollowupRounds = 1
  MaxWritingRevisions = 2
  MinSelectedItems = 1
  MinReportBodyItems = 1
  ManualReviewOnFailure = TRUE
  NumClusters = 2
  Offered = {"signals", "events", "other"}
  Raw = {2, 70, 700}
  Decisions = {"select_confirmed", "select_early", "followup_later", "recluster"}
  MaxJudgements = 1
  MinAverage = 5
  MinSingle = 3
  CoverageMin = 4
\* Rounds are bounded.
CHECK_DEADLOCK FALSE
SPECIFICATION Spec
INVARIANTS BucketsCovered SelectionAgrees
PROPERTIES DecisionsStay KeepsView
