CONSTANTS
  MaxCollectRounds = 2
  MaxFollowupRounds = 1
  MaxWritingRevisions = 1
  MinSelectedItems = 1
  MinReportBodyItems = 1
  ManualReviewOnFailure = TRUE
  s = s
  h = h
  e = e
  f = f
  s1 = s1
  h1 = h1
  e1 = e1
  e2 = e2
  f1 = f1
  CategoryOf <- FourCategories
  EvidenceOf <- FourEvidence
  ClaimOf <- FourClaims
  Selected = {s, e}
  Linked = {s1, h1, e1, f1}
  ItemDrafts <- MixedDrafts
  MaxItems = 2
  MaxReports = 1
  MaxDrafts = 1
  MaxWritingRounds = 2
  CollectRounds = 1
SPECIFICATION Spec
INVARIANT ReopenIsHeard
CHECK_DEADLOCK FALSE
