\* Two daily runs, the first with a cluster and the second without; the window of an
\* item is the retention, as the longest one of the code is.
CONSTANTS
  N = 2
  Topics = {"topic"}
  Loose <- LooseKeys
  Tiers = {"short"}
  Shortest <- OneDay
  Longest <- OneDay
  Asked = {1}
  Retention = 1
  LastDay = 2
\* Days are bounded.
CHECK_DEADLOCK FALSE
SPECIFICATION Spec
PROPERTY ExpiryGuaranteed
