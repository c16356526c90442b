\* Two sweeps of two scouts that draw on the same URLs; one key of two is taken.
CONSTANTS
  Scouts = {"official_scout", "social_scout"}
  Earlier = "earlier"
  Urls = {"a"}
  Keys = {"new", "taken"}
  Taken = {"taken"}
  MaxSweeps = 2
  MaxDrafts = 2
\* Sweeps are bounded.
CHECK_DEADLOCK FALSE
SPECIFICATION Spec
INVARIANTS OneItemPerUrl Grounded LineageComplete FallbackIsStored
PROPERTIES CurationGrows FailureHasCause
