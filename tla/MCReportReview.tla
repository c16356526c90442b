---------------------------- MODULE MCReportReview ----------------------------
(* Values for the constants of ReportReview that a .cfg cannot write. *)
EXTENDS ReportReview, TLC

CONSTANTS s, h, e, f, s1, h1, e1, e2, f1

\* A signal, a hint, an event and a finance cluster.
FourCategories == (s :> "signal") @@ (h :> "hint") @@ (e :> "event") @@ (f :> "finance")
FourEvidence   == (s :> {s1}) @@ (h :> {h1}) @@ (e :> {e1, e2}) @@ (f :> {f1})
FourClaims     == (s :> "fact") @@ (h :> "fact") @@ (e :> "plain") @@ (f :> "foreign")

\* A draft that fills the fields of its own category.
Draft(category, clusters, evidence, wording) ==
  [category |-> category, clusters |-> clusters, evidence |-> evidence, wording |-> wording,
   label |-> category = "signal", impact |-> category # "other", followups |-> FALSE]

\* Items that need no repair, and items on clusters of two categories, under
\* another category than their cluster's, with foreign evidence, none, or none that
\* is linked, without clusters, and on what the run does not have.
MixedDrafts ==
  {Draft("signal", {s}, {s1}, "fact"),
   Draft("event", {e}, {e1, e2}, "plain"),
   Draft("signal", {h}, {h1}, "fact"),
   Draft("event", {e, s}, {e2, s1}, "plain"),
   Draft("other", {f}, {f1}, "plain"),
   Draft("event", {s}, {s1, e1}, "plain"),
   Draft("event", {e}, {s1}, "plain"),
   Draft("event", {e}, {}, "plain"),
   Draft("event", {}, {e1}, "plain"),
   Draft("watch", {e, "unknown"}, {s1, "unknown"}, "system"),
   Draft("finance", {f, "unknown"}, {f1}, "foreign")}
=============================================================================
