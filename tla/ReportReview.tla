---------------------------- MODULE ReportReview ----------------------------
(***************************************************************************)
(* The reports and reviews of one writing loop: what the materializer      *)
(* (writing/materialization.py) makes of the drafts of the Writer, the     *)
(* Reviewer and the Editor, and the loop (harness/writing.py) that asks    *)
(* for them.  RunHarness sees of all this only a record, its paper; that   *)
(* this module changes it as RunHarness says is KeepsPaper.                *)
(*                                                                         *)
(* The clusters of the run, their categories and the selection do not      *)
(* change in the loop.  Reports are in the order of their creation.        *)
(***************************************************************************)
EXTENDS QualityGates, SequencesExt

CONSTANTS
  CategoryOf,       \* the category of each cluster of the run
  Selected,         \* RunState.selected_cluster_ids
  EvidenceOf,       \* the evidence of each cluster
  Linked,           \* the evidence with a URL
  ClaimOf,          \* the wording of an item made up of each cluster: its claim, its follow-ups
  ItemDrafts,       \* bound: the item drafts agents write
  MaxItems,         \* bound: items of a report
  MaxReports,       \* bound: reports of the run
  MaxDrafts,        \* bound: report drafts of an output
  MaxWritingRounds, \* RunBudgets.max_writing_rounds
  CollectRounds     \* the run's collect rounds

Clusters == DOMAIN CategoryOf
Evidence == UNION {EvidenceOf[c] : c \in Clusters}

EvidenceOfAll(clusters) == UNION {EvidenceOf[c] : c \in clusters}

\* A hint is of a researcher, or on code or models.
Categories == {"signal", "hint", "event", "finance", "other"}

\* The bucket of the report that a category has: "other" and "watch" have none.
Bucket(category) ==
  CASE category \in {"signal", "hint"} -> "early_signals"
    [] category = "event" -> "confirmed_events"
    [] category = "finance" -> "tech_finance"
    [] OTHER -> "none"

\* What an item says: nothing of note, a confirmed fact, not in Chinese, or in
\* words of the system that a reader should not see.
Wordings == {"plain", "fact", "foreign", "system"}

\* A draft may name no clusters or evidence, or some that the run does not have.
\* label and impact: the fields signals and finance items must have are filled.
AllItemDrafts ==
  [category : Categories \union {"watch"}, clusters : SUBSET (Clusters \union {"unknown"}),
   evidence : SUBSET (Evidence \union {"unknown"}), wording : Wordings,
   label : BOOLEAN, impact : BOOLEAN, followups : BOOLEAN]

ASSUME ReviewAssumption ==
  /\ IsFiniteSet(Clusters) /\ CategoryOf \in [Clusters -> Categories]
  /\ Selected \subseteq Clusters
  /\ DOMAIN EvidenceOf = Clusters /\ \A c \in Clusters : EvidenceOf[c] # {}
  /\ Linked \subseteq Evidence /\ ClaimOf \in [Clusters -> Wordings]
  /\ "unknown" \notin Clusters \union Evidence
  /\ ItemDrafts \subseteq AllItemDrafts
  /\ MaxItems \in Nat \ {0} /\ MaxReports \in Nat /\ MaxDrafts \in Nat
  /\ MaxWritingRounds \in Nat \ {0} /\ CollectRounds \in Nat

VARIABLES
  stage,     \* where the loop is, or how it ended
  rounds,    \* writing_rounds
  revisions, \* review_rounds
  left,      \* report drafts that may still come in this task
  touched,   \* the reports reviewed in this task
  reports,
  review,    \* the latest review
  cause      \* why storing a draft has failed

vars == <<stage, rounds, revisions, left, touched, reports, review, cause>>

-----------------------------------------------------------------------------
(* The drafts of items: what the agents' outputs are repaired to and admitted as *)

\* What the model of a draft, and of an item, requires.
Lacking(i) == i.clusters = {} \/ i.evidence = {}
Unfilled(i) == (i.category = "signal" /\ ~i.label) \/ (i.category = "finance" /\ ~i.impact)

\* An item of the Writer without evidence gets that of the selected clusters it names.
WithSelectedEvidence(d) ==
  [d EXCEPT !.evidence = IF @ = {} THEN EvidenceOfAll(d.clusters \intersect Selected) ELSE @]

\* The Writer's items without clusters or evidence are left out of its report; an
\* Editor's, and fields that are not filled, make the whole output invalid.
DraftsOf(role) ==
  {d \in IF role = "writing" THEN {WithSelectedEvidence(d) : d \in ItemDrafts} ELSE ItemDrafts :
     ~Lacking(d) /\ ~Unfilled(d)}

Admitted == DraftsOf("writing") \union DraftsOf("editing")

-----------------------------------------------------------------------------
(* Items: _item_from_draft *)

\* The clusters of the run that the draft names and that have its category.
OfCategory(d, category) == {c \in d.clusters \intersect Clusters : CategoryOf[c] = category}

\* The category of an item is that of its clusters; of several the draft's own, or
\* that of the first cluster.
PrimaryCategories(d) ==
  LET named == {CategoryOf[c] : c \in d.clusters}
  IN  IF d.category \in named THEN {d.category} ELSE named

\* An item with clusters of several categories keeps those of one, and their
\* evidence: what it cites of it, or else all.
Normalized(d) ==
  IF d.category = "watch" THEN {d}
  ELSE {LET clusters == OfCategory(d, k)
            theirs   == EvidenceOfAll(clusters)
        IN  IF clusters = d.clusters THEN [d EXCEPT !.category = k]
            ELSE [d EXCEPT !.category = k, !.clusters = clusters,
                           !.evidence = IF @ \intersect theirs # {} THEN @ \intersect theirs
                                        ELSE theirs] : k \in PrimaryCategories(d)}

\* The clusters of the run that an item may show.
ValidClusters(d) ==
  IF d.category = "watch" THEN d.clusters \intersect Clusters ELSE OfCategory(d, d.category)

\* Faulty variant: any evidence of the run will do.
WithLineageOfRun(d) ==
  [d EXCEPT !.clusters = ValidClusters(d), !.evidence = @ \intersect Evidence]

\* What the run does not have is dropped, and so are clusters of another category
\* and evidence of other clusters, but not from a watch item.
WithLineage(d) ==
  [d EXCEPT !.clusters = ValidClusters(d),
            !.evidence = @ \intersect IF d.category = "watch" \/ ValidClusters(d) = {} THEN Evidence
                                       ELSE EvidenceOfAll(ValidClusters(d))]

\* The impact of a finance item without one is what its clusters claim.
WithImpact(d) ==
  IF d.category = "finance" /\ d.clusters # {} THEN [d EXCEPT !.impact = TRUE] ELSE d

\* A signal gets an uncertainty label.  (A researcher's hint too, which needs none.)
\* Words of a confirmed fact stay.
WithUncertainty(d) == IF d.category = "signal" THEN [d EXCEPT !.label = TRUE] ELSE d

WithFollowups(d) == [d EXCEPT !.followups = TRUE]

\* Faulty variant: the fields are repaired before the category is settled.
RepairedEarly(d) ==
  {WithLineage(n) : n \in Normalized(WithFollowups(WithUncertainty(WithImpact(d))))}

Repaired(d) ==
  {WithFollowups(WithUncertainty(WithImpact(WithLineage(n)))) : n \in Normalized(d)}

\* A draft on an unknown cluster is refused, but for a watch item.
Unknown(d) == d.category # "watch" /\ "unknown" \in d.clusters

\* Faulty variant: a cluster with evidence that has no link is left out.
FallbackDraftsLinked ==
  {[category |-> CategoryOf[c], clusters |-> {c}, evidence |-> EvidenceOf[c],
    wording |-> ClaimOf[c], label |-> CategoryOf[c] = "signal", impact |-> TRUE,
    followups |-> TRUE] : c \in {c \in Selected : EvidenceOf[c] \subseteq Linked}}

\* When the Writer's replies are of no use, a report is made of the selected
\* clusters: an item for each, with its claim, its category and its evidence.
FallbackDrafts ==
  {[category |-> CategoryOf[c], clusters |-> {c}, evidence |-> EvidenceOf[c],
    wording |-> ClaimOf[c], label |-> CategoryOf[c] = "signal", impact |-> TRUE,
    followups |-> TRUE] : c \in Selected}

\* The items that come of drafts.
ItemsOf(drafts) == {i \in UNION {Repaired(d) : d \in {d \in drafts : ~Unknown(d)}} :
                      ~Lacking(i) /\ ~Unfilled(i)}

Items == ItemsOf(Admitted \union FallbackDrafts)

\* The ways a draft may fail.
Failures ==
  {"lineage" : d \in {d \in Admitted : Unknown(d) \/ \E i \in Repaired(d) : Lacking(i)}}
    \union {"fields" : d \in {d \in Admitted : ~Unknown(d) /\ \E i \in Repaired(d) : Unfilled(i)}}

-----------------------------------------------------------------------------
(* Reports *)

\* The contents of a report.  One without items had them in a section on tomorrow.
Contents == {s \in SUBSET Items : Cardinality(s) <= MaxItems}

Body(items) == {i \in items : i.category # "watch"}

Statuses == {"draft", "under_review", "needs_revision", "failed", "final"}

\* named: the draft that created it named its id.
AllReports == [items : Contents, focus : BOOLEAN, named : BOOLEAN, status : Statuses]

NoReview == [report |-> 0, decision |-> "none", blocking |-> FALSE, current |-> FALSE]

\* current: the reviewed content has not been replaced.
AllReviews == [report : 0..MaxReports, decision : ReviewDecisions \union {"none"},
               blocking : BOOLEAN, current : BOOLEAN]

Stages == {"top", "writing", "reviewing", "rereviewing", "editing", "gate",
           "completed", "paused", "reopened", "failed"}

TypeOK ==
  /\ stage \in Stages
  /\ rounds \in 0..MaxWritingRounds /\ revisions \in 0..MaxWritingRevisions
  /\ left \in 0..MaxDrafts /\ touched \in SUBSET (1..MaxReports)
  /\ reports \in Seq(AllReports) /\ Len(reports) <= MaxReports
  /\ review \in AllReviews /\ review.report <= Len(reports)
  /\ cause \in {"none", "lineage", "fields", "report", "reject", "reopen_collect"}

Init ==
  /\ stage = "top" /\ rounds = 0 /\ revisions = 0 /\ left = 0 /\ touched = {}
  /\ reports = <<>> /\ review = NoReview /\ cause = "none"

Latest == Len(reports)

\* The focus on tomorrow comes of the draft, of its section on tomorrow, of the
\* follow-ups of body items, or else of the watchlist.
Focused(items) ==
  IF items = {} \/ \E i \in Body(items) : i.followups THEN {TRUE} ELSE BOOLEAN

Fresh(items, focus, named) ==
  [items |-> items, focus |-> focus, named |-> named, status |-> "draft"]

\* A draft that names an existing report, or an Editor's that names none, replaces
\* its content in its place.
Replace(k, items, focus) ==
  /\ reports' = [reports EXCEPT ![k] = Fresh(items, focus, @.named)]
  /\ review' = [review EXCEPT !.current = @ /\ k # review.report]

\* A draft that names a report that does not exist creates it.
Create(items, focus, named) ==
  /\ Latest < MaxReports
  /\ reports' = Append(reports, Fresh(items, focus, named))
  /\ UNCHANGED review

\* The drafts of the Writer that name no report have one identifier: the last of
\* them is stored, as the latest report.
Unnamed == {k \in 1..Latest : ~reports[k].named}
Others == IF Unnamed = {} THEN reports ELSE RemoveAt(reports, Min(Unnamed))

Rewrite(items, focus) ==
  /\ Len(Others) < MaxReports
  /\ reports' = Append(Others, Fresh(items, focus, FALSE))
  /\ UNCHANGED review

StoreDraft ==
  /\ stage \in {"writing", "editing"} /\ left > 0 /\ left' = left - 1
  /\ \E items \in {c \in Contents : c \subseteq ItemsOf(DraftsOf(stage))} : \E focus \in Focused(items) :
       \/ \E k \in 1..Latest : Replace(k, items, focus)
       \/ Create(items, focus, TRUE)
       \/ stage = "writing" /\ Rewrite(items, focus)
  /\ UNCHANGED <<stage, rounds, revisions, touched, cause>>

\* In place of an output that is of no use: for the Writer a report made up of the
\* selected clusters, for the Editor the latest report unchanged.
FallBack ==
  /\ stage \in {"writing", "editing"} /\ left = MaxDrafts /\ left' = 0
  /\ \/ /\ stage = "writing" /\ Selected # {}
        /\ \E items \in Contents : items = ItemsOf(FallbackDrafts) /\ Rewrite(items, TRUE)
     \/ /\ stage = "editing" /\ reports[Latest].items # {}
        /\ LET items == ItemsOf(reports[Latest].items)
           IN  \E focus \in IF reports[Latest].focus THEN {TRUE} ELSE Focused(items) :
                 Replace(Latest, items, focus)
  /\ UNCHANGED <<stage, rounds, revisions, touched, cause>>

\* An item that cannot be stored, or a report of another run, fails the run.
RefuseDraft ==
  /\ stage \in {"writing", "editing"} /\ left > 0
  /\ stage' = "failed" /\ cause' \in Failures \union {"report"}
  /\ UNCHANGED <<rounds, revisions, left, touched, reports, review>>

-----------------------------------------------------------------------------
(* Reviews *)

\* A finding is real, or is answered by what the report has or the contract of
\* reports allows.  A required change is a finding that does not block.
Findings == [blocking : BOOLEAN, real : BOOLEAN]

\* The strongest of the decisions on a report.
Strongest(decisions) ==
  CASE "reject" \in decisions -> "reject"
    [] "reopen_collect" \in decisions -> "reopen_collect"
    [] "revise" \in decisions /\ {"reject", "reopen_collect"} \intersect decisions = {} -> "revise"
    [] decisions = {"pass"} -> "pass"

\* The drafts of reviews as the repairs leave them: with findings neither a pass nor
\* a rejection stays, and to reopen the collection is itself a required change.
\* (The titles of issues that become required changes are findings too.)
Reconsidered(d) ==
  CASE d.decision \in {"pass", "reject"} /\ d.findings # {} -> [d EXCEPT !.decision = "revise"]
    [] d.decision = "reopen_collect" /\ d.findings = {} ->
         [d EXCEPT !.findings = {[blocking |-> FALSE, real |-> TRUE]}]
    [] OTHER -> d

\* A pass has no findings, and any other decision has.
Consistent(d) == (d.decision = "pass") = (d.findings = {})

ReviewDrafts ==
  {d \in {Reconsidered(d) : d \in [decision : ReviewDecisions, findings : SUBSET Findings]} :
     Consistent(d)}

\* The decision of the whole output gives way to a draft that asks for a revision.
Overall(decision, drafts) ==
  IF \E d \in drafts : d.decision = "revise" THEN "revise" ELSE decision

\* The drafts on a report.  Two can say what any number says.
DraftSets == {{p[1], p[2]} : p \in ReviewDrafts \X ReviewDrafts}

DecisionsOf(drafts) == {d.decision : d \in drafts}
FindingsOf(drafts) == UNION {d.findings : d \in drafts}

\* They become one: its decision and all findings.
Aggregated ==
  {[decision |-> Strongest(DecisionsOf(drafts)), findings |-> FindingsOf(drafts)] :
     drafts \in DraftSets}

\* When they are on one report, decision and changes of the whole output count as
\* well.  An output that does not pass needs a finding.
AggregatedSole ==
  LET Outputs == [drafts : DraftSets, decision : ReviewDecisions,
                  changes : SUBSET {f \in Findings : ~f.blocking}]
      Join(o, decision) ==
        [decision |-> Strongest(DecisionsOf(o.drafts) \union {decision}),
         findings |-> FindingsOf(o.drafts) \union IF decision = "pass" THEN {} ELSE o.changes]
  IN  {d \in {Join(o, Overall(o.decision, o.drafts)) : o \in Outputs} : Consistent(d)}

Kept(findings) == {f \in findings : f.real}

(* The guards *)

Facts(items) == {i \in items : i.category = "signal" /\ i.wording = "fact"}
Unlinked(items) == {i \in items : i.evidence \intersect Linked = {}}
Foreign(items) == {i \in Body(items) : i.wording = "foreign"}
\* (The whole Markdown is searched: here such words come with an item.)
SystemWords(items) == {i \in items : i.wording = "system"}

Guarded(items) == Facts(items) \union Unlinked(items) \union Foreign(items) \union SystemWords(items)

\* Faulty variant: the guards are asked before the findings are filtered.
DecidedEarly(d, items) ==
  IF d.decision = "pass" /\ Guarded(items) # {} THEN "revise"
  ELSE IF d.decision = "revise" /\ Kept(d.findings) = {} THEN "pass"
  ELSE d.decision

\* A request to revise without a finding left is a pass, and a pass of a report
\* with an issue of the guards is a request to revise.
Decided(d, items) ==
  LET filtered == IF d.decision = "revise" /\ Kept(d.findings) = {} THEN "pass" ELSE d.decision
  IN  IF filtered = "pass" /\ Guarded(items) # {} THEN "revise" ELSE filtered

\* An issue of priority 0 or 1: a finding, or one of the guards.
Blocks(d, items) ==
  \/ \E f \in Kept(d.findings) : f.blocking
  \/ Decided(d, items) = "revise" /\ Kept(d.findings) = {}

\* Faulty variant: every report that does not pass is marked failed.
StatusOrFailed(decision) == IF decision = "pass" THEN "under_review" ELSE "failed"

StatusAfter(decision) ==
  CASE decision = "revise" -> "needs_revision"
    [] decision = "reject" -> "failed"
    [] OTHER -> "under_review"

\* A decision other than to pass needs a finding: a report is not rejected, nor the
\* collection reopened, for what is answered already.
Emptied(d, items) == Decided(d, items) \in {"reject", "reopen_collect"} /\ Kept(d.findings) = {}

ReviewedAs(k, d) ==
  LET items    == reports[k].items
      decision == Decided(d, items)
  IN  /\ ~Emptied(d, items)
      /\ review' = [report |-> k, decision |-> decision,
                    blocking |-> Blocks(d, items), current |-> TRUE]
      /\ reports' = [reports EXCEPT ![k].status = StatusAfter(decision)]

\* The reviews of an output: of one report, or of several.
Review(k) ==
  /\ stage \in {"reviewing", "rereviewing"} /\ k \in 1..Latest \ touched
  /\ \/ (\E d \in Aggregated : ReviewedAs(k, d)) /\ touched' = touched \union {k}
     \/ (\E d \in AggregatedSole : ReviewedAs(k, d)) /\ touched = {} /\ touched' = 1..Latest
  /\ UNCHANGED <<stage, rounds, revisions, left, cause>>

\* A review that is emptied does not validate, and fails the run; so does one of a
\* report of another run, or without a report.
RefuseReview ==
  /\ stage \in {"reviewing", "rereviewing"}
  /\ \/ \E k \in 1..Latest \ touched, d \in Aggregated \union IF touched = {} THEN AggregatedSole ELSE {} :
          Emptied(d, reports[k].items) /\ cause' = d.decision
     \/ cause' = "report"
  /\ stage' = "failed"
  /\ UNCHANGED <<rounds, revisions, left, touched, reports, review>>

-----------------------------------------------------------------------------
(* The loop *)

\* The selected clusters an item shows under their own bucket.
Shown(items) ==
  {c \in Selected : \E i \in items : c \in i.clusters
                                       /\ Bucket(i.category) = Bucket(CategoryOf[c])
                                       /\ Bucket(i.category) # "none"}

Ready(r) ==
  /\ r.focus /\ r.status # "failed"
  /\ Cardinality(Body(r.items)) >= MinReportBodyItems
  /\ Selected \subseteq Shown(r.items)

StartRound ==
  /\ stage = "top" /\ rounds < MaxWritingRounds /\ rounds' = rounds + 1
  /\ stage' = IF reports = <<>> THEN "writing"
              ELSE IF review = NoReview THEN "reviewing" ELSE "gate"
  /\ left' = MaxDrafts /\ touched' = {}
  /\ UNCHANGED <<revisions, reports, review, cause>>

Stop == stage' = IF ManualReviewOnFailure THEN "paused" ELSE "failed"

Exhausted ==
  /\ stage = "top" /\ rounds >= MaxWritingRounds /\ Stop
  /\ UNCHANGED <<rounds, revisions, left, touched, reports, review, cause>>

\* The task at hand has no more drafts.
EndTask ==
  /\ \/ stage = "writing" /\ stage' = IF reports = <<>> THEN "gate" ELSE "reviewing"
     \/ stage = "reviewing" /\ stage' = "gate"
     \/ stage = "editing" /\ stage' = "rereviewing"
     \/ stage = "rereviewing" /\ stage' = "top"
  /\ left' = 0 /\ touched' = {}
  /\ UNCHANGED <<rounds, revisions, reports, review, cause>>

\* The latest report and the latest review, whichever report that is of.
Outcome ==
  WritingOutcome(reports # <<>>, reports # <<>> /\ Ready(reports[Latest]), review.decision,
                 review.blocking, CollectRounds, revisions)

Gate ==
  /\ stage = "gate"
  /\ CASE Outcome = "finalize" ->
            stage' = "completed" /\ reports' = [reports EXCEPT ![Latest].status = "final"]
       [] Outcome = "reopen_collect" -> stage' = "reopened" /\ UNCHANGED reports
       [] Outcome = "review_draft" -> stage' = "rereviewing" /\ UNCHANGED reports
       [] Outcome = "revise" ->
            UNCHANGED reports /\ IF rounds < MaxWritingRounds THEN stage' = "editing" ELSE Stop
       [] OTHER -> Stop /\ UNCHANGED reports
  /\ revisions' = IF Outcome = "revise" THEN revisions + 1 ELSE revisions
  /\ left' = IF stage' = "editing" THEN MaxDrafts ELSE 0
  /\ UNCHANGED <<rounds, touched, review, cause>>

Next ==
  \/ StartRound \/ Exhausted \/ StoreDraft \/ FallBack \/ RefuseDraft \/ RefuseReview \/ EndTask \/ Gate
  \/ \E k \in 1..MaxReports : Review(k)

Spec == Init /\ [][Next]_vars

-----------------------------------------------------------------------------
(* Safety *)

\* Whatever clusters and evidence a draft names, an item shows only clusters of its
\* own category, and cites only their evidence.
ItemsGrounded ==
  \A k \in 1..Latest : \A i \in Body(reports[k].items) :
    /\ i.clusters # {} /\ \A c \in i.clusters : CategoryOf[c] = i.category
    /\ i.evidence # {} /\ i.evidence \subseteq EvidenceOfAll(i.clusters)

\* A draft never fails for a field of its category: the repairs fill it also when
\* the category is the one of its clusters and not the one it was written for.
FieldsRepaired == cause # "fields"

\* A fallback loses nothing: the Writer's report is fit to be published when every
\* selected cluster has a bucket, and the Editor's keeps the items of the latest one.
ReportKept ==
  FallBack =>
    IF stage = "writing"
    THEN (\A c \in Selected : Bucket(CategoryOf[c]) # "none")
           /\ Cardinality(Selected) >= MinReportBodyItems => Ready(reports'[Len(reports')])
    ELSE reports'[Latest].items = reports[Latest].items

FallbackKeepsReport == [][ReportKept]_vars

\* As long as the content a review passed is not replaced, no guard objects to it.
PassIsClean ==
  review.decision = "pass" /\ review.current => Guarded(reports[review.report].items) = {}

(* What RunHarness knows of reports and reviews changes as it says there *)

Paper ==
  [reports  |-> IF Latest > 2 THEN 2 ELSE Latest,
   ready    |-> reports # <<>> /\ Ready(reports[Latest]),
   review   |-> review.decision,
   blocking |-> review.decision = "revise" /\ review.blocking,
   matched  |-> review.current /\ review.report = Latest]

\* The drafts of each role change the paper as RunHarness lets its tasks do.
PaperKept ==
  Paper' # Paper =>
    \/ stage = "writing" /\ Paper' \in Drafted(Paper)
    \/ stage = "editing" /\ Paper' \in Edited(Paper)
    \/ stage \in {"reviewing", "rereviewing"} /\ Paper' \in Reviewed(Paper)

KeepsPaper == [][PaperKept]_vars

(* What the documentation says and runs refute *)

\* docs: a missing-evidence issue of the Reviewer reopens the collection.
ReopenIsHeard == cause # "reopen_collect"
=============================================================================
