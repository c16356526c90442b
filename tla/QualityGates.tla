---------------------------- MODULE QualityGates ----------------------------
(***************************************************************************)
(* The deterministic gates of src/app/harness/gates.py: what the harness   *)
(* decides after a collect round and after a writing round.  The text of a *)
(* decision (summaries, metrics, risk flags) is left out; its outcome and  *)
(* the order in which the conditions are tried are kept.                   *)
(***************************************************************************)
EXTENDS Naturals

CONSTANTS
  MaxCollectRounds,      \* RunBudgets.max_collect_rounds
  MaxFollowupRounds,     \* RunBudgets.max_followup_rounds
  MaxWritingRevisions,   \* HarnessConfig.max_writing_revisions
  MinSelectedItems,      \* HarnessConfig.min_selected_items
  MinReportBodyItems,    \* HarnessConfig.min_report_body_items, or its default
  ManualReviewOnFailure  \* HarnessConfig.manual_review_on_failure

ASSUME GateAssumption ==
  /\ MaxCollectRounds \in Nat \ {0}
  /\ MaxFollowupRounds \in Nat
  /\ MaxWritingRevisions \in Nat
  /\ MinSelectedItems \in Nat \ {0}
  /\ MinReportBodyItems \in Nat \ {0}
  /\ ManualReviewOnFailure \in BOOLEAN

CollectOutcomes == {"enter_writing", "followup_now", "recluster",
                    "continue_collecting", "needs_manual_review", "fail"}

WritingOutcomes == {"finalize", "review_draft", "revise", "reopen_collect",
                    "needs_manual_review", "fail"}

ReviewDecisions == {"pass", "revise", "reopen_collect", "reject"}

\* The outcome every gate falls back to when it cannot advance.
FailureOutcome ==
  IF ManualReviewOnFailure THEN "needs_manual_review" ELSE "fail"

(***************************************************************************)
(* What evaluate_collect reads of the full state:                          *)
(*   picked     the clusters an evaluation selected, or an earlier gate did *)
(*   covered    the clusters added to cover a required report bucket        *)
(*   low        their minimum or average score is under its threshold       *)
(*   recluster  some evaluation asks for reclustering                       *)
(*   queries    some evaluation carries follow-up queries                   *)
(* and how the tasks of a round change it, with most clusters at the most. *)
(***************************************************************************)
Evaluations == [picked : Nat, covered : Nat, low : BOOLEAN,
                recluster : BOOLEAN, queries : BOOLEAN]

\* Clusters are created, or change category and with it what they cover.
Clustered(e, most) ==
  [picked : {e.picked}, covered : 0..(most - e.picked), low : BOOLEAN,
   recluster : {e.recluster}, queries : {e.queries}]

\* Evaluations are added or overwritten under an id that holds their decision,
\* and never removed: a selection or a request to recluster stays.
Evaluated(e, most) ==
  {f \in [picked : e.picked..most, covered : 0..most, low : BOOLEAN,
          recluster : {TRUE, e.recluster}, queries : BOOLEAN] :
     f.picked + f.covered <= most}

\* Entering writing selects the clusters that cover the buckets, too.
WithCoverage(e) == [e EXCEPT !.picked = @ + e.covered, !.covered = 0]

CollectOutcome(e, collect, followup) ==
  LET selected   == e.picked + e.covered
      roundsLeft == collect < MaxCollectRounds
      followable == e.queries /\ followup < MaxFollowupRounds
  IN  IF selected >= MinReportBodyItems
      THEN IF e.low /\ roundsLeft THEN "continue_collecting" ELSE "enter_writing"
      ELSE IF selected < MinSelectedItems /\ e.recluster /\ roundsLeft
           THEN "recluster"
      ELSE IF followable THEN "followup_now"
      ELSE IF roundsLeft THEN "continue_collecting"
      ELSE FailureOutcome

\* Used when a collect round is due and no round is left: an advance stays,
\* everything else becomes manual review or failure.
ForceExhausted(outcome) ==
  IF outcome \in {"enter_writing", "followup_now"} THEN outcome ELSE FailureOutcome

\* Faulty variant: the final requirements are not checked when the revisions
\* are spent.
WritingOutcomeUnready(draft, ready, review, blocking, collect, revisions) ==
  CASE ~draft -> FailureOutcome
    [] draft /\ review = "none" -> "review_draft"
    [] draft /\ review = "revise" ->
         IF revisions < MaxWritingRevisions THEN "revise" ELSE "finalize"
    [] OTHER -> IF ready THEN "finalize" ELSE FailureOutcome

\* Faulty variant: collection is reopened without a round left.
WritingOutcomeFreeReopen(draft, ready, review, blocking, collect, revisions) ==
  CASE ~draft -> FailureOutcome
    [] draft /\ review = "none" -> "review_draft"
    [] draft /\ review = "reopen_collect" -> "reopen_collect"
    [] OTHER -> FailureOutcome

(***************************************************************************)
(* What evaluate_writing reads: whether a draft exists and meets the final *)
(* requirements, the latest review's decision ("none" before the first     *)
(* review) and whether that review has an issue of priority 0 or 1.        *)
(***************************************************************************)
WritingOutcome(draft, ready, review, blocking, collect, revisions) ==
  CASE ~draft -> FailureOutcome
    [] draft /\ review = "none" -> "review_draft"
    [] draft /\ review = "pass" ->
         IF ready THEN "finalize" ELSE FailureOutcome
    [] draft /\ review = "reopen_collect" ->
         IF collect < MaxCollectRounds THEN "reopen_collect" ELSE FailureOutcome
    [] draft /\ review = "revise" ->
         IF revisions < MaxWritingRevisions THEN "revise"
         ELSE IF ready /\ ~blocking THEN "finalize" ELSE FailureOutcome
    [] draft /\ review = "reject" -> FailureOutcome

(***************************************************************************)
(* A paper is what evaluate_writing reads of a run's reports and reviews:  *)
(*   reports   0, 1 or 2 for several                                       *)
(*   ready     the latest report meets the final requirements              *)
(*   review    the decision of the latest review                           *)
(*   blocking  that review asks for a revision with an issue of priority   *)
(*             0 or 1                                                      *)
(*   matched   that review is of the present content of the latest report  *)
(***************************************************************************)
Papers == [reports : 0..2, ready : BOOLEAN, review : ReviewDecisions \union {"none"},
           blocking : BOOLEAN, matched : BOOLEAN]

\* The papers the tasks of a role may leave.  A Writer's drafts are new reports.
Drafted(paper) ==
  {paper} \union
  [reports : 1..2, ready : BOOLEAN, review : {paper.review},
   blocking : {paper.blocking}, matched : {paper.matched}]

\* A review is of any of several reports, or of the only one; a report that is
\* rejected is not ready.
Reviewed(paper) ==
  {paper} \union
  {p \in [reports : {paper.reports} \ {0}, ready : BOOLEAN, review : ReviewDecisions,
          blocking : BOOLEAN, matched : BOOLEAN] :
     /\ p.blocking => p.review = "revise"
     /\ paper.reports = 1 => /\ p.matched
                             /\ p.ready = (paper.ready /\ p.review # "reject")}

\* An Editor's drafts replace the content of reports, or are new ones.
Edited(paper) ==
  {paper} \union
  [reports : {paper.reports, 2}, ready : BOOLEAN, review : {paper.review},
   blocking : {paper.blocking}, matched : {FALSE}]
=============================================================================
