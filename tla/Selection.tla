------------------------------ MODULE Selection ------------------------------
(***************************************************************************)
(* How the clusters of a run come to be selected for its report: the       *)
(* drafts of the evaluators become evaluations (evaluators/                *)
(* materialization.py, evaluators/profiles.py), and the collect gate       *)
(* selects clusters by them and covers the buckets of the report           *)
(* (harness/gates.py).  What the gate then decides is QualityGates.        *)
(*                                                                         *)
(* Between two gates the Clusterer may put a cluster into another category *)
(* and the evaluators may judge it again.  An evaluation is stored under   *)
(* its cluster, evaluator and decision, so an earlier decision stays.      *)
(* Clusters are numbered in the order of their creation.                   *)
(***************************************************************************)
EXTENDS QualityGates, Integers, FiniteSets, FiniteSetsExt

CONSTANTS
  NumClusters,   \* bound
  Offered,       \* bound: the categories the Clusterer gives
  Raw,           \* bound: the scores agents give
  Decisions,     \* bound: the decisions agents take
  MaxJudgements, \* bound: drafts stored in a round
  MinAverage, MinSingle, CoverageMin  \* HarnessConfig, Phase 17 thresholds

AllDecisions == {"select_confirmed", "select_early", "short_watch", "followup_now",
                 "followup_later", "recluster", "archive", "reject"}

\* Categories by the bucket of the report they belong to; "other" has none.
Buckets == {"signals", "events", "finance"}
Categories == Buckets \union {"other"}

ASSUME SelectionAssumption ==
  /\ NumClusters \in Nat /\ MaxJudgements \in Nat
  /\ Offered \subseteq Categories /\ Raw \subseteq Int /\ Decisions \subseteq AllDecisions
  /\ MinAverage \in 0..10 /\ MinSingle \in 0..10 /\ CoverageMin \in 0..10

Clusters == 1..NumClusters
Roles == {"frontier", "event", "market"}

VARIABLES
  stage,       \* "clustering", "evaluating", "writing", "stopped" or "failed"
  collect,     \* the run's loop counters
  followup,
  left,        \* drafts that may still come in this round
  category,    \* the category of each cluster, or "none"
  evaluations, \* by cluster, role and decision
  flagged,     \* the clusters stored as selected
  selected     \* the run's selected_cluster_ids

vars == <<stage, collect, followup, left, category, evaluations, flagged, selected>>

Policies == {"write_now", "write_with_caveat", "context_only", "archive", "do_not_write"}

AllEvaluations == [cluster : Clusters, by : Roles, decision : AllDecisions,
                   score : 0..10, policy : Policies, missing : BOOLEAN]

TypeOK ==
  /\ stage \in {"clustering", "evaluating", "writing", "stopped", "failed"}
  /\ collect \in 0..MaxCollectRounds /\ followup \in 0..MaxFollowupRounds
  /\ left \in 0..MaxJudgements
  /\ category \in [Clusters -> Categories \union {"none"}]
  /\ evaluations \in SUBSET AllEvaluations
  /\ \A e, f \in evaluations :
       e.cluster = f.cluster /\ e.by = f.by /\ e.decision = f.decision => e = f
  /\ flagged \in SUBSET Clusters /\ selected \in SUBSET Clusters

Init ==
  /\ stage = "clustering" /\ collect = 1 /\ followup = 0 /\ left = MaxJudgements
  /\ category = [c \in Clusters |-> "none"]
  /\ evaluations = {} /\ flagged = {} /\ selected = {}

-----------------------------------------------------------------------------
(* Clusters *)

Exists(c) == category[c] # "none"

\* A cluster is created after those before it, or a draft with its key merges
\* into it and decides on its category anew.  It keeps its flag.
StoreCluster(c) ==
  /\ stage = "clustering" /\ \A b \in Clusters : b < c => Exists(b)
  /\ \E cat \in Offered : category' = [category EXCEPT ![c] = cat]
  /\ UNCHANGED <<stage, collect, followup, left, evaluations, flagged, selected>>

EndClustering ==
  /\ stage = "clustering" /\ stage' = "evaluating"
  /\ UNCHANGED <<collect, followup, left, category, evaluations, flagged, selected>>

-----------------------------------------------------------------------------
(* Drafts of evaluators *)

\* A draft with one dimension for all; missing, followups, weak and ticker say
\* whether it names missing evidence and follow-ups, whether its cluster rests
\* on one weak source of a community, and whether a ticker is known.
Drafts == [dimension : Raw, total : Raw, decision : Decisions,
           missing : BOOLEAN, weak : BOOLEAN, ticker : BOOLEAN]

Dimension(d) == IF d.dimension > 10 /\ d.dimension <= 100 THEN d.dimension \div 10 ELSE d.dimension

\* A total out of scale is the mean of the dimensions.
Score(d) == IF d.total > 10 THEN Dimension(d) ELSE d.total

\* What is made of the decision: a confirmation with a low score or with
\* evidence missing is followed up, a weak signal is watched.
Decision(d, cat) ==
  IF d.decision = "select_confirmed" /\ (Score(d) < 6 \/ d.missing) THEN "followup_now"
  ELSE IF d.decision = "select_early" /\ cat = "signals" /\ d.weak THEN "short_watch"
  ELSE d.decision

AllowedDecisions(role) ==
  CASE role = "frontier" -> {"select_early", "short_watch", "followup_now",
                             "followup_later", "recluster", "archive", "reject"}
    [] role = "event" -> {"select_confirmed", "followup_now", "recluster", "archive", "reject"}
    [] role = "market" -> {"select_confirmed", "followup_now", "followup_later",
                           "recluster", "archive", "reject"}

\* The role whose profile allows a category.
RoleFor(cat) ==
  CASE cat = "events" -> "event" [] cat = "finance" -> "market"
    [] cat \in {"signals", "other"} -> "frontier"

\* What the profile asks of a normalised draft.
Valid(d, cat) ==
  /\ Decision(d, cat) \in AllowedDecisions(RoleFor(cat))
  /\ Dimension(d) \in 0..10 /\ Score(d) \in 0..10
  /\ RoleFor(cat) = "market"
       /\ Decision(d, cat) \in {"select_confirmed", "followup_now", "followup_later"} => d.ticker

Policy(d, cat) ==
  LET decision == Decision(d, cat)
  IN  CASE decision \in {"select_confirmed", "select_early"} -> "write_now"
        [] decision = "followup_now" -> "write_with_caveat"
        [] decision = "followup_later" ->
             IF Score(d) >= 7 THEN "write_with_caveat" ELSE "context_only"
        [] decision = "archive" -> "archive"
        [] decision = "reject" -> IF Dimension(d) >= 5 THEN "archive" ELSE "do_not_write"
        [] OTHER -> "context_only"

\* Faulty variant: one evaluation for a cluster and a role.
WithOneDecision(e) ==
  {f \in evaluations : f.cluster # e.cluster \/ f.by # e.by} \union {e}

With(e) ==
  {f \in evaluations : f.cluster # e.cluster \/ f.by # e.by \/ f.decision # e.decision}
    \union {e}

Selecting == {"select_confirmed", "select_early"}

\* The evaluations that come of valid drafts on a category, but for their cluster.
Judgements ==
  [cat \in Categories |->
     {[decision |-> Decision(d, cat), score |-> Score(d), policy |-> Policy(d, cat),
       missing |-> d.missing] : d \in {d \in Drafts : Valid(d, cat)}}]

\* Faulty variant: the cluster is not stored.
EvaluateUnflagged(c) ==
  /\ stage = "evaluating" /\ left > 0 /\ Exists(c)
  /\ \E j \in Judgements[category[c]] :
       evaluations' = With([cluster |-> c, by |-> RoleFor(category[c]), decision |-> j.decision,
                            score |-> j.score, policy |-> j.policy, missing |-> j.missing])
  /\ left' = left - 1
  /\ UNCHANGED <<stage, collect, followup, category, flagged, selected>>

\* (A draft on a cluster that is not of the run, or not of the role's
\* categories, is skipped.)
Evaluate(c) ==
  /\ stage = "evaluating" /\ left > 0 /\ Exists(c)
  /\ \E j \in Judgements[category[c]] :
       /\ evaluations' = With([cluster |-> c, by |-> RoleFor(category[c]), decision |-> j.decision,
                               score |-> j.score, policy |-> j.policy, missing |-> j.missing])
       /\ flagged' = IF j.decision \in Selecting THEN flagged \union {c} ELSE flagged
  /\ left' = left - 1
  /\ UNCHANGED <<stage, collect, followup, category, selected>>

\* The categories that some drafts are not valid for.
Refusable == {cat \in Categories : \E d \in Drafts : ~Valid(d, cat)}

\* A draft that cannot be made valid fails the run.
RefuseDraft(c) ==
  /\ stage = "evaluating" /\ Exists(c)
  /\ category[c] \in Refusable
  /\ stage' = "failed"
  /\ UNCHANGED <<collect, followup, left, category, evaluations, flagged, selected>>

-----------------------------------------------------------------------------
(* The gate *)

\* What an earlier gate selected and what any evaluation selects.
Picked == selected \union {e.cluster : e \in {e \in evaluations : e.decision \in Selecting}}

Writeable(c) ==
  {e \in evaluations : e.cluster = c /\ e.policy \in {"write_now", "write_with_caveat"}}

BestScore(c) == Max({e.score : e \in Writeable(c)})

Available(b) == {c \in Clusters : category[c] = b /\ Writeable(c) # {}}

\* The best cluster of a bucket, among equals the last.
First(b) ==
  CHOOSE c \in Available(b) : \A a \in Available(b) :
    BestScore(a) < BestScore(c) \/ (BestScore(a) = BestScore(c) /\ a <= c)

\* Faulty variant: buckets are covered only when no cluster is selected otherwise.
AddedAsFallback ==
  {First(b) : b \in {b \in Buckets : /\ Available(b) # {} /\ Picked = {}
                                     /\ BestScore(First(b)) >= CoverageMin}}

\* The best cluster of each bucket that has one and none of its own selected.
Added ==
  {First(b) : b \in {b \in Buckets : /\ Available(b) # {}
                                     /\ Picked \intersect Available(b) = {}
                                     /\ BestScore(First(b)) >= CoverageMin}}

Chosen == Picked \union Added

OfChosen == UNION {{e \in evaluations : e.cluster = c} : c \in Chosen}

Total(S) == MapThenSumSet(LAMBDA e : e.score, S)

\* Their average or their lowest score is under its threshold.
Low ==
  \/ \E e \in OfChosen : e.score < MinSingle
  \/ Total(OfChosen) < MinAverage * Cardinality(OfChosen)

Queries == \E e \in evaluations : e.missing \/ e.decision \in {"followup_now", "followup_later"}

\* What the gate reads of all this.
View ==
  [ picked |-> Cardinality(Picked), covered |-> Cardinality(Added), low |-> Low,
    recluster |-> \E e \in evaluations : e.decision = "recluster", queries |-> Queries ]

Outcome == CollectOutcome(View, collect, followup)

\* Faulty variant: the clusters added to cover the buckets are not selected.
EnterWritingUncovered ==
  /\ stage' = "writing" /\ selected' = Picked /\ flagged' = flagged \union Picked
  /\ UNCHANGED <<collect, followup, left>>

EnterWriting ==
  /\ stage' = "writing" /\ selected' = Chosen /\ flagged' = flagged \union Chosen
  /\ UNCHANGED <<collect, followup, left>>

NextRound ==
  /\ stage' = "clustering" /\ left' = MaxJudgements
  /\ UNCHANGED <<flagged, selected>>

Gate ==
  /\ stage = "evaluating"
  /\ CASE Outcome = "enter_writing" -> EnterWriting
       [] Outcome = "followup_now" -> NextRound /\ followup' = followup + 1 /\ UNCHANGED collect
       [] Outcome \in {"recluster", "continue_collecting"} ->
            NextRound /\ collect' = collect + 1 /\ UNCHANGED followup
       [] OTHER -> stage' = "stopped" /\ UNCHANGED <<collect, followup, left, flagged, selected>>
  /\ UNCHANGED <<category, evaluations>>

\* A review reopens the collection while a round is left.
Reopen ==
  /\ stage = "writing" /\ collect < MaxCollectRounds
  /\ NextRound /\ collect' = collect + 1
  /\ UNCHANGED <<followup, category, evaluations>>

-----------------------------------------------------------------------------
Next ==
  \/ EndClustering \/ Gate \/ Reopen
  \/ \E c \in Clusters : StoreCluster(c) \/ Evaluate(c) \/ RefuseDraft(c)

Spec == Init /\ [][Next]_vars

-----------------------------------------------------------------------------
(* Safety *)

\* When the writing begins, each bucket that has a cluster worth writing has a
\* selected one: by the categories clusters have now, whatever they had before.
BucketsCovered ==
  stage = "writing" =>
    \A b \in Buckets :
      (\E c \in Available(b) : BestScore(c) >= CoverageMin) => Available(b) \intersect selected # {}

\* The two records of what is selected agree: the clusters stored as selected are
\* those the run names and those an evaluation selects.
SelectionAgrees == flagged = Picked

\* What was once selected, or asked to be clustered anew, remains so at every later
\* gate: later judgements and categories do not take it back.
DecisionsStay ==
  [][/\ Picked \subseteq Picked'
     /\ {e.cluster : e \in {e \in evaluations : e.decision = "recluster"}}
          \subseteq {e.cluster : e \in {e \in evaluations' : e.decision = "recluster"}}]_vars

\* What the gate reads changes as the run harness supposes of a whole round of tasks:
\* clustering changes what covers the buckets and, with it, whether scores are low;
\* evaluating only adds to what is picked and to the wish to recluster; entering the
\* writing selects just what covers the buckets, and nothing is then left to cover.
KeepsView ==
  [][CASE stage = "clustering" -> View' \in Clustered(View, NumClusters)
       [] stage = "evaluating" -> IF stage' = "writing" THEN View' = WithCoverage(View)
                                  ELSE View' \in Evaluated(View, NumClusters)
       [] OTHER -> View' = View]_vars
=============================================================================
