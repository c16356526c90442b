--------------------------- MODULE Selection_proofs ---------------------------
(***************************************************************************)
(* Theorems about Selection, for any number of clusters, any scores and    *)
(* decisions of the agents and any thresholds.  BucketsCovered needs that  *)
(* the best cluster of a bucket exists (BestOfBucket): scores and numbers  *)
(* of clusters are bounded, so a nonempty set of them has a greatest.      *)
(***************************************************************************)
EXTENDS Selection, FiniteSetTheorems, WellFoundedInduction, TLAPS

-----------------------------------------------------------------------------
(* Helpers *)

LEMMA LeastOfNat ==
  ASSUME NEW T \in SUBSET Nat, T # {}
  PROVE  \E x \in T : \A y \in T : x <= y
<1> DEFINE R == OpToRel(<, Nat)
<1>1. IsWellFoundedOn(R, Nat)
  BY NatLessThanWellFounded
<1>2. PICK x \in T : \A y \in T : <<y, x>> \notin R
  <2> HIDE DEF R
  <2> QED
    BY <1>1, WFMin
<1>3. \A y \in T : y < x => <<y, x>> \in R
  BY DEF OpToRel
<1> HIDE DEF R
<1>4. \A y \in T : ~(y < x)
  BY <1>2, <1>3
<1> QED
  BY <1>4

\* A nonempty set of numbers with a bound has a greatest.
LEMMA GreatestBelow ==
  ASSUME NEW n \in Nat, NEW T \in SUBSET (0..n), T # {}
  PROVE  \E x \in T : \A y \in T : y <= x
<1> DEFINE U == {n - x : x \in T}
<1>1. U \in SUBSET Nat /\ U # {}
  <2>1. \A x \in T : n - x \in Nat
    OBVIOUS
  <2> QED
    BY <2>1
<1>2. PICK u \in U : \A v \in U : u <= v
  <2> HIDE DEF U
  <2> QED
    BY <1>1, LeastOfNat
<1>3. PICK x \in T : u = n - x
  BY <1>2
<1>4. \A y \in T : n - x <= n - y
  BY <1>2, <1>3
<1>5. \A y \in T : y <= x
  BY <1>4
<1> QED
  BY <1>5

LEMMA GreatestIsMax ==
  ASSUME NEW n \in Nat, NEW T \in SUBSET (0..n), T # {}
  PROVE  Max(T) \in T /\ \A y \in T : y <= Max(T)
<1>1. \E x \in T : \A y \in T : x >= y
  BY GreatestBelow
<1> QED
  BY <1>1 DEF Max

LEMMA BestScores ==
  ASSUME TypeOK, NEW b, NEW c \in Available(b)
  PROVE  BestScore(c) \in 0..10
<1> DEFINE S == {e.score : e \in Writeable(c)}
<1>1. S \in SUBSET (0..10) /\ S # {}
  BY DEF Writeable, TypeOK, AllEvaluations, Available
<1>2. Max(S) \in S
  <2> HIDE DEF S
  <2> QED
    BY <1>1, GreatestIsMax
<1> QED
  BY <1>1, <1>2 DEF BestScore

\* What a bucket has to offer: the scores of its clusters are known and one of them is
\* the best, among equals the last.
LEMMA BestOfBucket ==
  ASSUME TypeOK, NEW b, Available(b) # {}
  PROVE  /\ First(b) \in Available(b)
         /\ \A c \in Available(b) : BestScore(c) <= BestScore(First(b))
<1> DEFINE A == Available(b)
<1>1. A \in SUBSET Clusters
  BY DEF Available
<1>2. \A c \in A : BestScore(c) \in 0..10
  BY BestScores
<1> DEFINE Scores == {BestScore(c) : c \in A}
<1>3. Scores \in SUBSET (0..10) /\ Scores # {}
  BY <1>2
<1>4. PICK best \in Scores : \A s \in Scores : s <= best
  <2> HIDE DEF Scores
  <2> QED
    BY <1>3, GreatestBelow
<1> DEFINE Bests == {c \in A : BestScore(c) = best}
<1>5. Bests \in SUBSET (0..NumClusters) /\ Bests # {}
  BY <1>1, <1>4, SelectionAssumption DEF Clusters
<1>6. PICK last \in Bests : \A c \in Bests : c <= last
  <2> HIDE DEF Bests
  <2> QED
    BY <1>5, GreatestBelow, SelectionAssumption
<1>7. \A a \in A : BestScore(a) < BestScore(last) \/ (BestScore(a) = BestScore(last) /\ a <= last)
  <2> SUFFICES ASSUME NEW a \in A
               PROVE  BestScore(a) < BestScore(last) \/ (BestScore(a) = BestScore(last) /\ a <= last)
    OBVIOUS
  <2>1. /\ BestScore(a) <= best /\ BestScore(a) \in 0..10
        /\ BestScore(last) = best /\ BestScore(last) \in 0..10
    BY <1>2, <1>4, <1>6
  <2>2. BestScore(a) = best => a <= last
    BY <1>6
  <2> QED
    BY <2>1, <2>2
<1>8. last \in A
  BY <1>6
<1>9. /\ First(b) \in A
      /\ \A a \in A : \/ BestScore(a) < BestScore(First(b))
                      \/ BestScore(a) = BestScore(First(b)) /\ a <= First(b)
  <2> HIDE DEF A
  <2>1. First(b) = CHOOSE c \in A : \A a \in A :
                     BestScore(a) < BestScore(c) \/ (BestScore(a) = BestScore(c) /\ a <= c)
    BY DEF First, A
  <2> QED
    BY <1>7, <1>8, <2>1
<1> QED
  BY <1>2, <1>9

-----------------------------------------------------------------------------
(* Evaluations *)

\* What the evaluators' drafts become.
LEMMA JudgementTypes ==
  ASSUME NEW cat \in Categories, NEW j \in Judgements[cat]
  PROVE  j.decision \in AllDecisions /\ j.score \in 0..10 /\ j.policy \in Policies
         /\ j.missing \in BOOLEAN
<1>1. PICK d \in Drafts : /\ Valid(d, cat)
                          /\ j = [decision |-> Decision(d, cat), score |-> Score(d),
                                  policy |-> Policy(d, cat), missing |-> d.missing]
  BY DEF Judgements
<1>2. Decision(d, cat) \in AllDecisions
  <2>1. d.decision \in AllDecisions
    BY SelectionAssumption DEF Drafts
  <2> QED
    BY <2>1 DEF Decision, AllDecisions
<1>3. Score(d) \in 0..10
  BY <1>1 DEF Valid
<1>4. Policy(d, cat) \in Policies
  BY DEF Policy, Policies
<1>5. d.missing \in BOOLEAN
  BY DEF Drafts
<1> QED
  BY <1>1, <1>2, <1>3, <1>4, <1>5

\* A new evaluation replaces at most the one with its key.
LEMMA WithOne ==
  ASSUME TypeOK, NEW e \in AllEvaluations
  PROVE  /\ With(e) \in SUBSET AllEvaluations /\ e \in With(e)
         /\ \A f, g \in With(e) :
              f.cluster = g.cluster /\ f.by = g.by /\ f.decision = g.decision => f = g
         /\ \A f \in evaluations : f \in With(e) \/ (f.cluster = e.cluster /\ f.decision = e.decision)
         /\ \A f \in With(e) : f \in evaluations \/ f = e
<1>1. With(e) \in SUBSET AllEvaluations
  BY DEF With, TypeOK
<1>2. e \in With(e) /\ \A f \in With(e) : f \in evaluations \/ f = e
  BY DEF With
<1>3. \A f \in evaluations :
        f \in With(e) \/ (f.cluster = e.cluster /\ f.by = e.by /\ f.decision = e.decision)
  BY DEF With
<1>4. \A f \in With(e) :
        f = e \/ ~(f.cluster = e.cluster /\ f.by = e.by /\ f.decision = e.decision)
  BY DEF With
<1>5. ASSUME NEW f \in With(e), NEW g \in With(e),
             f.cluster = g.cluster, f.by = g.by, f.decision = g.decision
      PROVE  f = g
  <2>1. CASE f \in evaluations /\ g \in evaluations
    BY <1>5, <2>1 DEF TypeOK
  <2>2. CASE f = e \/ g = e
    BY <1>4, <1>5, <2>2
  <2> QED
    BY <1>2, <2>1, <2>2
<1>6. \A f, g \in With(e) :
        f.cluster = g.cluster /\ f.by = g.by /\ f.decision = g.decision => f = g
  BY <1>5
<1>7. \A f \in evaluations : f \in With(e) \/ (f.cluster = e.cluster /\ f.decision = e.decision)
  BY <1>3
<1> QED
  BY <1>1, <1>2, <1>6, <1>7

\* What a step of an evaluator does.
LEMMA EvaluateStep ==
  ASSUME TypeOK, NEW c \in Clusters, Evaluate(c)
  PROVE  \E e \in AllEvaluations :
           /\ e.cluster = c /\ evaluations' = With(e)
           /\ flagged' = IF e.decision \in Selecting THEN flagged \union {c} ELSE flagged
           /\ UNCHANGED <<stage, collect, followup, category, selected>>
<1>1. category[c] \in Categories
  BY DEF Evaluate, Exists, TypeOK
<1>2. PICK j \in Judgements[category[c]] :
        /\ evaluations' = With([cluster |-> c, by |-> RoleFor(category[c]),
                                decision |-> j.decision, score |-> j.score,
                                policy |-> j.policy, missing |-> j.missing])
        /\ flagged' = IF j.decision \in Selecting THEN flagged \union {c} ELSE flagged
  BY DEF Evaluate
<1>3. RoleFor(category[c]) \in Roles
  BY <1>1 DEF RoleFor, Roles, Categories, Buckets
<1> DEFINE e == [cluster |-> c, by |-> RoleFor(category[c]), decision |-> j.decision,
                 score |-> j.score, policy |-> j.policy, missing |-> j.missing]
<1>4. e \in AllEvaluations
  BY <1>1, <1>3, JudgementTypes DEF AllEvaluations
<1>5. e.cluster = c /\ e.decision = j.decision
  OBVIOUS
<1>6. UNCHANGED <<stage, collect, followup, category, selected>>
  BY DEF Evaluate
<1>7. evaluations' = With(e)
  BY <1>2
<1> HIDE DEF e
<1> QED
  BY <1>2, <1>4, <1>5, <1>6, <1>7

-----------------------------------------------------------------------------
(* The gate *)

\* A gate goes on only while a round of the kind is left.
LEMMA RoundsLeft ==
  /\ Outcome = "followup_now" => followup < MaxFollowupRounds
  /\ Outcome \in {"recluster", "continue_collecting"} => collect < MaxCollectRounds
  BY DEF Outcome, View, CollectOutcome, FailureOutcome

LEMMA ChosenClusters == TypeOK => Chosen \in SUBSET Clusters
<1> SUFFICES ASSUME TypeOK PROVE Chosen \in SUBSET Clusters
  OBVIOUS
<1>1. Picked \in SUBSET Clusters
  BY DEF Picked, TypeOK, AllEvaluations
<1>2. \A b : Available(b) # {} => First(b) \in Clusters
  BY BestOfBucket DEF Available
<1>3. Added \in SUBSET Clusters
  BY <1>2 DEF Added
<1> QED
  BY <1>1, <1>3 DEF Chosen

IInv == TypeOK /\ SelectionAgrees /\ BucketsCovered

LEMMA InitInv == Init => IInv
  BY SelectionAssumption, GateAssumption
     DEF Init, IInv, TypeOK, SelectionAgrees, Picked, BucketsCovered

LEMMA TypeStep == TypeOK /\ [Next]_vars => TypeOK'
<1> SUFFICES ASSUME TypeOK, [Next]_vars PROVE TypeOK'
  OBVIOUS
<1> USE SelectionAssumption, GateAssumption
<1>1. ASSUME NEW c \in Clusters, StoreCluster(c) PROVE TypeOK'
  BY <1>1 DEF StoreCluster, TypeOK
<1>2. ASSUME EndClustering PROVE TypeOK'
  BY <1>2 DEF EndClustering, TypeOK
<1>3. ASSUME NEW c \in Clusters, Evaluate(c) PROVE TypeOK'
  <2>1. PICK e \in AllEvaluations :
           /\ e.cluster = c /\ evaluations' = With(e)
           /\ flagged' = IF e.decision \in Selecting THEN flagged \union {c} ELSE flagged
           /\ UNCHANGED <<stage, collect, followup, category, selected>>
    BY <1>3, EvaluateStep
  <2>2. left' \in 0..MaxJudgements
    BY <1>3 DEF Evaluate, TypeOK
  <2>3. /\ evaluations' \in SUBSET AllEvaluations
        /\ \A f, g \in evaluations' :
             f.cluster = g.cluster /\ f.by = g.by /\ f.decision = g.decision => f = g
    BY <2>1, WithOne
  <2> QED
    BY <2>1, <2>2, <2>3 DEF TypeOK
<1>4. ASSUME NEW c \in Clusters, RefuseDraft(c) PROVE TypeOK'
  BY <1>4 DEF RefuseDraft, TypeOK
<1>5. ASSUME Gate PROVE TypeOK'
  <2>1. UNCHANGED <<category, evaluations>>
    BY <1>5 DEF Gate
  <2>2. Chosen \in SUBSET Clusters
    BY ChosenClusters
  <2>3. /\ stage' \in {"clustering", "writing", "stopped"}
        /\ collect' \in 0..MaxCollectRounds /\ followup' \in 0..MaxFollowupRounds
        /\ left' \in 0..MaxJudgements
        /\ selected' \in {selected, Chosen} /\ flagged' \in {flagged, flagged \union Chosen}
    BY <1>5, RoundsLeft DEF Gate, EnterWriting, NextRound, TypeOK
  <2> QED
    BY <2>1, <2>2, <2>3 DEF TypeOK
<1>6. ASSUME Reopen PROVE TypeOK'
  BY <1>6 DEF Reopen, NextRound, TypeOK
<1>7. ASSUME UNCHANGED vars PROVE TypeOK'
  BY <1>7 DEF vars, TypeOK
<1> QED
  BY <1>1, <1>2, <1>3, <1>4, <1>5, <1>6, <1>7 DEF Next

\* An evaluation that is stored adds its cluster to what evaluations pick, if it selects,
\* and takes nothing back.
LEMMA PickedAfter ==
  ASSUME TypeOK, NEW e \in AllEvaluations, evaluations' = With(e), UNCHANGED selected
  PROVE  Picked' = IF e.decision \in Selecting THEN Picked \union {e.cluster} ELSE Picked
<1> DEFINE P == {f.cluster : f \in {f \in evaluations : f.decision \in Selecting}}
           Q == {f.cluster : f \in {f \in With(e) : f.decision \in Selecting}}
<1>1. P \subseteq Q
  <2> SUFFICES ASSUME NEW f \in evaluations, f.decision \in Selecting PROVE f.cluster \in Q
    OBVIOUS
  <2>1. CASE f \in With(e)
    BY <2>1
  <2>2. CASE f.cluster = e.cluster /\ f.decision = e.decision
    BY <2>2, WithOne
  <2> QED
    BY <2>1, <2>2, WithOne
<1>2. Q \subseteq P \union {e.cluster} /\ (e.decision \notin Selecting => Q \subseteq P)
  BY WithOne
<1>3. e.decision \in Selecting => e.cluster \in Q
  BY WithOne
<1>4. Picked = selected \union P /\ Picked' = selected \union Q
  BY DEF Picked
<1> HIDE DEF P, Q
<1> QED
  BY <1>1, <1>2, <1>3, <1>4

LEMMA AgreeStep == TypeOK /\ SelectionAgrees /\ [Next]_vars => SelectionAgrees'
<1> SUFFICES ASSUME TypeOK, SelectionAgrees, [Next]_vars PROVE SelectionAgrees'
  OBVIOUS
<1>1. ASSUME UNCHANGED <<evaluations, flagged, selected>> PROVE SelectionAgrees'
  BY <1>1 DEF SelectionAgrees, Picked
<1>2. ASSUME NEW c \in Clusters, Evaluate(c) PROVE SelectionAgrees'
  <2>1. PICK e \in AllEvaluations :
           /\ e.cluster = c /\ evaluations' = With(e)
           /\ flagged' = IF e.decision \in Selecting THEN flagged \union {c} ELSE flagged
           /\ UNCHANGED <<stage, collect, followup, category, selected>>
    BY <1>2, EvaluateStep
  <2> QED
    BY <2>1, PickedAfter DEF SelectionAgrees
<1>3. ASSUME Gate, EnterWriting PROVE SelectionAgrees'
  <2>1. UNCHANGED evaluations /\ selected' = Chosen /\ flagged' = flagged \union Chosen
    BY <1>3 DEF Gate, EnterWriting
  <2>2. Picked \subseteq Chosen
    BY DEF Chosen
  <2>3. Picked' = Chosen
    BY <2>1, <2>2 DEF Picked
  <2> QED
    BY <2>1, <2>2, <2>3 DEF SelectionAgrees
<1>4. Gate => EnterWriting \/ UNCHANGED <<evaluations, flagged, selected>>
  BY DEF Gate, NextRound
<1>5. \/ UNCHANGED <<evaluations, flagged, selected>>
      \/ Gate /\ EnterWriting
      \/ \E c \in Clusters : Evaluate(c)
  BY <1>4 DEF Next, vars, EndClustering, Reopen, NextRound, StoreCluster, RefuseDraft
<1> QED
  BY <1>1, <1>2, <1>3, <1>5

\* When the gate lets the writing begin, the best cluster of a bucket is among the
\* selected ones, unless another of the bucket is.
LEMMA CoverStep == TypeOK /\ BucketsCovered /\ [Next]_vars => BucketsCovered'
<1> SUFFICES ASSUME TypeOK, BucketsCovered, [Next]_vars, stage' = "writing",
                    NEW b \in Buckets,
                    \E c \in Available(b)' : BestScore(c)' >= CoverageMin
             PROVE  Available(b)' \intersect selected' # {}
  BY DEF BucketsCovered
<1>1. UNCHANGED vars \/ (Gate /\ EnterWriting)
  BY DEF Next, EndClustering, Gate, NextRound, EnterWriting, Reopen, StoreCluster, Evaluate, RefuseDraft
<1>2. Available(b)' = Available(b) /\ \A c : BestScore(c)' = BestScore(c)
  BY <1>1 DEF vars, Gate, Available, Writeable, BestScore
<1>3. PICK c \in Available(b) : BestScore(c) >= CoverageMin
  BY <1>2
<1>4. CASE UNCHANGED vars
  BY <1>2, <1>3, <1>4 DEF vars, BucketsCovered
<1>5. CASE Gate /\ EnterWriting
  <2>1. selected' = Picked \union Added
    BY <1>5 DEF EnterWriting, Chosen
  <2>2. CASE Picked \intersect Available(b) # {}
    BY <1>2, <2>1, <2>2
  <2>3. CASE Picked \intersect Available(b) = {}
    <3>1. First(b) \in Available(b) /\ BestScore(c) <= BestScore(First(b))
      BY BestOfBucket
    <3>2. \A a \in Available(b) : BestScore(a) \in 0..10
      BY BestScores
    <3>3. BestScore(First(b)) >= CoverageMin
      BY <1>3, <3>1, <3>2, SelectionAssumption
    <3>4. First(b) \in Added
      BY <1>3, <2>3, <3>3 DEF Added
    <3> QED
      BY <1>2, <2>1, <3>1, <3>4
  <2> QED
    BY <2>2, <2>3
<1> QED
  BY <1>1, <1>4, <1>5

-----------------------------------------------------------------------------
(* Theorems *)

THEOREM Invariant == Spec => []IInv
<1>1. IInv /\ [Next]_vars => IInv'
  BY TypeStep, AgreeStep, CoverStep DEF IInv
<1> QED
  BY <1>1, InitInv, PTL DEF Spec

\* Every variable of the selection keeps its type, and no cluster has two evaluations
\* of a role with the same decision.
THEOREM TypeCorrect == Spec => []TypeOK
<1>1. IInv => TypeOK
  BY DEF IInv
<1> QED
  BY <1>1, Invariant, PTL

\* The clusters stored as selected are those the run names and those an evaluation
\* selects (EvaluationMaterializer, CollectQualityGate).
THEOREM SelectionsAgree == Spec => []SelectionAgrees
<1>1. IInv => SelectionAgrees
  BY DEF IInv
<1> QED
  BY <1>1, Invariant, PTL

\* When the writing begins, each bucket with a cluster worth writing has a selected one
\* (_report_coverage_evaluations).
THEOREM CoverageHolds == Spec => []BucketsCovered
<1>1. IInv => BucketsCovered
  BY DEF IInv
<1> QED
  BY <1>1, Invariant, PTL

LEMMA StayStep ==
  ASSUME TypeOK, [Next]_vars
  PROVE  /\ Picked \subseteq Picked'
         /\ {e.cluster : e \in {e \in evaluations : e.decision = "recluster"}}
              \subseteq {e.cluster : e \in {e \in evaluations' : e.decision = "recluster"}}
<1>1. CASE UNCHANGED evaluations
  <2>1. selected \subseteq selected'
    BY DEF Next, vars, EndClustering, Gate, EnterWriting, NextRound, Chosen, Picked, Reopen,
           StoreCluster, Evaluate, RefuseDraft
  <2> QED
    BY <1>1, <2>1 DEF Picked
<1>2. CASE \E c \in Clusters : Evaluate(c)
  <2>1. PICK c \in Clusters : Evaluate(c)
    BY <1>2
  <2>2. PICK e \in AllEvaluations : evaluations' = With(e) /\ UNCHANGED selected
    BY <2>1, EvaluateStep
  <2>3. Picked \subseteq Picked'
    BY <2>2, PickedAfter
  <2>4. ASSUME NEW f \in evaluations, f.decision = "recluster"
        PROVE  \E g \in evaluations' : g.decision = "recluster" /\ g.cluster = f.cluster
    BY <2>2, <2>4, WithOne
  <2> QED
    BY <2>3, <2>4
<1>3. UNCHANGED evaluations \/ \E c \in Clusters : Evaluate(c)
  BY DEF Next, vars, EndClustering, Gate, Reopen, StoreCluster, RefuseDraft
<1> QED
  BY <1>1, <1>2, <1>3

\* Later judgements and categories take back neither a selection nor the wish to have a
\* cluster clustered anew (the id of an evaluation is made of its decision).
THEOREM DecisionsAreKept == Spec => DecisionsStay
<1>1. IInv /\ [Next]_vars =>
        /\ Picked \subseteq Picked'
        /\ {e.cluster : e \in {e \in evaluations : e.decision = "recluster"}}
             \subseteq {e.cluster : e \in {e \in evaluations' : e.decision = "recluster"}}
  BY StayStep DEF IInv
<1> QED
  BY <1>1, Invariant, PTL DEF Spec, DecisionsStay

-----------------------------------------------------------------------------
(* What the gate reads *)

LEMMA CountClusters ==
  ASSUME NEW S \in SUBSET Clusters, NEW T \in SUBSET Clusters
  PROVE  /\ Cardinality(S) \in Nat /\ Cardinality(S) <= NumClusters
         /\ S \subseteq T => Cardinality(S) <= Cardinality(T)
         /\ S \intersect T = {} =>
              /\ Cardinality(S \union T) = Cardinality(S) + Cardinality(T)
              /\ Cardinality(S) + Cardinality(T) <= NumClusters
<1>1. IsFiniteSet(Clusters) /\ Cardinality(Clusters) = NumClusters
  BY FS_Interval, SelectionAssumption DEF Clusters
<1>2. \A U \in SUBSET Clusters :
        IsFiniteSet(U) /\ Cardinality(U) \in Nat /\ Cardinality(U) <= NumClusters
  BY <1>1, FS_Subset, FS_CardinalityType
<1>3. ASSUME S \subseteq T PROVE Cardinality(S) <= Cardinality(T)
  BY <1>2, <1>3, FS_Subset
<1>4. ASSUME S \intersect T = {}
      PROVE  /\ Cardinality(S \union T) = Cardinality(S) + Cardinality(T)
             /\ Cardinality(S) + Cardinality(T) <= NumClusters
  <2>1. /\ IsFiniteSet(S) /\ Cardinality(S) \in Nat
        /\ IsFiniteSet(T) /\ Cardinality(T) \in Nat /\ Cardinality({}) = 0
    BY <1>2, FS_EmptySet
  <2>2. Cardinality(S \union T) = Cardinality(S) + Cardinality(T) - Cardinality(S \intersect T)
    BY <2>1, FS_Union
  <2>3. Cardinality(S \intersect T) = 0
    BY <1>4, <2>1
  <2>4. Cardinality(S \union T) = Cardinality(S) + Cardinality(T)
    BY <2>1, <2>2, <2>3
  <2> QED
    BY <1>2, <2>4
<1> QED
  BY <1>2, <1>3, <1>4

\* A cluster that covers a bucket is one of the run, and no selected one.
LEMMA AddedUnpicked ==
  TypeOK => Picked \in SUBSET Clusters /\ Added \in SUBSET Clusters /\ Picked \intersect Added = {}
<1> SUFFICES ASSUME TypeOK
             PROVE  /\ Picked \in SUBSET Clusters /\ Added \in SUBSET Clusters
                    /\ Picked \intersect Added = {}
  OBVIOUS
<1>1. Picked \in SUBSET Clusters /\ Added \in SUBSET Clusters
  BY ChosenClusters DEF Chosen
<1>2. \A b : Available(b) # {} => First(b) \in Available(b)
  BY BestOfBucket
<1>3. Picked \intersect Added = {}
  BY <1>2 DEF Added
<1> QED
  BY <1>1, <1>3

Fits(e) == e \in Evaluations /\ e.picked + e.covered <= NumClusters

LEMMA ViewType == TypeOK => Fits(View)
<1> SUFFICES ASSUME TypeOK PROVE Fits(View)
  OBVIOUS
<1>1. /\ Cardinality(Picked) \in Nat /\ Cardinality(Added) \in Nat
      /\ Cardinality(Picked) + Cardinality(Added) <= NumClusters
  BY AddedUnpicked, CountClusters
<1>2. Low \in BOOLEAN
  BY DEF Low
<1>3. Queries \in BOOLEAN /\ (\E e \in evaluations : e.decision = "recluster") \in BOOLEAN
  BY DEF Queries
<1> QED
  BY <1>1, <1>2, <1>3 DEF View, Fits, Evaluations

\* Clustering leaves the evaluations alone, and so what they pick and ask for.
LEMMA ViewOfClustering ==
  ASSUME TypeOK, TypeOK', UNCHANGED <<evaluations, selected>>
  PROVE  View' \in Clustered(View, NumClusters)
<1>1. Picked' = Picked /\ Queries' = Queries
  BY DEF Picked, Queries
<1>2. Fits(View) /\ Fits(View)'
  <2>1. (TypeOK => Fits(View))'
    BY ViewType, PTL
  <2> QED
    BY <2>1, ViewType
<1>3. View'.picked = View.picked /\ View'.recluster = View.recluster
      /\ View'.queries = View.queries
  BY <1>1 DEF View
<1>4. View' = [picked |-> View'.picked, covered |-> View'.covered, low |-> View'.low,
               recluster |-> View'.recluster, queries |-> View'.queries]
  BY DEF View
<1> HIDE DEF View
<1>5. View'.covered \in 0..(NumClusters - View.picked) /\ View'.low \in BOOLEAN
  BY <1>2, <1>3, SelectionAssumption DEF Fits, Evaluations
<1> QED
  BY <1>3, <1>4, <1>5 DEF Clustered

\* An evaluation adds to what is picked, and takes no wish to recluster back.
LEMMA ViewOfEvaluating ==
  ASSUME TypeOK, TypeOK', Picked \subseteq Picked',
         {e.cluster : e \in {e \in evaluations : e.decision = "recluster"}}
           \subseteq {e.cluster : e \in {e \in evaluations' : e.decision = "recluster"}}
  PROVE  View' \in Evaluated(View, NumClusters)
<1>1. View.picked <= View'.picked
  <2>1. (TypeOK => Picked \in SUBSET Clusters)'
    BY AddedUnpicked, PTL
  <2>2. Picked \in SUBSET Clusters /\ Picked' \in SUBSET Clusters
    BY <2>1, AddedUnpicked
  <2>3. Cardinality(Picked) <= Cardinality(Picked')
    BY <2>2, CountClusters
  <2> QED
    BY <2>3 DEF View
<1>2. View.recluster => View'.recluster
  BY DEF View
<1>3. Fits(View) /\ Fits(View)'
  <2>1. (TypeOK => Fits(View))'
    BY ViewType, PTL
  <2> QED
    BY <2>1, ViewType
<1>4. View' \in [picked : View.picked..NumClusters, covered : 0..NumClusters, low : BOOLEAN,
                 recluster : {TRUE, View.recluster}, queries : BOOLEAN]
  <2> HIDE DEF View
  <2>1. View' \in Evaluations /\ View \in Evaluations /\ View'.picked + View'.covered <= NumClusters
    BY <1>3 DEF Fits
  <2>2. View'.picked \in View.picked..NumClusters /\ View'.covered \in 0..NumClusters
    BY <1>1, <2>1, SelectionAssumption DEF Evaluations
  <2>3. View'.recluster \in {TRUE, View.recluster}
    BY <1>2, <2>1 DEF Evaluations
  <2> QED
    BY <2>1, <2>2, <2>3 DEF Evaluations
<1> QED
  BY <1>3, <1>4 DEF Evaluated, Fits

\* Once the clusters that cover the buckets are selected, too, nothing is left to cover and
\* what is selected has the same scores.
LEMMA ViewOfWriting ==
  ASSUME TypeOK, UNCHANGED <<category, evaluations>>, selected' = Chosen
  PROVE  View' = WithCoverage(View)
<1>1. Picked' = Chosen
  BY DEF Picked, Chosen
<1>2. \A b : /\ Available(b)' = Available(b) /\ First(b)' = First(b)
            /\ BestScore(First(b))' = BestScore(First(b))
  BY DEF Available, First, BestScore, Writeable
<1>3. Added' = {}
  <2> SUFFICES ASSUME NEW b \in Buckets, Available(b) # {}, Chosen \intersect Available(b) = {},
                      BestScore(First(b)) >= CoverageMin
               PROVE  FALSE
    BY <1>1, <1>2 DEF Added
  <2>1. First(b) \in Available(b)
    BY BestOfBucket
  <2>2. First(b) \in Added
    BY DEF Added, Chosen
  <2> QED
    BY <2>1, <2>2 DEF Chosen
<1>4. Chosen' = Chosen
  BY <1>1, <1>3 DEF Chosen
<1>5. Low' = Low
  BY <1>4 DEF Low, OfChosen
<1>6. Cardinality(Picked)' = Cardinality(Picked) + Cardinality(Added)
  BY <1>1, AddedUnpicked, CountClusters DEF Chosen
<1>7. Cardinality(Added)' = 0
  BY <1>3, FS_EmptySet
<1>8. UNCHANGED <<Queries, \E e \in evaluations : e.decision = "recluster">>
  BY DEF Queries
<1>9. /\ View'.picked = View.picked + View.covered /\ View'.covered = 0
      /\ View'.low = View.low /\ View'.recluster = View.recluster
      /\ View'.queries = View.queries
  BY <1>5, <1>6, <1>7, <1>8 DEF View
<1>10. View' = [picked |-> View'.picked, covered |-> View'.covered, low |-> View'.low,
                recluster |-> View'.recluster, queries |-> View'.queries]
  BY DEF View
<1>11. Fits(View)
  BY ViewType
<1> HIDE DEF View
<1> QED
  BY <1>9, <1>10, <1>11 DEF Fits, Evaluations, WithCoverage

LEMMA ViewStays ==
  UNCHANGED <<category, evaluations, selected>> => View' = View
  BY DEF View, Picked, Added, Available, First, BestScore, Writeable, Low, OfChosen, Chosen, Queries

LEMMA ViewStep ==
  ASSUME TypeOK, TypeOK', [Next]_vars
  PROVE  CASE stage = "clustering" -> View' \in Clustered(View, NumClusters)
           [] stage = "evaluating" -> IF stage' = "writing" THEN View' = WithCoverage(View)
                                      ELSE View' \in Evaluated(View, NumClusters)
           [] OTHER -> View' = View
<1>1. CASE stage = "clustering"
  <2>1. UNCHANGED <<evaluations, selected>>
    BY <1>1 DEF Next, vars, EndClustering, Gate, Reopen, StoreCluster, Evaluate, RefuseDraft
  <2> QED
    BY <1>1, <2>1, ViewOfClustering
<1>2. CASE stage = "evaluating" /\ stage' = "writing"
  <2>1. Gate /\ EnterWriting
    BY <1>2 DEF Next, vars, EndClustering, Gate, EnterWriting, NextRound, Reopen, StoreCluster,
                Evaluate, RefuseDraft
  <2>2. UNCHANGED <<category, evaluations>> /\ selected' = Chosen
    BY <2>1 DEF Gate, EnterWriting
  <2> QED
    BY <1>2, <2>2, ViewOfWriting
<1>3. CASE stage = "evaluating" /\ stage' # "writing"
  BY <1>3, StayStep, ViewOfEvaluating
<1>4. CASE stage \notin {"clustering", "evaluating"}
  <2>1. UNCHANGED <<category, evaluations, selected>>
    BY <1>4 DEF Next, vars, EndClustering, Gate, Reopen, NextRound, StoreCluster, Evaluate, RefuseDraft
  <2> QED
    BY <1>4, <2>1, ViewStays
<1> QED
  BY <1>1, <1>2, <1>3, <1>4

\* Every step of the selection changes what the gate reads only as RunHarness lets the
\* tasks of its phase, and its gate, change it (Clustered, Evaluated, WithCoverage).
THEOREM ViewIsKept == Spec => KeepsView
<1>1. IInv /\ IInv' /\ [Next]_vars =>
        CASE stage = "clustering" -> View' \in Clustered(View, NumClusters)
          [] stage = "evaluating" -> IF stage' = "writing" THEN View' = WithCoverage(View)
                                     ELSE View' \in Evaluated(View, NumClusters)
          [] OTHER -> View' = View
  BY ViewStep DEF IInv
<1> QED
  BY <1>1, Invariant, PTL DEF Spec, KeepsView

\* The steps of a phase add up: any number of them, none included, is again what
\* RunHarness takes as the one step of its tasks.
THEOREM PhasesAddUp ==
  ASSUME NEW e, Fits(e)
  PROVE  /\ e \in Clustered(e, NumClusters) /\ e \in Evaluated(e, NumClusters)
         /\ \A f \in Clustered(e, NumClusters) :
              Fits(f) /\ Clustered(f, NumClusters) \subseteq Clustered(e, NumClusters)
         /\ \A f \in Evaluated(e, NumClusters) :
              Fits(f) /\ Evaluated(f, NumClusters) \subseteq Evaluated(e, NumClusters)
<1> USE SelectionAssumption
<1>1. /\ e.picked \in Nat /\ e.covered \in Nat /\ e.picked + e.covered <= NumClusters
      /\ e.low \in BOOLEAN /\ e.recluster \in BOOLEAN /\ e.queries \in BOOLEAN
      /\ e = [picked |-> e.picked, covered |-> e.covered, low |-> e.low,
              recluster |-> e.recluster, queries |-> e.queries]
  BY DEF Fits, Evaluations
<1>2. e \in Clustered(e, NumClusters)
  BY <1>1 DEF Clustered
<1>3. e \in Evaluated(e, NumClusters)
  BY <1>1 DEF Evaluated
<1>4. ASSUME NEW f \in Clustered(e, NumClusters)
      PROVE  Fits(f) /\ Clustered(f, NumClusters) \subseteq Clustered(e, NumClusters)
  <2>1. /\ f.picked = e.picked /\ f.covered \in 0..(NumClusters - e.picked)
        /\ f.low \in BOOLEAN /\ f.recluster = e.recluster /\ f.queries = e.queries
    BY DEF Clustered
  <2>2. f \in Evaluations
    BY <1>1, <2>1 DEF Clustered, Evaluations
  <2> QED
    BY <1>1, <2>1, <2>2 DEF Fits, Clustered
<1>5. ASSUME NEW f \in Evaluated(e, NumClusters)
      PROVE  Fits(f) /\ Evaluated(f, NumClusters) \subseteq Evaluated(e, NumClusters)
  <2>1. /\ f.picked \in e.picked..NumClusters /\ f.recluster \in {TRUE, e.recluster}
        /\ f.picked + f.covered <= NumClusters
    BY DEF Evaluated
  <2>2. f \in Evaluations
    <3>1. f \in [picked : e.picked..NumClusters, covered : 0..NumClusters, low : BOOLEAN,
                 recluster : {TRUE, e.recluster}, queries : BOOLEAN]
      BY DEF Evaluated
    <3>2. e.picked..NumClusters \subseteq Nat /\ 0..NumClusters \subseteq Nat
          /\ {TRUE, e.recluster} \subseteq BOOLEAN
      BY <1>1
    <3> QED
      BY <3>1, <3>2 DEF Evaluations
  <2>3. \A x \in f.picked..NumClusters : x \in e.picked..NumClusters
    <3>1. f.picked \in Nat /\ e.picked \in Nat /\ e.picked <= f.picked
      BY <1>1, <2>1
    <3> QED
      BY <3>1
  <2>4. \A x \in {TRUE, f.recluster} : x \in {TRUE, e.recluster}
    BY <2>1
  <2>5. Fits(f)
    BY <2>1, <2>2 DEF Fits
  <2>6. ASSUME NEW g \in Evaluated(f, NumClusters) PROVE g \in Evaluated(e, NumClusters)
    <3>1. /\ g \in [picked : f.picked..NumClusters, covered : 0..NumClusters, low : BOOLEAN,
                    recluster : {TRUE, f.recluster}, queries : BOOLEAN]
          /\ g.picked + g.covered <= NumClusters
      BY DEF Evaluated
    <3>2. /\ g.picked \in e.picked..NumClusters /\ g.covered \in 0..NumClusters
          /\ g.low \in BOOLEAN /\ g.recluster \in {TRUE, e.recluster} /\ g.queries \in BOOLEAN
      <4>1. g.picked \in f.picked..NumClusters /\ g.recluster \in {TRUE, f.recluster}
        BY <3>1
      <4>2. g.picked \in e.picked..NumClusters
        BY <2>3, <4>1
      <4>3. g.recluster \in {TRUE, e.recluster}
        BY <2>4, <4>1
      <4> QED
        BY <3>1, <4>2, <4>3
    <3>3. g = [picked |-> g.picked, covered |-> g.covered, low |-> g.low,
               recluster |-> g.recluster, queries |-> g.queries]
      BY <3>1
    <3>4. g \in [picked : e.picked..NumClusters, covered : 0..NumClusters, low : BOOLEAN,
                 recluster : {TRUE, e.recluster}, queries : BOOLEAN]
      BY <3>2, <3>3
    <3> QED
      BY <3>1, <3>4 DEF Evaluated
  <2> QED
    BY <2>5, <2>6
<1> QED
  BY <1>2, <1>3, <1>4, <1>5
=============================================================================
