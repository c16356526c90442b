-------------------------- MODULE ReportReview_proofs --------------------------
(***************************************************************************)
(* Theorems about ReportReview, for any clusters, selection and evidence,  *)
(* any drafts of the agents and any bounds.  The repairs make items whose  *)
(* clusters and evidence fit (RepairedItem), and leave an item as it is    *)
(* (ItemsAreFixed).  The rest of the invariant says which reviews and      *)
(* reports there are at each stage of the loop (Started, FailedOnce).      *)
(***************************************************************************)
EXTENDS ReportReview, FiniteSetTheorems, WellFoundedInduction, TLAPS

-----------------------------------------------------------------------------
(* Items *)

LEMMA DraftRecord ==
  ASSUME NEW d \in AllItemDrafts
  PROVE  /\ d = [category |-> d.category, clusters |-> d.clusters, evidence |-> d.evidence,
                 wording |-> d.wording, label |-> d.label, impact |-> d.impact,
                 followups |-> d.followups]
         /\ d.category \in Categories \union {"watch"}
         /\ d.clusters \in SUBSET (Clusters \union {"unknown"})
         /\ d.evidence \in SUBSET (Evidence \union {"unknown"}) /\ d.wording \in Wordings
         /\ d.label \in BOOLEAN /\ d.impact \in BOOLEAN /\ d.followups \in BOOLEAN
  BY DEF AllItemDrafts

LEMMA EvidenceOfSome ==
  ASSUME NEW C \in SUBSET Clusters
  PROVE  EvidenceOfAll(C) \subseteq Evidence
  BY DEF EvidenceOfAll, Evidence

LEMMA AdmittedTypes == Admitted \subseteq AllItemDrafts /\ \A d \in Admitted : ~Unfilled(d)
<1>1. ASSUME NEW d \in ItemDrafts PROVE WithSelectedEvidence(d) \in AllItemDrafts
  <2>1. d \in AllItemDrafts
    BY ReviewAssumption
  <2>2. EvidenceOfAll(d.clusters \intersect Selected) \subseteq Evidence
    BY ReviewAssumption, EvidenceOfSome
  <2> DEFINE found == IF d.evidence = {} THEN EvidenceOfAll(d.clusters \intersect Selected)
                      ELSE d.evidence
  <2>3. found \in SUBSET (Evidence \union {"unknown"})
    BY <2>1, <2>2, DraftRecord
  <2>4. WithSelectedEvidence(d) =
          [category |-> d.category, clusters |-> d.clusters, evidence |-> found,
           wording |-> d.wording, label |-> d.label, impact |-> d.impact,
           followups |-> d.followups]
    BY <2>1, DraftRecord DEF WithSelectedEvidence
  <2> HIDE DEF found
  <2> QED
    BY <2>1, <2>3, <2>4, DraftRecord DEF AllItemDrafts
<1>2. ItemDrafts \subseteq AllItemDrafts
  BY ReviewAssumption
<1> QED
  BY <1>1, <1>2 DEF Admitted, DraftsOf

LEMMA FallbackTypes ==
  /\ FallbackDrafts \subseteq AllItemDrafts
  /\ \A d \in FallbackDrafts : ~Unfilled(d) /\ ~Unknown(d)
<1> SUFFICES ASSUME NEW c \in Selected,
                    NEW d, d = [category |-> CategoryOf[c], clusters |-> {c},
                                evidence |-> EvidenceOf[c], wording |-> ClaimOf[c],
                                label |-> CategoryOf[c] = "signal", impact |-> TRUE,
                                followups |-> TRUE]
             PROVE  d \in AllItemDrafts /\ ~Unfilled(d) /\ ~Unknown(d)
  BY DEF FallbackDrafts
<1>1. c \in Clusters /\ CategoryOf[c] \in Categories /\ ClaimOf[c] \in Wordings
  BY ReviewAssumption
<1>2. EvidenceOf[c] \subseteq Evidence
  BY <1>1 DEF Evidence
<1>3. d \in AllItemDrafts
  BY <1>1, <1>2 DEF AllItemDrafts
<1>4. c # "unknown"
  BY <1>1, ReviewAssumption
<1> QED
  BY <1>3, <1>4 DEF Unfilled, Unknown

\* The category is settled: the clusters that are left have it, and there are some.
LEMMA NormalizedItem ==
  ASSUME NEW d \in AllItemDrafts, ~Unknown(d), NEW n \in Normalized(d)
  PROVE  /\ n \in AllItemDrafts
         /\ n.label = d.label /\ n.impact = d.impact
         /\ d.category = "watch" => n = d
         /\ d.category # "watch" =>
              /\ n.category \in Categories
              /\ n.clusters # {} /\ n.clusters \subseteq Clusters
              /\ \A c \in n.clusters : CategoryOf[c] = n.category
<1>1. CASE d.category = "watch"
  BY <1>1 DEF Normalized
<1>2. CASE d.category # "watch"
  <2>1. d.clusters \subseteq Clusters
    BY <1>2, DraftRecord DEF Unknown
  <2>2. PICK k \in PrimaryCategories(d) :
          n = LET clusters == OfCategory(d, k)
                  theirs   == EvidenceOfAll(clusters)
              IN  IF clusters = d.clusters THEN [d EXCEPT !.category = k]
                  ELSE [d EXCEPT !.category = k, !.clusters = clusters,
                                 !.evidence = IF @ \intersect theirs # {} THEN @ \intersect theirs
                                              ELSE theirs]
    BY <1>2 DEF Normalized
  <2>3. PICK c \in d.clusters : CategoryOf[c] = k
    BY <2>2 DEF PrimaryCategories
  <2>4. k \in Categories
    BY <2>1, <2>3, ReviewAssumption
  <2> DEFINE clusters == OfCategory(d, k)
             theirs   == EvidenceOfAll(clusters)
             cited    == IF clusters = d.clusters THEN d.evidence
                         ELSE IF d.evidence \intersect theirs # {} THEN d.evidence \intersect theirs
                         ELSE theirs
  <2>5. /\ c \in clusters /\ clusters \subseteq Clusters
        /\ \A b \in clusters : CategoryOf[b] = k
    BY <2>1, <2>3 DEF OfCategory
  <2>6. theirs \subseteq Evidence
    BY <2>5, EvidenceOfSome
  <2>7. cited \in SUBSET (Evidence \union {"unknown"})
    BY <2>6, DraftRecord
  <2>8. n = [category |-> k, clusters |-> clusters, evidence |-> cited,
             wording |-> d.wording, label |-> d.label, impact |-> d.impact,
             followups |-> d.followups]
    <3> HIDE DEF clusters, theirs
    <3>1. n = IF clusters = d.clusters THEN [d EXCEPT !.category = k]
              ELSE [d EXCEPT !.category = k, !.clusters = clusters,
                             !.evidence = IF @ \intersect theirs # {} THEN @ \intersect theirs
                                          ELSE theirs]
      BY <2>2 DEF clusters, theirs
    <3>2. CASE clusters = d.clusters
      BY <3>1, <3>2, DraftRecord
    <3>3. CASE clusters # d.clusters
      <4> DEFINE m == [d EXCEPT !.category = k]
                 o == [m EXCEPT !.clusters = clusters]
      <4>1. n = [o EXCEPT !.evidence = cited]
        BY <3>1, <3>3
      <4> HIDE DEF cited
      <4>2. m = [category |-> k, clusters |-> d.clusters, evidence |-> d.evidence,
                 wording |-> d.wording, label |-> d.label, impact |-> d.impact,
                 followups |-> d.followups]
        BY DraftRecord
      <4> HIDE DEF m
      <4>3. o = [category |-> k, clusters |-> clusters, evidence |-> d.evidence,
                 wording |-> d.wording, label |-> d.label, impact |-> d.impact,
                 followups |-> d.followups]
        BY <4>2
      <4> HIDE DEF o
      <4> QED
        BY <3>3, <4>1, <4>3
    <3> QED
      BY <3>2, <3>3
  <2> HIDE DEF clusters, theirs, cited
  <2>9. n \in AllItemDrafts
    BY <2>4, <2>5, <2>7, <2>8, DraftRecord DEF AllItemDrafts
  <2>10. n.category = k /\ n.clusters = clusters /\ n.label = d.label /\ n.impact = d.impact
    BY <2>8
  <2> QED
    BY <1>2, <2>4, <2>5, <2>9, <2>10
<1> QED
  BY <1>1, <1>2

\* A repaired item: its clusters are of the run and of its category, its evidence is
\* theirs, and the fields of its category are filled.
LEMMA RepairedItem ==
  ASSUME NEW d \in AllItemDrafts, ~Unknown(d), NEW i \in Repaired(d)
  PROVE  /\ i \in AllItemDrafts /\ i.followups = TRUE
         /\ i.clusters \subseteq Clusters /\ i.evidence \subseteq Evidence
         /\ i.category # "watch" =>
              /\ i.clusters # {} /\ \A c \in i.clusters : CategoryOf[c] = i.category
              /\ i.evidence \subseteq EvidenceOfAll(i.clusters)
         /\ ~Unfilled(i)
<1>1. PICK n \in Normalized(d) : i = WithFollowups(WithUncertainty(WithImpact(WithLineage(n))))
  BY DEF Repaired
<1>2. /\ n \in AllItemDrafts
      /\ n.category # "watch" =>
           /\ n.clusters # {} /\ n.clusters \subseteq Clusters
           /\ \A c \in n.clusters : CategoryOf[c] = n.category
  BY <1>1, NormalizedItem
<1> DEFINE clusters == ValidClusters(n)
           evidence == n.evidence \intersect IF n.category = "watch" \/ ValidClusters(n) = {}
                                             THEN Evidence ELSE EvidenceOfAll(ValidClusters(n))
           l == WithLineage(n)
           p == WithImpact(l)
           u == WithUncertainty(p)
<1>3. l = [category |-> n.category, clusters |-> clusters, evidence |-> evidence,
           wording |-> n.wording, label |-> n.label, impact |-> n.impact,
           followups |-> n.followups]
  <2> DEFINE m == [n EXCEPT !.clusters = clusters]
  <2>1. l = [m EXCEPT !.evidence = evidence]
    BY DEF WithLineage
  <2> HIDE DEF l, clusters, evidence
  <2>2. m = [category |-> n.category, clusters |-> clusters, evidence |-> n.evidence,
             wording |-> n.wording, label |-> n.label, impact |-> n.impact,
             followups |-> n.followups]
    BY <1>2, DraftRecord
  <2> HIDE DEF m
  <2> QED
    BY <2>1, <2>2
<1>4. n.category # "watch" => clusters = n.clusters
  BY <1>2 DEF ValidClusters, OfCategory
<1>5. clusters \subseteq Clusters /\ evidence \subseteq Evidence
      /\ (n.category # "watch" => evidence \subseteq EvidenceOfAll(clusters))
  <2>1. clusters \subseteq Clusters
    BY DEF ValidClusters, OfCategory
  <2> QED
    BY <1>2, <1>4, <2>1, EvidenceOfSome
<1> HIDE DEF l, clusters, evidence
<1>6. p = [category |-> n.category, clusters |-> clusters, evidence |-> evidence,
           wording |-> n.wording, label |-> n.label,
           impact |-> IF n.category = "finance" /\ clusters # {} THEN TRUE ELSE n.impact,
           followups |-> n.followups]
  BY <1>3 DEF WithImpact
<1> HIDE DEF p
<1>7. u = [category |-> n.category, clusters |-> clusters, evidence |-> evidence,
           wording |-> n.wording,
           label |-> IF n.category = "signal" THEN TRUE ELSE n.label,
           impact |-> IF n.category = "finance" /\ clusters # {} THEN TRUE ELSE n.impact,
           followups |-> n.followups]
  BY <1>6 DEF WithUncertainty
<1> HIDE DEF u
<1>8. i = [category |-> n.category, clusters |-> clusters, evidence |-> evidence,
           wording |-> n.wording,
           label |-> IF n.category = "signal" THEN TRUE ELSE n.label,
           impact |-> IF n.category = "finance" /\ clusters # {} THEN TRUE ELSE n.impact,
           followups |-> TRUE]
  <2>1. i = [u EXCEPT !.followups = TRUE]
    BY <1>1 DEF WithFollowups, u, p, l
  <2> QED
    BY <1>7, <2>1
<1>9. /\ i.category = n.category /\ i.clusters = clusters /\ i.evidence = evidence
      /\ i.followups = TRUE
      /\ i.label = (IF n.category = "signal" THEN TRUE ELSE n.label)
      /\ i.impact = (IF n.category = "finance" /\ clusters # {} THEN TRUE ELSE n.impact)
  BY <1>8
<1>10. i \in AllItemDrafts
  BY <1>2, <1>5, <1>8, DraftRecord DEF AllItemDrafts
<1>11. ~Unfilled(i)
  BY <1>2, <1>9, <1>4 DEF Unfilled
<1> QED
  BY <1>2, <1>5, <1>9, <1>10, <1>4, <1>11

\* What the items of a report are.
LEMMA ItemOfDrafts ==
  ASSUME NEW drafts \in SUBSET AllItemDrafts, NEW i \in ItemsOf(drafts)
  PROVE  /\ i \in AllItemDrafts /\ i.followups = TRUE
         /\ i.clusters # {} /\ i.clusters \subseteq Clusters
         /\ i.evidence # {} /\ i.evidence \subseteq Evidence
         /\ i.category # "watch" =>
              /\ \A c \in i.clusters : CategoryOf[c] = i.category
              /\ i.evidence \subseteq EvidenceOfAll(i.clusters)
         /\ ~Unfilled(i) /\ ~Lacking(i) /\ ~Unknown(i)
<1>1. PICK d \in drafts : ~Unknown(d) /\ i \in Repaired(d)
  BY DEF ItemsOf
<1>2. ~Lacking(i)
  BY DEF ItemsOf
<1>3. ~Unknown(i)
  BY <1>1, RepairedItem, ReviewAssumption DEF Unknown
<1> QED
  BY <1>1, <1>2, <1>3, RepairedItem DEF Lacking

\* A repaired item needs no repair.
LEMMA Fixed ==
  ASSUME NEW drafts \in SUBSET AllItemDrafts, NEW i \in ItemsOf(drafts)
  PROVE  Repaired(i) = {i}
<1>1. /\ i \in AllItemDrafts /\ i.followups = TRUE
      /\ i.clusters # {} /\ i.clusters \subseteq Clusters
      /\ i.evidence # {} /\ i.evidence \subseteq Evidence
      /\ i.category # "watch" =>
           /\ \A c \in i.clusters : CategoryOf[c] = i.category
           /\ i.evidence \subseteq EvidenceOfAll(i.clusters)
      /\ ~Unfilled(i)
  BY ItemOfDrafts
<1> DEFINE r == [category |-> i.category, clusters |-> i.clusters, evidence |-> i.evidence,
                 wording |-> i.wording, label |-> i.label, impact |-> i.impact,
                 followups |-> i.followups]
<1>2. i = r
  BY <1>1, DraftRecord
<1>3. Normalized(i) = {i}
  <2>1. CASE i.category = "watch"
    BY <2>1 DEF Normalized
  <2>2. CASE i.category # "watch"
    <3>1. {CategoryOf[c] : c \in i.clusters} = {i.category}
      BY <1>1, <2>2
    <3>2. PrimaryCategories(i) = {i.category}
      BY <3>1 DEF PrimaryCategories
    <3>3. OfCategory(i, i.category) = i.clusters
      BY <1>1, <2>2 DEF OfCategory
    <3>4. [i EXCEPT !.category = i.category] = i
      BY <1>2
    <3> QED
      BY <2>2, <3>2, <3>3, <3>4 DEF Normalized
  <2> QED
    BY <2>1, <2>2
<1>4. WithLineage(i) = i
  <2> DEFINE evidence == i.evidence \intersect IF i.category = "watch" \/ ValidClusters(i) = {}
                                               THEN Evidence ELSE EvidenceOfAll(ValidClusters(i))
  <2>1. ValidClusters(i) = i.clusters
    BY <1>1 DEF ValidClusters, OfCategory
  <2>2. evidence = i.evidence
    BY <1>1, <2>1
  <2>3. WithLineage(i) = [i EXCEPT !.clusters = i.clusters, !.evidence = evidence]
    BY <2>1 DEF WithLineage
  <2> HIDE DEF evidence
  <2> QED
    BY <1>2, <2>2, <2>3
<1>5. WithImpact(i) = i
  <2>1. CASE i.category = "finance"
    <3>1. i.impact = TRUE
      BY <1>1, <2>1, DraftRecord DEF Unfilled
    <3> QED
      BY <1>2, <3>1 DEF WithImpact
  <2>2. CASE i.category # "finance"
    BY <2>2 DEF WithImpact
  <2> QED
    BY <2>1, <2>2
<1>6. WithUncertainty(i) = i
  <2>1. CASE i.category = "signal"
    <3>1. i.label = TRUE
      BY <1>1, <2>1, DraftRecord DEF Unfilled
    <3> QED
      BY <1>2, <3>1 DEF WithUncertainty
  <2>2. CASE i.category # "signal"
    BY <2>2 DEF WithUncertainty
  <2> QED
    BY <2>1, <2>2
<1>7. WithFollowups(i) = i
  BY <1>1, <1>2 DEF WithFollowups
<1> QED
  BY <1>3, <1>4, <1>5, <1>6, <1>7 DEF Repaired

\* The items of a report, offered as drafts, are the same items.
LEMMA ItemsAreFixed ==
  ASSUME NEW drafts \in SUBSET AllItemDrafts, NEW items \in SUBSET ItemsOf(drafts)
  PROVE  ItemsOf(items) = items
<1>1. \A i \in items : Repaired(i) = {i} /\ ~Unknown(i) /\ ~Lacking(i) /\ ~Unfilled(i)
  BY Fixed, ItemOfDrafts
<1> QED
  BY <1>1 DEF ItemsOf

-----------------------------------------------------------------------------
(* Reviews *)

LEMMA StrongestDecision ==
  ASSUME NEW D \in SUBSET ReviewDecisions, D # {}
  PROVE  Strongest(D) \in ReviewDecisions
<1>1. CASE "reject" \in D
  BY <1>1 DEF Strongest, ReviewDecisions
<1>2. CASE "reject" \notin D /\ "reopen_collect" \in D
  BY <1>2 DEF Strongest, ReviewDecisions
<1>3. CASE "reject" \notin D /\ "reopen_collect" \notin D /\ "revise" \in D
  <2>1. {"reject", "reopen_collect"} \intersect D = {}
    BY <1>3
  <2> QED
    BY <1>3, <2>1 DEF Strongest, ReviewDecisions
<1>4. CASE "reject" \notin D /\ "reopen_collect" \notin D /\ "revise" \notin D
  <2>1. D = {"pass"}
    BY <1>4 DEF ReviewDecisions
  <2> QED
    BY <1>4, <2>1 DEF Strongest, ReviewDecisions
<1> QED
  BY <1>1, <1>2, <1>3, <1>4

LEMMA ReviewDraftDecision == \A d \in ReviewDrafts : d.decision \in ReviewDecisions
<1> SUFFICES ASSUME NEW d \in [decision : ReviewDecisions, findings : SUBSET Findings]
             PROVE  Reconsidered(d).decision \in ReviewDecisions
  BY DEF ReviewDrafts
<1>1. d.decision \in ReviewDecisions /\ d = [decision |-> d.decision, findings |-> d.findings]
  OBVIOUS
<1>2. CASE d.decision \in {"pass", "reject"} /\ d.findings # {}
  BY <1>1, <1>2 DEF Reconsidered, ReviewDecisions
<1>3. CASE d.decision = "reopen_collect" /\ d.findings = {}
  BY <1>1, <1>3 DEF Reconsidered, ReviewDecisions
<1>4. CASE /\ ~(d.decision \in {"pass", "reject"} /\ d.findings # {})
           /\ ~(d.decision = "reopen_collect" /\ d.findings = {})
  <2>1. Reconsidered(d) = d
    BY <1>4 DEF Reconsidered
  <2> QED
    BY <1>1, <2>1
<1> QED
  BY <1>2, <1>3, <1>4

LEMMA DraftSetDecisions ==
  ASSUME NEW drafts \in DraftSets
  PROVE  DecisionsOf(drafts) \in SUBSET ReviewDecisions /\ DecisionsOf(drafts) # {}
<1>1. PICK p \in ReviewDrafts \X ReviewDrafts : drafts = {p[1], p[2]}
  BY DEF DraftSets
<1>2. p[1] \in ReviewDrafts /\ p[2] \in ReviewDrafts
  OBVIOUS
<1> QED
  BY <1>1, <1>2, ReviewDraftDecision DEF DecisionsOf

LEMMA AggregatedDecision ==
  ASSUME NEW d \in Aggregated \union AggregatedSole
  PROVE  d.decision \in ReviewDecisions
<1>1. CASE d \in Aggregated
  <2>1. PICK drafts \in DraftSets : d = [decision |-> Strongest(DecisionsOf(drafts)),
                                         findings |-> FindingsOf(drafts)]
    BY <1>1 DEF Aggregated
  <2> QED
    BY <2>1, DraftSetDecisions, StrongestDecision
<1>2. CASE d \in AggregatedSole
  <2> DEFINE Outputs == [drafts : DraftSets, decision : ReviewDecisions,
                         changes : SUBSET {f \in Findings : ~f.blocking}]
             Join(o, decision) ==
               [decision |-> Strongest(DecisionsOf(o.drafts) \union {decision}),
                findings |-> FindingsOf(o.drafts)
                               \union IF decision = "pass" THEN {} ELSE o.changes]
  <2>1. PICK o \in Outputs : d = Join(o, Overall(o.decision, o.drafts))
    BY <1>2 DEF AggregatedSole
  <2> DEFINE overall == Overall(o.decision, o.drafts)
  <2>2. o.drafts \in DraftSets /\ overall \in ReviewDecisions
    BY DEF Overall, ReviewDecisions
  <2>3. d.decision = Strongest(DecisionsOf(o.drafts) \union {overall})
    BY <2>1
  <2> HIDE DEF overall
  <2> QED
    BY <2>2, <2>3, DraftSetDecisions, StrongestDecision
<1> QED
  BY <1>1, <1>2

\* What a review does: it is of one report, whose status follows its decision, and it
\* passes nothing that a guard objects to.
LEMMA ReviewEffect ==
  ASSUME NEW k, Review(k)
  PROVE  /\ k \in 1..Latest /\ k \notin touched
         /\ stage \in {"reviewing", "rereviewing"}
         /\ touched' \in {touched \union {k}, 1..Latest}
         /\ UNCHANGED <<stage, rounds, revisions, left, cause>>
         /\ \E decision \in ReviewDecisions, blocking \in BOOLEAN :
              /\ review' = [report |-> k, decision |-> decision, blocking |-> blocking,
                            current |-> TRUE]
              /\ reports' = [reports EXCEPT ![k].status = StatusAfter(decision)]
              /\ decision = "pass" => Guarded(reports[k].items) = {}
<1>1. PICK d \in Aggregated \union AggregatedSole : ReviewedAs(k, d)
  BY DEF Review
<1> DEFINE items == reports[k].items
           decision == Decided(d, items)
           blocking == Blocks(d, items)
<1>2. decision \in ReviewDecisions /\ (decision = "pass" => Guarded(items) = {})
  BY AggregatedDecision DEF Decided, ReviewDecisions
<1>3. blocking \in BOOLEAN
  BY DEF Blocks
<1>4. /\ review' = [report |-> k, decision |-> decision, blocking |-> blocking, current |-> TRUE]
      /\ reports' = [reports EXCEPT ![k].status = StatusAfter(decision)]
  BY <1>1 DEF ReviewedAs
<1>5. /\ k \in 1..Latest /\ k \notin touched
      /\ stage \in {"reviewing", "rereviewing"}
      /\ touched' \in {touched \union {k}, 1..Latest}
      /\ UNCHANGED <<stage, rounds, revisions, left, cause>>
  BY DEF Review
<1> HIDE DEF decision, blocking
<1> QED
  BY <1>2, <1>3, <1>4, <1>5

-----------------------------------------------------------------------------
(* The inductive invariant *)

\* Nothing is reviewed while the Writer writes, a review is of a report that exists,
\* and an Editor has one to edit.
Started ==
  /\ stage = "writing" => review = NoReview
  /\ review # NoReview => review.decision # "none" /\ review.report \in 1..Latest
  /\ stage = "editing" => reports # <<>>

\* A sole report that was rejected is the end of the loop.
FailedOnce ==
  Latest = 1 /\ reports[1].status = "failed" =>
    /\ review.decision = "reject" /\ stage \notin {"writing", "editing"}
    /\ stage \in {"reviewing", "rereviewing"} => 1 \in touched

IInv == TypeOK /\ Started /\ FailedOnce /\ FieldsRepaired /\ PassIsClean

LEMMA LeastOf ==
  ASSUME NEW T \in SUBSET Nat, T # {}
  PROVE  \E x \in T : \A y \in T : x <= y
<1> DEFINE R == OpToRel(<, Nat)
<1>1. IsWellFoundedOn(R, Nat)
  BY NatLessThanWellFounded
<1>2. PICK x \in T : \A y \in T : <<y, x>> \notin R
  <2> HIDE DEF R
  <2> QED
    BY <1>1, WFMin
<1>3. \A y \in T : y < x => <<y, x>> \in R
  BY DEF OpToRel
<1> HIDE DEF R
<1>4. \A y \in T : ~(y < x)
  BY <1>2, <1>3
<1> QED
  BY <1>4

LEMMA ItemsTypes == Items \subseteq AllItemDrafts
  BY AdmittedTypes, FallbackTypes, ItemOfDrafts DEF Items

LEMMA ReportsTyped ==
  ASSUME TypeOK
  PROVE  Latest \in Nat /\ \A k \in 1..Latest : reports[k] \in AllReports
  BY DEF TypeOK, Latest

LEMMA Appended ==
  ASSUME NEW S, NEW q \in Seq(S), NEW x \in S
  PROVE  /\ Append(q, x) \in Seq(S) /\ Len(Append(q, x)) = Len(q) + 1 /\ Len(q) \in Nat
         /\ \A k \in 1..Len(q) : Append(q, x)[k] = q[k]
         /\ Append(q, x)[Len(q) + 1] = x
  OBVIOUS

LEMMA FreshReport ==
  ASSUME NEW items \in Contents, NEW focus \in BOOLEAN, NEW named \in BOOLEAN
  PROVE  Fresh(items, focus, named) \in AllReports
  BY DEF Fresh, AllReports, Statuses

LEMMA OthersTyped ==
  ASSUME TypeOK
  PROVE  Others \in Seq(AllReports)
<1>1. CASE Unnamed = {}
  BY <1>1 DEF Others, TypeOK
<1>2. CASE Unnamed # {}
  <2> DEFINE j == Min(Unnamed)
  <2>1. Unnamed \in SUBSET (1..Latest) /\ Latest \in Nat
    BY ReportsTyped DEF Unnamed
  <2>2. j \in 1..Latest
    <3>1. \E x \in Unnamed : \A y \in Unnamed : x <= y
      BY <1>2, <2>1, LeastOf
    <3> QED
      BY <2>1, <3>1 DEF Min
  <2>3. Others = RemoveAt(reports, j)
    BY <1>2 DEF Others
  <2> HIDE DEF j
  <2>4. SubSeq(reports, 1, j - 1) \in Seq(AllReports)
        /\ SubSeq(reports, j + 1, Len(reports)) \in Seq(AllReports)
    BY <2>2 DEF TypeOK, Latest
  <2> QED
    BY <2>3, <2>4 DEF RemoveAt
<1> QED
  BY <1>1, <1>2

\* What is stored of a draft, or of what is made up in its place.
LEMMA Stored ==
  ASSUME TypeOK, Started, StoreDraft \/ FallBack
  PROVE  /\ stage \in {"writing", "editing"} /\ left' \in 0..MaxDrafts
         /\ UNCHANGED <<stage, rounds, revisions, touched, cause>>
         /\ \E items \in Contents, focus \in BOOLEAN :
              \/ \E k \in 1..Latest : Replace(k, items, focus)
              \/ Create(items, focus, TRUE)
              \/ stage = "writing" /\ Rewrite(items, focus)
<1> USE ReviewAssumption
<1>0. stage \in {"writing", "editing"} /\ UNCHANGED <<stage, rounds, revisions, touched, cause>>
  BY DEF StoreDraft, FallBack
<1>a. left' \in 0..MaxDrafts
  <2>1. left \in 0..MaxDrafts /\ MaxDrafts \in Nat
    BY DEF TypeOK
  <2>2. (left > 0 /\ left' = left - 1) \/ left' = 0
    BY DEF StoreDraft, FallBack
  <2> QED
    BY <2>1, <2>2
<1>1. /\ stage \in {"writing", "editing"} /\ left' \in 0..MaxDrafts
      /\ UNCHANGED <<stage, rounds, revisions, touched, cause>>
  BY <1>0, <1>a
<1>2. \A items : Focused(items) \subseteq BOOLEAN
  BY DEF Focused
<1>3. CASE StoreDraft
  <2>1. PICK items \in {c \in Contents : c \subseteq ItemsOf(DraftsOf(stage))} :
          \E focus \in Focused(items) :
            \/ \E k \in 1..Latest : Replace(k, items, focus)
            \/ Create(items, focus, TRUE)
            \/ stage = "writing" /\ Rewrite(items, focus)
    BY <1>3 DEF StoreDraft
  <2>2. PICK focus \in Focused(items) :
          \/ \E k \in 1..Latest : Replace(k, items, focus)
          \/ Create(items, focus, TRUE)
          \/ stage = "writing" /\ Rewrite(items, focus)
    BY <2>1
  <2>3. items \in Contents /\ focus \in BOOLEAN
    BY <1>2, <2>2
  <2> QED
    BY <1>1, <2>2, <2>3
<1>4. CASE FallBack /\ stage = "writing"
  BY <1>1, <1>4 DEF FallBack
<1>5. CASE FallBack /\ stage = "editing"
  <2> DEFINE items == ItemsOf(reports[Latest].items)
  <2>1. PICK focus \in IF reports[Latest].focus THEN {TRUE} ELSE Focused(items) :
          Replace(Latest, items, focus)
    BY <1>5 DEF FallBack
  <2>2. Latest \in 1..Latest
    BY <1>5 DEF Started, Latest, TypeOK
  <2>3. reports[Latest].items \in Contents
    BY <2>2, ReportsTyped DEF AllReports
  <2>4. items = reports[Latest].items
    <3>1. (Admitted \union FallbackDrafts) \in SUBSET AllItemDrafts
      BY AdmittedTypes, FallbackTypes
    <3>2. reports[Latest].items \in SUBSET ItemsOf(Admitted \union FallbackDrafts)
      BY <2>3 DEF Contents, Items
    <3> QED
      BY <3>1, <3>2, ItemsAreFixed
  <2>5. focus \in BOOLEAN
    BY <1>2
  <2> HIDE DEF items
  <2> QED
    BY <1>1, <2>1, <2>2, <2>3, <2>4, <2>5
<1> QED
  BY <1>1, <1>3, <1>4, <1>5

LEMMA InitInv == Init => IInv
<1> SUFFICES ASSUME Init PROVE IInv
  OBVIOUS
<1>1. NoReview \in AllReviews /\ NoReview.report = 0 /\ NoReview.decision = "none"
  BY ReviewAssumption DEF NoReview, AllReviews
<1>2. TypeOK
  BY <1>1, ReviewAssumption, GateAssumption DEF Init, TypeOK, Stages
<1>3. Started /\ FailedOnce /\ FieldsRepaired /\ PassIsClean
  BY <1>1 DEF Init, Started, FailedOnce, FieldsRepaired, PassIsClean, Latest
<1> QED
  BY <1>2, <1>3 DEF IInv

LEMMA StoreTypes ==
  ASSUME TypeOK, Started, StoreDraft \/ FallBack
  PROVE  TypeOK'
<1>1. /\ stage \in {"writing", "editing"} /\ left' \in 0..MaxDrafts
      /\ UNCHANGED <<stage, rounds, revisions, touched, cause>>
  BY Stored
<1>2. PICK items \in Contents, focus \in BOOLEAN :
        \/ \E k \in 1..Latest : Replace(k, items, focus)
        \/ Create(items, focus, TRUE)
        \/ stage = "writing" /\ Rewrite(items, focus)
  BY Stored
<1>3. /\ reports' \in Seq(AllReports) /\ Len(reports') <= MaxReports
      /\ review' \in AllReviews /\ review'.report <= Len(reports')
  <2>1. CASE \E k \in 1..Latest : Replace(k, items, focus)
    <3>1. PICK k \in 1..Latest : Replace(k, items, focus)
      BY <2>1
    <3>2. Fresh(items, focus, reports[k].named) \in AllReports
      BY FreshReport, ReportsTyped DEF AllReports
    <3>3. reports' = [reports EXCEPT ![k] = Fresh(items, focus, reports[k].named)]
      BY <3>1 DEF Replace
    <3>4. reports' \in Seq(AllReports) /\ Len(reports') = Len(reports)
      BY <3>2, <3>3 DEF TypeOK, Latest
    <3>5. review' = [review EXCEPT !.current = review.current /\ k # review.report]
      BY <3>1 DEF Replace
    <3>6. review' \in AllReviews /\ review'.report = review.report
      BY <3>5 DEF TypeOK, AllReviews
    <3> QED
      BY <3>4, <3>6 DEF TypeOK
  <2>2. CASE Create(items, focus, TRUE)
    <3>1. Fresh(items, focus, TRUE) \in AllReports
      BY FreshReport
    <3>2. /\ reports' = Append(reports, Fresh(items, focus, TRUE))
          /\ Len(reports) < MaxReports /\ review' = review
      BY <2>2 DEF Create, Latest
    <3>3. /\ reports \in Seq(AllReports) /\ Len(reports) \in Nat
          /\ review \in AllReviews /\ review.report <= Len(reports) /\ review.report \in Nat
      BY DEF TypeOK, AllReviews
    <3>4. reports' \in Seq(AllReports) /\ Len(reports') = Len(reports) + 1
      BY <3>1, <3>2, <3>3, Appended
    <3>5. MaxReports \in Nat
      BY ReviewAssumption
    <3>6. Len(reports') <= MaxReports
      BY <3>2, <3>3, <3>4, <3>5
    <3>7. review' \in AllReviews /\ review'.report = review.report
      BY <3>2, <3>3
    <3>8. review.report <= Len(reports')
      BY <3>3, <3>4
    <3> QED
      BY <3>4, <3>6, <3>7, <3>8
  <2>3. CASE stage = "writing" /\ Rewrite(items, focus)
    <3>1. Fresh(items, focus, FALSE) \in AllReports
      BY FreshReport
    <3>2. /\ reports' = Append(Others, Fresh(items, focus, FALSE))
          /\ Len(Others) < MaxReports /\ UNCHANGED review
      BY <2>3 DEF Rewrite
    <3>3. review.report = 0
      BY <2>3 DEF Started, NoReview
    <3>a. Others \in Seq(AllReports)
      BY OthersTyped
    <3>b. Len(Others) \in Nat
      BY <3>a
    <3>4. reports' \in Seq(AllReports) /\ Len(reports') = Len(Others) + 1
      BY <3>1, <3>2, <3>a, Appended
    <3>5. MaxReports \in Nat /\ review' \in AllReviews /\ review' = review
      BY <3>2, ReviewAssumption DEF TypeOK
    <3>6. Len(reports') <= MaxReports /\ 0 <= Len(reports')
      BY <3>2, <3>b, <3>4, <3>5
    <3> QED
      BY <3>3, <3>4, <3>5, <3>6
  <2> QED
    BY <1>2, <2>1, <2>2, <2>3
<1> QED
  BY <1>1, <1>3 DEF TypeOK

-----------------------------------------------------------------------------
(* Every step keeps the invariant *)

\* A change of a report's status.
LEMMA StatusOnly ==
  ASSUME TypeOK, NEW k \in 1..Latest, NEW status \in Statuses,
         reports' = [reports EXCEPT ![k].status = status]
  PROVE  /\ reports' \in Seq(AllReports) /\ Len(reports') = Len(reports)
         /\ reports'[k].status = status
         /\ \A j \in 1..Latest : /\ reports'[j].items = reports[j].items
                                 /\ reports'[j].focus = reports[j].focus
         /\ \A j \in 1..Latest : j # k => reports'[j] = reports[j]
<1> DEFINE r == [reports[k] EXCEPT !.status = status]
<1>1. reports[k] \in AllReports /\ reports \in Seq(AllReports)
  BY ReportsTyped DEF TypeOK
<1>2. r \in AllReports /\ r.status = status /\ r.items = reports[k].items
      /\ r.focus = reports[k].focus
  BY <1>1 DEF AllReports
<1>3. reports' = [reports EXCEPT ![k] = r]
  OBVIOUS
<1> HIDE DEF r
<1> QED
  BY <1>1, <1>2, <1>3 DEF Latest

LEMMA StoreStep ==
  ASSUME IInv, StoreDraft \/ FallBack
  PROVE  IInv'
<1>0. TypeOK /\ Started /\ FailedOnce /\ FieldsRepaired /\ PassIsClean
  BY DEF IInv
<1>1. TypeOK'
  BY <1>0, StoreTypes
<1>2. /\ stage \in {"writing", "editing"}
      /\ UNCHANGED <<stage, rounds, revisions, touched, cause>>
  BY <1>0, Stored
<1>3. PICK items \in Contents, focus \in BOOLEAN :
        \/ \E k \in 1..Latest : Replace(k, items, focus)
        \/ Create(items, focus, TRUE)
        \/ stage = "writing" /\ Rewrite(items, focus)
  BY <1>0, Stored
<1>4. FieldsRepaired'
  BY <1>0, <1>2 DEF FieldsRepaired
<1>5. reports \in Seq(AllReports) /\ Latest = Len(reports) /\ Latest \in Nat
      /\ review \in AllReviews
  BY <1>0, ReportsTyped DEF TypeOK, Latest
<1>6. CASE \E k \in 1..Latest : Replace(k, items, focus)
  <2>1. PICK k \in 1..Latest : Replace(k, items, focus)
    BY <1>6
  <2> DEFINE fresh == Fresh(items, focus, reports[k].named)
  <2>2. fresh.status = "draft"
    BY DEF Fresh
  <2>3. reports' = [reports EXCEPT ![k] = fresh]
    BY <2>1 DEF Replace
  <2> HIDE DEF fresh
  <2>4. /\ Len(reports') = Latest /\ reports'[k] = fresh
        /\ \A j \in 1..Latest : j # k => reports'[j] = reports[j]
    BY <1>5, <2>3
  <2>5. review' = [review EXCEPT !.current = review.current /\ k # review.report]
    BY <2>1 DEF Replace
  <2>6. /\ review'.report = review.report /\ review'.decision = review.decision
        /\ review'.current = (review.current /\ k # review.report)
        /\ review = NoReview => review' = NoReview
    <3>1. /\ review'.report = review.report /\ review'.decision = review.decision
          /\ review'.current = (review.current /\ k # review.report)
      BY <1>5, <2>5 DEF AllReviews
    <3>2. ASSUME review = NoReview PROVE review' = NoReview
      <4>1. review.current = FALSE
        BY <3>2 DEF NoReview
      <4>2. review' = [review EXCEPT !.current = FALSE]
        BY <2>5, <4>1
      <4> QED
        BY <3>2, <4>2 DEF NoReview
    <3> QED
      BY <3>1, <3>2
  <2>7. Started'
    <3>1. (stage = "writing")' => (review = NoReview)'
      BY <1>0, <1>2, <2>6 DEF Started
    <3>2. (review # NoReview)' => review # NoReview
      BY <2>6
    <3>3. (review # NoReview)' => review'.decision # "none" /\ review'.report \in 1..Len(reports')
      BY <1>0, <1>5, <2>4, <2>6, <3>2 DEF Started
    <3>4. reports' # <<>>
      BY <1>5, <2>4
    <3> QED
      BY <3>1, <3>3, <3>4 DEF Started, Latest
  <2>8. FailedOnce'
    <3>1. ASSUME Latest' = 1 PROVE reports'[1].status # "failed"
      <4>1. k = 1
        BY <1>5, <2>4, <3>1 DEF Latest
      <4> QED
        BY <2>2, <2>4, <4>1
    <3> QED
      BY <3>1 DEF FailedOnce
  <2>9. PassIsClean'
    <3> SUFFICES ASSUME review'.decision = "pass", review'.current
                 PROVE  Guarded(reports'[review'.report].items) = {}
      BY DEF PassIsClean
    <3>1. review.current /\ k # review.report /\ review.decision = "pass"
      BY <2>6
    <3>2. review # NoReview
      BY <3>1 DEF NoReview
    <3>3. review.report \in 1..Latest
      BY <1>0, <3>2 DEF Started
    <3>4. reports'[review'.report] = reports[review.report]
      BY <2>4, <2>6, <3>1, <3>3
    <3> QED
      BY <1>0, <3>1, <3>4 DEF PassIsClean
  <2> QED
    BY <1>1, <1>4, <2>7, <2>8, <2>9 DEF IInv
<1>7. CASE Create(items, focus, TRUE)
  <2> DEFINE fresh == Fresh(items, focus, TRUE)
  <2>1. reports' = Append(reports, fresh) /\ review' = review
    BY <1>7 DEF Create
  <2>2. fresh \in AllReports /\ fresh.status = "draft"
    BY FreshReport DEF Fresh
  <2> HIDE DEF fresh
  <2>3. /\ Len(reports') = Latest + 1 /\ reports'[Latest + 1] = fresh
        /\ \A j \in 1..Latest : reports'[j] = reports[j]
    BY <1>5, <2>1, <2>2, Appended
  <2>4. Started'
    <3>1. (review # NoReview)' => review'.decision # "none" /\ review'.report \in 1..Len(reports')
      BY <1>0, <1>5, <2>1, <2>3 DEF Started
    <3>2. reports' # <<>>
      BY <1>1, <1>5, <2>3 DEF TypeOK
    <3> QED
      BY <1>0, <1>2, <2>1, <3>1, <3>2 DEF Started, Latest
  <2>5. FailedOnce'
    <3>1. ASSUME Latest' = 1 PROVE reports'[1].status # "failed"
      <4>0. Len(reports') = 1
        BY <3>1 DEF Latest
      <4>a. Len(reports') = Latest + 1 /\ Latest \in Nat
        BY <1>5, <2>3
      <4>1. Latest = 0
        BY <4>a, <4>0
      <4> QED
        BY <2>2, <2>3, <4>1
    <3> QED
      BY <3>1 DEF FailedOnce
  <2>6. PassIsClean'
    <3> SUFFICES ASSUME review.decision = "pass", review.current
                 PROVE  Guarded(reports'[review.report].items) = {}
      BY <2>1 DEF PassIsClean
    <3>1. review # NoReview
      BY DEF NoReview
    <3>2. review.report \in 1..Latest
      BY <1>0, <3>1 DEF Started
    <3>3. reports'[review.report] = reports[review.report]
      BY <2>3, <3>2
    <3> QED
      BY <1>0, <3>3 DEF PassIsClean
  <2> QED
    BY <1>1, <1>4, <2>4, <2>5, <2>6 DEF IInv
<1>8. CASE stage = "writing" /\ Rewrite(items, focus)
  <2> DEFINE fresh == Fresh(items, focus, FALSE)
  <2>1. reports' = Append(Others, fresh) /\ review' = review
    BY <1>8 DEF Rewrite
  <2>2. fresh \in AllReports /\ fresh.status = "draft"
    BY FreshReport DEF Fresh
  <2> HIDE DEF fresh
  <2>3. Others \in Seq(AllReports)
    BY <1>0, OthersTyped
  <2>4. /\ Len(Others) \in Nat /\ Len(reports') = Len(Others) + 1
        /\ reports'[Len(Others) + 1] = fresh
    BY <2>1, <2>2, <2>3, Appended
  <2>5. review = NoReview /\ review' = NoReview /\ stage' = "writing"
    BY <1>0, <1>2, <1>8, <2>1 DEF Started
  <2>6. Started'
    BY <2>5 DEF Started
  <2>7. FailedOnce'
    <3>1. ASSUME Latest' = 1 PROVE reports'[1].status # "failed"
      <4>0. Len(reports') = 1
        BY <3>1 DEF Latest
      <4> DEFINE n == Len(Others)
      <4>a. n \in Nat /\ 1 = n + 1
        BY <2>4, <4>0
      <4>1. n = 0
        <5> HIDE DEF n
        <5> QED
          BY <4>a
      <4> QED
        BY <2>2, <2>4, <4>1
    <3> QED
      BY <3>1 DEF FailedOnce
  <2>8. PassIsClean'
    BY <2>5 DEF PassIsClean, NoReview
  <2> QED
    BY <1>1, <1>4, <2>6, <2>7, <2>8 DEF IInv
<1> QED
  BY <1>3, <1>6, <1>7, <1>8

LEMMA ReviewStep ==
  ASSUME IInv, NEW k, Review(k)
  PROVE  IInv'
<1>0. TypeOK /\ Started /\ FailedOnce /\ FieldsRepaired /\ PassIsClean
  BY DEF IInv
<1>1. /\ k \in 1..Latest /\ k \notin touched
      /\ stage \in {"reviewing", "rereviewing"}
      /\ touched' \in {touched \union {k}, 1..Latest}
      /\ UNCHANGED <<stage, rounds, revisions, left, cause>>
  BY ReviewEffect
<1>2. PICK decision \in ReviewDecisions, blocking \in BOOLEAN :
        /\ review' = [report |-> k, decision |-> decision, blocking |-> blocking, current |-> TRUE]
        /\ reports' = [reports EXCEPT ![k].status = StatusAfter(decision)]
        /\ decision = "pass" => Guarded(reports[k].items) = {}
  BY ReviewEffect
<1>3. StatusAfter(decision) \in Statuses
      /\ (StatusAfter(decision) = "failed" => decision = "reject")
  BY DEF StatusAfter, Statuses, ReviewDecisions
<1>4. /\ reports' \in Seq(AllReports) /\ Len(reports') = Latest
      /\ reports'[k].status = StatusAfter(decision)
      /\ \A j \in 1..Latest : reports'[j].items = reports[j].items
  BY <1>0, <1>1, <1>2, <1>3, StatusOnly DEF Latest
<1>5. Latest \in Nat /\ Latest = Len(reports) /\ Latest <= MaxReports /\ MaxReports \in Nat
  BY <1>0, ReportsTyped, ReviewAssumption DEF TypeOK, Latest
<1>6. review'.report = k /\ review'.decision = decision /\ review'.current = TRUE
  BY <1>2
<1>7. TypeOK'
  <2>1. touched' \in SUBSET (1..MaxReports)
    BY <1>0, <1>1, <1>5 DEF TypeOK
  <2>2. k \in 0..MaxReports
    BY <1>1, <1>5
  <2>3. review' \in AllReviews
    BY <1>2, <2>2 DEF AllReviews
  <2>4. Len(reports') <= MaxReports /\ review'.report <= Len(reports')
    BY <1>1, <1>4, <1>5, <1>6
  <2> QED
    BY <1>0, <1>1, <1>4, <2>1, <2>3, <2>4 DEF TypeOK
<1>8. Started'
  <2>1. review'.decision # "none" /\ review'.report \in 1..Len(reports')
    BY <1>1, <1>4, <1>6 DEF ReviewDecisions
  <2> QED
    BY <1>1, <2>1 DEF Started, Latest
<1>9. FailedOnce'
  <2> SUFFICES ASSUME Latest' = 1, reports'[1].status = "failed"
               PROVE  review'.decision = "reject" /\ 1 \in touched'
    BY <1>1 DEF FailedOnce
  <2>0. Latest = 1
    BY <1>4 DEF Latest
  <2>1. Latest = 1 /\ k = 1
    BY <1>1, <2>0
  <2>2. decision = "reject"
    BY <1>3, <1>4, <2>1
  <2> QED
    BY <1>1, <1>6, <2>1, <2>2
<1>10. FieldsRepaired'
  BY <1>0, <1>1 DEF FieldsRepaired
<1>11. PassIsClean'
  BY <1>1, <1>2, <1>4, <1>6 DEF PassIsClean
<1> QED
  BY <1>7, <1>8, <1>9, <1>10, <1>11 DEF IInv

\* The repairs fill the fields of an item's category.
LEMMA NoFieldFails == Failures \subseteq {"lineage"}
<1>1. ASSUME NEW d \in Admitted, ~Unknown(d), NEW i \in Repaired(d)
      PROVE  ~Unfilled(i)
  <2>1. d \in AllItemDrafts
    BY AdmittedTypes
  <2> QED
    BY <1>1, <2>1, RepairedItem
<1> QED
  BY <1>1 DEF Failures

LEMMA RefusalCauses ==
  ASSUME RefuseDraft \/ RefuseReview
  PROVE  /\ cause' \in {"lineage", "report", "reject", "reopen_collect"}
         /\ stage' = "failed"
         /\ UNCHANGED <<rounds, revisions, left, touched, reports, review>>
<1>1. CASE RefuseDraft
  BY <1>1, NoFieldFails DEF RefuseDraft
<1>2. CASE RefuseReview
  <2>1. ASSUME NEW d, NEW items, Emptied(d, items)
        PROVE  d.decision \in {"reject", "reopen_collect"}
    BY <2>1 DEF Emptied, Decided
  <2> QED
    BY <1>2, <2>1 DEF RefuseReview
<1> QED
  BY <1>1, <1>2

LEMMA OutcomeCases ==
  ASSUME TypeOK
  PROVE  /\ Outcome = "finalize" => reports # <<>> /\ Ready(reports[Latest])
         /\ Outcome = "revise" => reports # <<>> /\ revisions < MaxWritingRevisions
         /\ Outcome = "review_draft" => review.decision = "none"
         /\ review.decision = "reject" => Outcome = FailureOutcome
<1> DEFINE draft == reports # <<>>
           ready == reports # <<>> /\ Ready(reports[Latest])
           d     == review.decision
<1>1. d \in ReviewDecisions \union {"none"} /\ draft \in BOOLEAN
  BY DEF TypeOK, AllReviews
<1>2. Outcome = WritingOutcome(draft, ready, d, review.blocking, CollectRounds, revisions)
  BY DEF Outcome
<1>3. ready => draft /\ Ready(reports[Latest])
  OBVIOUS
<1>4. FailureOutcome \in {"needs_manual_review", "fail"}
  BY DEF FailureOutcome
<1> HIDE DEF draft, ready, d
<1>5. /\ Outcome = "finalize" => draft /\ ready
      /\ Outcome = "revise" => draft /\ revisions < MaxWritingRevisions
      /\ Outcome = "review_draft" => d = "none"
      /\ d = "reject" => Outcome = FailureOutcome
  <2>1. CASE ~draft
    BY <1>1, <1>2, <1>4, <2>1 DEF WritingOutcome
  <2>2. CASE draft /\ d = "none"
    BY <1>2, <1>4, <2>2 DEF WritingOutcome
  <2>3. CASE draft /\ d = "pass"
    BY <1>2, <1>4, <2>3 DEF WritingOutcome
  <2>4. CASE draft /\ d = "reopen_collect"
    BY <1>2, <1>4, <2>4 DEF WritingOutcome
  <2>5. CASE draft /\ d = "revise"
    BY <1>2, <1>4, <2>5 DEF WritingOutcome
  <2>6. CASE draft /\ d = "reject"
    BY <1>2, <1>4, <2>6 DEF WritingOutcome
  <2> QED
    BY <1>1, <2>1, <2>2, <2>3, <2>4, <2>5, <2>6 DEF ReviewDecisions
<1> QED
  BY <1>3, <1>5 DEF draft, d

LEMMA GateStep ==
  ASSUME IInv, Gate
  PROVE  IInv'
<1>0. TypeOK /\ Started /\ FailedOnce /\ FieldsRepaired /\ PassIsClean
  BY DEF IInv
<1>1. stage = "gate" /\ UNCHANGED <<rounds, touched, review, cause>>
  BY DEF Gate
<1>2. /\ Outcome = "finalize" => reports # <<>> /\ Ready(reports[Latest])
      /\ Outcome = "revise" => reports # <<>> /\ revisions < MaxWritingRevisions
      /\ Outcome = "review_draft" => review.decision = "none"
      /\ review.decision = "reject" => Outcome = FailureOutcome
  BY <1>0, OutcomeCases
<1>3. FailureOutcome \in {"needs_manual_review", "fail"}
  BY DEF FailureOutcome
<1>4. /\ stage' \in {"completed", "reopened", "rereviewing", "editing", "paused", "failed"}
      /\ stage' = "rereviewing" => Outcome = "review_draft"
      /\ stage' = "editing" => Outcome = "revise"
  BY DEF Gate, Stop
<1>5. \/ UNCHANGED reports
      \/ Outcome = "finalize" /\ reports' = [reports EXCEPT ![Latest].status = "final"]
  BY DEF Gate
<1>6. /\ reports' \in Seq(AllReports) /\ Len(reports') = Latest /\ Latest = Len(reports)
      /\ \A j \in 1..Latest : reports'[j].items = reports[j].items
      /\ \A j \in 1..Latest : reports'[j].status # "final" => reports'[j] = reports[j]
  <2>1. CASE UNCHANGED reports
    BY <1>0, <2>1 DEF TypeOK, Latest
  <2>2. CASE Outcome = "finalize" /\ reports' = [reports EXCEPT ![Latest].status = "final"]
    <3>1. Latest \in 1..Latest
      BY <1>0, <1>2, <2>2 DEF TypeOK, Latest
    <3>2. "final" \in Statuses
      BY DEF Statuses
    <3> QED
      BY <1>0, <2>2, <3>1, <3>2, StatusOnly DEF Latest
  <2> QED
    BY <1>5, <2>1, <2>2
<1>7. TypeOK'
  <2>1. revisions' \in 0..MaxWritingRevisions
    <3>1. revisions' = revisions \/ (Outcome = "revise" /\ revisions' = revisions + 1)
      BY DEF Gate
    <3> QED
      BY <1>0, <1>2, <3>1, GateAssumption DEF TypeOK
  <2>2. left' \in 0..MaxDrafts
    <3>1. left' = MaxDrafts \/ left' = 0
      BY DEF Gate
    <3> QED
      BY <3>1, ReviewAssumption
  <2>3. stage' \in Stages
    BY <1>4 DEF Stages
  <2> QED
    BY <1>0, <1>1, <1>6, <2>1, <2>2, <2>3 DEF TypeOK, Latest
<1>8. Started'
  <2>1. review # NoReview => review.decision # "none" /\ review.report \in 1..Latest'
    BY <1>0, <1>6 DEF Started, Latest
  <2>2. stage' = "editing" => reports' # <<>>
    <3>1. ASSUME stage' = "editing" PROVE reports # <<>> /\ UNCHANGED reports
      BY <1>2, <1>4, <1>5, <3>1
    <3> QED
      BY <3>1
  <2>3. stage' # "writing"
    BY <1>4
  <2> QED
    BY <1>1, <2>1, <2>2, <2>3 DEF Started
<1>9. FailedOnce'
  <2> SUFFICES ASSUME Latest' = 1, reports'[1].status = "failed"
               PROVE  /\ review.decision = "reject"
                      /\ stage' \notin {"writing", "editing", "reviewing", "rereviewing"}
    BY <1>1 DEF FailedOnce
  <2>0. Latest = 1
    BY <1>6 DEF Latest
  <2>1. Latest = 1 /\ reports[1].status = "failed"
    BY <1>6, <2>0
  <2>2. review.decision = "reject"
    BY <1>0, <2>1 DEF FailedOnce
  <2> QED
    BY <1>2, <1>3, <1>4, <2>2
<1>10. FieldsRepaired'
  BY <1>0, <1>1 DEF FieldsRepaired
<1>11. PassIsClean'
  <2> SUFFICES ASSUME review.decision = "pass", review.current
               PROVE  Guarded(reports'[review.report].items) = {}
    BY <1>1 DEF PassIsClean
  <2>1. review # NoReview
    BY DEF NoReview
  <2>2. review.report \in 1..Latest
    BY <1>0, <2>1 DEF Started
  <2>3. reports'[review.report].items = reports[review.report].items
    BY <1>6, <2>2
  <2> QED
    BY <1>0, <2>3 DEF PassIsClean
<1> QED
  BY <1>7, <1>8, <1>9, <1>10, <1>11 DEF IInv

LEMMA StepInv == IInv /\ [Next]_vars => IInv'
<1> SUFFICES ASSUME IInv, [Next]_vars PROVE IInv'
  OBVIOUS
<1>0. TypeOK /\ Started /\ FailedOnce /\ FieldsRepaired /\ PassIsClean
  BY DEF IInv
<1>1. CASE StartRound
  <2>1. /\ stage' \in {"writing", "reviewing", "gate"} /\ left' = MaxDrafts /\ touched' = {}
        /\ stage' = "writing" => reports = <<>>
        /\ stage' = "reviewing" => review = NoReview
        /\ rounds < MaxWritingRounds /\ rounds' = rounds + 1
        /\ UNCHANGED <<revisions, reports, review, cause>>
    BY <1>1 DEF StartRound
  <2>2. TypeOK'
    <3>1. rounds' \in 0..MaxWritingRounds /\ left' \in 0..MaxDrafts
          /\ touched' \in SUBSET (1..MaxReports)
      BY <1>0, <2>1, ReviewAssumption DEF TypeOK
    <3>2. stage' \in Stages
      BY <2>1 DEF Stages
    <3> QED
      BY <1>0, <2>1, <3>1, <3>2 DEF TypeOK
  <2>3. Started'
    <3>1. reports = <<>> => review = NoReview
      BY <1>0 DEF Started, Latest
    <3> QED
      BY <1>0, <2>1, <3>1 DEF Started, Latest
  <2>4. FailedOnce'
    <3>1. review = NoReview => review.decision # "reject"
      BY DEF NoReview
    <3>2. reports = <<>> => Latest # 1
      BY DEF Latest
    <3> QED
      BY <1>0, <2>1, <3>1, <3>2 DEF FailedOnce, Latest
  <2> QED
    BY <1>0, <2>1, <2>2, <2>3, <2>4 DEF IInv, FieldsRepaired, PassIsClean
<1>2. CASE Exhausted
  <2>1. /\ stage' \in {"paused", "failed"}
        /\ UNCHANGED <<rounds, revisions, left, touched, reports, review, cause>>
    BY <1>2 DEF Exhausted, Stop
  <2>2. stage' \in Stages
    BY <2>1 DEF Stages
  <2> QED
    BY <1>0, <2>1, <2>2
    DEF IInv, TypeOK, Started, FailedOnce, FieldsRepaired, PassIsClean, Latest
<1>3. CASE StoreDraft \/ FallBack
  BY <1>3, StoreStep
<1>4. CASE RefuseDraft \/ RefuseReview
  <2>1. /\ cause' \in {"lineage", "report", "reject", "reopen_collect"}
        /\ stage' = "failed"
        /\ UNCHANGED <<rounds, revisions, left, touched, reports, review>>
    BY <1>4, RefusalCauses
  <2>2. stage' \in Stages
    BY <2>1 DEF Stages
  <2> QED
    BY <1>0, <2>1, <2>2
    DEF IInv, TypeOK, Started, FailedOnce, FieldsRepaired, PassIsClean, Latest
<1>5. CASE EndTask
  <2>1. /\ stage \in {"writing", "reviewing", "editing", "rereviewing"}
        /\ stage' \in {"gate", "reviewing", "rereviewing", "top"}
        /\ stage' = "reviewing" => stage = "writing"
        /\ stage' = "rereviewing" => stage = "editing"
        /\ left' = 0 /\ touched' = {} /\ UNCHANGED <<rounds, revisions, reports, review, cause>>
    BY <1>5 DEF EndTask
  <2>2. stage' \in Stages /\ left' \in 0..MaxDrafts /\ touched' \in SUBSET (1..MaxReports)
    BY <2>1, ReviewAssumption DEF Stages
  <2> QED
    BY <1>0, <2>1, <2>2
    DEF IInv, TypeOK, Started, FailedOnce, FieldsRepaired, PassIsClean, Latest
<1>6. CASE Gate
  BY <1>6, GateStep
<1>7. CASE \E k \in 1..MaxReports : Review(k)
  BY <1>7, ReviewStep
<1>8. CASE UNCHANGED vars
  BY <1>0, <1>8
  DEF vars, IInv, TypeOK, Started, FailedOnce, FieldsRepaired, PassIsClean, Latest
<1> QED
  BY <1>1, <1>2, <1>3, <1>4, <1>5, <1>6, <1>7, <1>8 DEF Next

\* The invariant holds throughout.
THEOREM Invariant == Spec => []IInv
  BY InitInv, StepInv, PTL DEF Spec

\* The variables have their types: a loop stays within its rounds and revisions, and
\* a review is of a report there is.
THEOREM TypeCorrect == Spec => []TypeOK
<1>1. IInv => TypeOK
  BY DEF IInv
<1> QED
  BY <1>1, Invariant, PTL

\* No draft of an agent fails for a field that the repairs are to fill.
THEOREM RepairsSuffice == Spec => []FieldsRepaired
<1>1. IInv => FieldsRepaired
  BY DEF IInv
<1> QED
  BY <1>1, Invariant, PTL

\* A review never passes what a guard objects to, and a draft that replaces the
\* content makes the review one of other content.
THEOREM PassesAreClean == Spec => []PassIsClean
<1>1. IInv => PassIsClean
  BY DEF IInv
<1> QED
  BY <1>1, Invariant, PTL

\* Whatever an agent writes, an item is on clusters of its category and cites their
\* evidence.
THEOREM ItemsAreGrounded == Spec => []ItemsGrounded
<1>1. TypeOK => ItemsGrounded
  <2> SUFFICES ASSUME TypeOK, NEW k \in 1..Latest, NEW i \in Body(reports[k].items)
               PROVE  /\ i.clusters # {} /\ \A c \in i.clusters : CategoryOf[c] = i.category
                      /\ i.evidence # {} /\ i.evidence \subseteq EvidenceOfAll(i.clusters)
    BY DEF ItemsGrounded
  <2>1. reports[k].items \in Contents
    BY ReportsTyped DEF AllReports
  <2>2. i \in ItemsOf(Admitted \union FallbackDrafts) /\ i.category # "watch"
    BY <2>1 DEF Contents, Items, Body
  <2>3. (Admitted \union FallbackDrafts) \in SUBSET AllItemDrafts
    BY AdmittedTypes, FallbackTypes
  <2> QED
    BY <2>2, <2>3, ItemOfDrafts
<1> QED
  BY <1>1, TypeCorrect, PTL

-----------------------------------------------------------------------------
(* The paper *)

PaperIs ==
  /\ Paper \in Papers
  /\ Paper.reports = (IF Latest > 2 THEN 2 ELSE Latest)
  /\ Paper.ready = (reports # <<>> /\ Ready(reports[Latest]))
  /\ Paper.review = review.decision
  /\ Paper.blocking = (review.decision = "revise" /\ review.blocking)
  /\ Paper.matched = (review.current /\ review.report = Latest)

LEMMA PaperTyped == IInv => PaperIs
<1> SUFFICES ASSUME IInv PROVE PaperIs
  OBVIOUS
<1>1. Latest \in Nat /\ review \in AllReviews
  BY ReportsTyped DEF IInv, TypeOK
<1>2. (IF Latest > 2 THEN 2 ELSE Latest) \in 0..2
  BY <1>1
<1>3. (reports # <<>> /\ Ready(reports[Latest])) \in BOOLEAN
  OBVIOUS
<1>4. /\ review.decision \in ReviewDecisions \union {"none"}
      /\ (review.decision = "revise" /\ review.blocking) \in BOOLEAN
      /\ (review.current /\ review.report = Latest) \in BOOLEAN
  BY <1>1 DEF AllReviews
<1> QED
  BY <1>2, <1>3, <1>4 DEF Paper, Papers, PaperIs

\* A paper is its fields.
LEMMA SamePaper ==
  ASSUME NEW p \in Papers, NEW q \in Papers
  PROVE  /\ (/\ p.reports = q.reports /\ p.ready = q.ready /\ p.review = q.review
             /\ p.blocking = q.blocking /\ p.matched = q.matched) => p = q
  BY DEF Papers

LEMMA PaperDrafted ==
  ASSUME NEW p \in Papers, NEW q \in Papers, q.reports > 0,
         q.review = p.review, q.blocking = p.blocking, q.matched = p.matched
  PROVE  q \in Drafted(p)
<1>1. q.reports \in 1..2
  BY DEF Papers
<1> QED
  BY <1>1 DEF Papers, Drafted

LEMMA PaperEdited ==
  ASSUME NEW p \in Papers, NEW q \in Papers, q.reports \in {p.reports, 2},
         q.review = p.review, q.blocking = p.blocking, q.matched = FALSE
  PROVE  q \in Edited(p)
  BY DEF Papers, Edited

LEMMA PaperReviewed ==
  ASSUME NEW p \in Papers, NEW q \in Papers, q.reports = p.reports, p.reports > 0,
         q.review # "none", q.blocking => q.review = "revise",
         p.reports = 1 => q.matched /\ q.ready = (p.ready /\ q.review # "reject")
  PROVE  q \in Reviewed(p)
<1>1. q \in [reports : {p.reports} \ {0}, ready : BOOLEAN, review : ReviewDecisions,
             blocking : BOOLEAN, matched : BOOLEAN]
  BY DEF Papers
<1> QED
  BY <1>1, Zenon DEF Reviewed

LEMMA StorePaper ==
  ASSUME IInv, IInv', StoreDraft \/ FallBack
  PROVE  PaperKept
<1>0. TypeOK /\ Started
  BY DEF IInv
<1>1. stage \in {"writing", "editing"}
  BY <1>0, Stored
<1>2. PICK items \in Contents, focus \in BOOLEAN :
        \/ \E k \in 1..Latest : Replace(k, items, focus)
        \/ Create(items, focus, TRUE)
        \/ stage = "writing" /\ Rewrite(items, focus)
  BY <1>0, Stored
<1>3. /\ reports \in Seq(AllReports) /\ Latest = Len(reports) /\ Latest \in Nat
      /\ review \in AllReviews /\ review.report <= Latest
      /\ reports' \in Seq(AllReports) /\ Latest' = Len(reports') /\ Latest' \in Nat
  BY <1>0, ReportsTyped DEF IInv, TypeOK, Latest
<1>4. /\ Paper \in Papers /\ Paper' \in Papers
      /\ Paper.reports = (IF Latest > 2 THEN 2 ELSE Latest)
      /\ Paper'.reports = (IF Latest' > 2 THEN 2 ELSE Latest')
      /\ Paper.ready = (reports # <<>> /\ Ready(reports[Latest]))
      /\ Paper'.ready = (reports' # <<>> /\ Ready(reports'[Latest']))
      /\ Paper.review = review.decision /\ Paper'.review = review'.decision
      /\ Paper.blocking = (review.decision = "revise" /\ review.blocking)
      /\ Paper'.blocking = (review'.decision = "revise" /\ review'.blocking)
      /\ Paper.matched = (review.current /\ review.report = Latest)
      /\ Paper'.matched = (review'.current /\ review'.report = Latest')
  <2>1. PaperIs /\ PaperIs'
    BY PaperTyped, PTL
  <2> QED
    BY <2>1 DEF PaperIs
<1>a. stage = "writing" => review.current = FALSE
  BY <1>0 DEF Started, NoReview
<1>5. CASE \E k \in 1..Latest : Replace(k, items, focus)
  <2>1. PICK k \in 1..Latest : Replace(k, items, focus)
    BY <1>5
  <2>2. /\ reports' = [reports EXCEPT ![k] = Fresh(items, focus, reports[k].named)]
        /\ review' = [review EXCEPT !.current = review.current /\ k # review.report]
    BY <2>1 DEF Replace
  <2>3. Latest' = Latest /\ \A j \in 1..Latest : j # k => reports'[j] = reports[j]
    BY <1>3, <2>2
  <2>4. /\ review'.report = review.report /\ review'.decision = review.decision
        /\ review'.blocking = review.blocking
        /\ review'.current = (review.current /\ k # review.report)
    BY <1>3, <2>2 DEF AllReviews
  <2>5. Paper'.review = Paper.review /\ Paper'.blocking = Paper.blocking
        /\ Paper'.reports = Paper.reports /\ Paper'.reports > 0
    BY <1>3, <1>4, <2>3, <2>4
  <2>6. CASE k # Latest
    <3>a. Latest > 0 /\ Latest' > 0 /\ Latest \in 1..Latest
      BY <1>3, <2>3
    <3>b. reports'[Latest'] = reports[Latest]
      BY <2>3, <2>6, <3>a
    <3>1. reports # <<>> /\ reports' # <<>> /\ reports'[Latest'] = reports[Latest]
      BY <1>3, <3>a, <3>b
    <3>2. Paper'.ready = Paper.ready
      BY <1>4, <3>1
    <3>3. Paper'.matched = Paper.matched
      BY <1>4, <2>3, <2>4, <2>6
    <3> QED
      BY <1>4, <2>5, <3>2, <3>3, SamePaper DEF PaperKept
  <2>7. CASE k = Latest
    <3>1. Paper'.matched = FALSE
      BY <1>4, <2>3, <2>4, <2>7
    <3>2. CASE stage = "writing"
      <4>1. Paper.matched = FALSE
        BY <1>a, <1>4, <3>2
      <4> QED
        BY <1>4, <2>5, <3>1, <3>2, <4>1, PaperDrafted DEF PaperKept
    <3>3. CASE stage = "editing"
      BY <1>4, <2>5, <3>1, <3>3, PaperEdited DEF PaperKept
    <3> QED
      BY <1>1, <3>2, <3>3
  <2> QED
    BY <2>6, <2>7
<1>6. CASE Create(items, focus, TRUE)
  <2>1. reports' = Append(reports, Fresh(items, focus, TRUE)) /\ review' = review
    BY <1>6 DEF Create
  <2>2. Latest' = Latest + 1
    BY <1>3, <2>1, FreshReport, Appended
  <2>3. Paper'.review = Paper.review /\ Paper'.blocking = Paper.blocking
    BY <1>4, <2>1
  <2>4. Paper'.reports > 0
    BY <1>3, <1>4, <2>2
  <2>5. Paper'.matched = FALSE
    <3>1. review.report # Latest'
      BY <1>3, <2>2 DEF AllReviews
    <3> QED
      BY <1>4, <2>1, <3>1
  <2>6. CASE stage = "writing"
    <3>1. Paper.matched = FALSE
      BY <1>a, <1>4, <2>6
    <3> QED
      BY <1>4, <2>3, <2>4, <2>5, <2>6, <3>1, PaperDrafted DEF PaperKept
  <2>7. CASE stage = "editing"
    <3>1. reports # <<>>
      BY <1>0, <2>7 DEF Started
    <3>2. Latest > 0
      BY <1>3, <3>1
    <3>3. Paper'.reports \in {Paper.reports, 2}
      BY <1>3, <1>4, <2>2, <3>2
    <3> QED
      BY <1>4, <2>3, <2>5, <2>7, <3>3, PaperEdited DEF PaperKept
  <2> QED
    BY <1>1, <2>6, <2>7
<1>7. CASE stage = "writing" /\ Rewrite(items, focus)
  <2>1. reports' = Append(Others, Fresh(items, focus, FALSE)) /\ review' = review
    BY <1>7 DEF Rewrite
  <2>2. review = NoReview
    BY <1>0, <1>7 DEF Started
  <2>3. Len(reports') = Len(Others) + 1 /\ Len(Others) \in Nat
    BY <1>0, <2>1, OthersTyped, FreshReport, Appended
  <2>4. Latest' > 0
    <3> DEFINE n == Len(Others)
    <3>1. n \in Nat /\ Latest' = n + 1
      BY <1>3, <2>3
    <3> HIDE DEF n
    <3> QED
      BY <3>1
  <2>5. Paper'.reports > 0
    BY <1>3, <1>4, <2>4
  <2>6. Paper'.matched = FALSE /\ Paper.matched = FALSE
    BY <1>4, <2>1, <2>2 DEF NoReview
  <2>7. Paper'.review = Paper.review /\ Paper'.blocking = Paper.blocking
    BY <1>4, <2>1
  <2> QED
    BY <1>4, <1>7, <2>5, <2>6, <2>7, PaperDrafted DEF PaperKept
<1> QED
  BY <1>2, <1>5, <1>6, <1>7

LEMMA ReviewPaper ==
  ASSUME IInv, IInv', NEW k, Review(k)
  PROVE  PaperKept
<1>0. TypeOK /\ FailedOnce
  BY DEF IInv
<1>1. /\ k \in 1..Latest /\ k \notin touched
      /\ stage \in {"reviewing", "rereviewing"}
  BY ReviewEffect
<1>2. PICK decision \in ReviewDecisions, blocking \in BOOLEAN :
        /\ review' = [report |-> k, decision |-> decision, blocking |-> blocking, current |-> TRUE]
        /\ reports' = [reports EXCEPT ![k].status = StatusAfter(decision)]
        /\ decision = "pass" => Guarded(reports[k].items) = {}
  BY ReviewEffect
<1>3. StatusAfter(decision) \in Statuses
      /\ (StatusAfter(decision) = "failed" <=> decision = "reject")
  BY DEF StatusAfter, Statuses, ReviewDecisions
<1>4. /\ Len(reports') = Len(reports)
      /\ reports'[k].status = StatusAfter(decision)
      /\ \A j \in 1..Latest : /\ reports'[j].items = reports[j].items
                              /\ reports'[j].focus = reports[j].focus
  BY <1>0, <1>1, <1>2, <1>3, StatusOnly
<1>5. Latest' = Latest /\ Latest \in Nat
  BY <1>0, <1>4, ReportsTyped DEF Latest
<1>6. PaperIs /\ PaperIs'
  BY PaperTyped, PTL
<1>7. /\ Paper'.reports = Paper.reports /\ Paper.reports > 0
      /\ Paper.reports = 1 => Latest = 1
  BY <1>1, <1>5, <1>6 DEF PaperIs
<1>8. /\ Paper'.review = decision /\ decision # "none"
      /\ Paper'.blocking = (decision = "revise" /\ blocking)
      /\ Paper'.matched = (k = Latest)
  BY <1>2, <1>5, <1>6 DEF PaperIs, ReviewDecisions
<1>9. ASSUME Latest = 1
      PROVE  Paper'.matched /\ Paper'.ready = (Paper.ready /\ decision # "reject")
  <2>1. k = 1
    BY <1>1, <1>9
  <2>2. reports[1].status # "failed"
    BY <1>0, <1>1, <1>9, <2>1 DEF FailedOnce
  <2>3. reports # <<>> /\ reports' # <<>>
    <3>1. Len(reports) = 1 /\ Len(reports') = 1
      BY <1>4, <1>9 DEF Latest
    <3>2. Len(<<>>) # 1
      OBVIOUS
    <3> QED
      BY <3>1, <3>2
  <2>4. /\ reports'[1].items = reports[1].items /\ reports'[1].focus = reports[1].focus
        /\ reports'[1].status = "failed" <=> decision = "reject"
    BY <1>3, <1>4, <1>9, <2>1
  <2>5. Ready(reports'[1]) = (Ready(reports[1]) /\ decision # "reject")
    BY <2>2, <2>4 DEF Ready
  <2>6. Paper.ready = Ready(reports[1])
    BY <1>6, <1>9, <2>3 DEF PaperIs, Ready
  <2>7. Paper'.ready = Ready(reports'[1])
    BY <1>5, <1>6, <1>9, <2>3 DEF PaperIs, Ready
  <2> QED
    BY <1>8, <1>9, <2>1, <2>5, <2>6, <2>7
<1>10. Paper \in Papers /\ Paper' \in Papers
  BY <1>6 DEF PaperIs
<1>11. Paper' \in Reviewed(Paper)
  BY <1>7, <1>8, <1>9, <1>10, PaperReviewed
<1> QED
  BY <1>1, <1>11 DEF PaperKept

LEMMA GatePaper ==
  ASSUME IInv, IInv', Gate
  PROVE  Paper' = Paper
<1>0. TypeOK
  BY DEF IInv
<1>1. review' = review
  BY DEF Gate
<1>2. \/ UNCHANGED reports
      \/ Outcome = "finalize" /\ reports' = [reports EXCEPT ![Latest].status = "final"]
  BY DEF Gate
<1>3. CASE UNCHANGED reports
  BY <1>1, <1>3 DEF Paper, Latest
<1>4. CASE Outcome = "finalize" /\ reports' = [reports EXCEPT ![Latest].status = "final"]
  <2>1. reports # <<>> /\ Ready(reports[Latest])
    BY <1>0, <1>4, OutcomeCases
  <2>2. Latest \in 1..Latest
    BY <1>0, <2>1 DEF TypeOK, Latest
  <2>3. "final" \in Statuses
    BY DEF Statuses
  <2>4. /\ Len(reports') = Len(reports) /\ reports'[Latest].status = "final"
        /\ reports'[Latest].items = reports[Latest].items
        /\ reports'[Latest].focus = reports[Latest].focus
    BY <1>0, <1>4, <2>2, <2>3, StatusOnly
  <2>5. Latest' = Latest
    BY <2>4 DEF Latest
  <2>6. Ready(reports'[Latest'])
    BY <2>1, <2>4, <2>5 DEF Ready
  <2>7. reports' # <<>>
    BY <1>0, <1>4, <2>1, <2>2, <2>4 DEF TypeOK, Latest
  <2>8. PaperIs /\ PaperIs'
    BY PaperTyped, PTL
  <2>9. /\ Paper'.reports = Paper.reports /\ Paper'.review = Paper.review
        /\ Paper'.blocking = Paper.blocking /\ Paper'.matched = Paper.matched
    BY <1>1, <2>5, <2>8 DEF PaperIs
  <2>10. Paper.ready = TRUE /\ Paper'.ready = TRUE
    BY <2>1, <2>6, <2>7, <2>8 DEF PaperIs
  <2> QED
    BY <2>8, <2>9, <2>10, SamePaper DEF PaperIs
<1> QED
  BY <1>2, <1>3, <1>4

\* The paper changes as RunHarness lets its Writer, Reviewer and Editor change it.
THEOREM PaperIsKept == Spec => KeepsPaper
<1>1. IInv /\ IInv' /\ [Next]_vars => [PaperKept]_vars
  <2> SUFFICES ASSUME IInv, IInv', [Next]_vars PROVE [PaperKept]_vars
    OBVIOUS
  <2>1. CASE StoreDraft \/ FallBack
    BY <2>1, StorePaper
  <2>2. CASE \E k \in 1..MaxReports : Review(k)
    BY <2>2, ReviewPaper
  <2>3. CASE Gate
    BY <2>3, GatePaper DEF PaperKept
  <2>4. CASE StartRound \/ Exhausted \/ RefuseDraft \/ RefuseReview \/ EndTask \/ UNCHANGED vars
    <3>1. UNCHANGED <<reports, review>>
      BY <2>4, RefusalCauses DEF StartRound, Exhausted, EndTask, vars
    <3>2. Paper' = Paper
      BY <3>1 DEF Paper, Latest
    <3> QED
      BY <3>2 DEF PaperKept
  <2> QED
    BY <2>1, <2>2, <2>3, <2>4 DEF Next
<1> QED
  BY <1>1, Invariant, PTL DEF Spec, KeepsPaper

-----------------------------------------------------------------------------
(* The fallbacks *)

\* The item made up of a cluster.
MadeUp(c) ==
  [category |-> CategoryOf[c], clusters |-> {c}, evidence |-> EvidenceOf[c],
   wording |-> ClaimOf[c], label |-> CategoryOf[c] = "signal", impact |-> TRUE,
   followups |-> TRUE]

\* The made-up drafts are items as they stand.
LEMMA MadeUpItem ==
  ASSUME NEW c \in Selected
  PROVE  Repaired(MadeUp(c)) = {MadeUp(c)} /\ ~Lacking(MadeUp(c)) /\ ~Unfilled(MadeUp(c))
<1> DEFINE d == MadeUp(c)
<1>1. d \in FallbackDrafts
  BY DEF FallbackDrafts, MadeUp
<1>2. d \in AllItemDrafts /\ ~Unknown(d)
  BY <1>1, FallbackTypes
<1>3. /\ d.category = CategoryOf[c] /\ d.clusters = {c} /\ d.evidence = EvidenceOf[c]
      /\ d.label = (CategoryOf[c] = "signal") /\ d.impact = TRUE /\ d.followups = TRUE
  BY DEF MadeUp
<1>4. c \in Clusters /\ CategoryOf[c] \in Categories /\ CategoryOf[c] # "watch"
      /\ EvidenceOf[c] # {} /\ EvidenceOfAll({c}) = EvidenceOf[c]
  BY ReviewAssumption DEF Categories, EvidenceOfAll
<1> HIDE DEF d
<1>5. Normalized(d) = {d}
  <2>1. PrimaryCategories(d) = {d.category}
    BY <1>3 DEF PrimaryCategories
  <2>2. OfCategory(d, d.category) = d.clusters
    BY <1>3, <1>4 DEF OfCategory
  <2>3. [d EXCEPT !.category = d.category] = d
    BY <1>2, DraftRecord
  <2>4. d.category # "watch"
    BY <1>3, <1>4
  <2> QED
    BY <2>1, <2>2, <2>3, <2>4 DEF Normalized
<1>6. WithLineage(d) = d
  <2> DEFINE evidence == d.evidence \intersect IF d.category = "watch" \/ ValidClusters(d) = {}
                                               THEN Evidence ELSE EvidenceOfAll(ValidClusters(d))
  <2>1. ValidClusters(d) = d.clusters
    BY <1>3, <1>4 DEF ValidClusters, OfCategory
  <2>2. evidence = d.evidence
    BY <1>3, <1>4, <2>1
  <2>3. WithLineage(d) = [d EXCEPT !.clusters = d.clusters, !.evidence = evidence]
    BY <2>1 DEF WithLineage
  <2> HIDE DEF evidence
  <2> QED
    BY <1>2, <2>2, <2>3, DraftRecord
<1>7. WithImpact(d) = d
  BY <1>2, <1>3, DraftRecord DEF WithImpact
<1>8. WithUncertainty(d) = d
  <2>1. CASE d.category = "signal"
    <3>1. d.label = TRUE
      BY <1>3, <2>1
    <3> QED
      BY <1>2, <3>1, DraftRecord DEF WithUncertainty
  <2>2. CASE d.category # "signal"
    BY <2>2 DEF WithUncertainty
  <2> QED
    BY <2>1, <2>2
<1>9. WithFollowups(d) = d
  BY <1>2, <1>3, DraftRecord DEF WithFollowups
<1>10. ~Lacking(d) /\ ~Unfilled(d)
  BY <1>3, <1>4 DEF Lacking, Unfilled
<1>11. Repaired(d) = {d}
  BY <1>5, <1>6, <1>7, <1>8, <1>9 DEF Repaired
<1> QED
  BY <1>10, <1>11 DEF d

LEMMA MadeUpItems == ItemsOf(FallbackDrafts) = {MadeUp(c) : c \in Selected}
<1>1. FallbackDrafts = {MadeUp(c) : c \in Selected}
  BY DEF FallbackDrafts, MadeUp
<1>2. \A d \in FallbackDrafts : Repaired(d) = {d} /\ ~Lacking(d) /\ ~Unfilled(d) /\ ~Unknown(d)
  BY <1>1, MadeUpItem, FallbackTypes
<1> QED
  BY <1>1, <1>2 DEF ItemsOf

LEMMA MadeUpReport ==
  ASSUME NEW items, items = ItemsOf(FallbackDrafts), NEW r, r = Fresh(items, TRUE, FALSE),
         \A c \in Selected : Bucket(CategoryOf[c]) # "none",
         Cardinality(Selected) >= MinReportBodyItems
  PROVE  Ready(r)
<1>1. items = {MadeUp(c) : c \in Selected}
  BY MadeUpItems
<1>2. r.items = items /\ r.focus = TRUE /\ r.status = "draft"
  BY DEF Fresh
<1>3. \A c \in Selected : MadeUp(c).category = CategoryOf[c] /\ MadeUp(c).clusters = {c}
  BY DEF MadeUp
<1>4. Body(items) = items
  BY <1>1, <1>3, ReviewAssumption DEF Body, Categories
<1>5. Selected \subseteq Shown(items)
  BY <1>1, <1>3 DEF Shown
<1>6. Cardinality(items) = Cardinality(Selected)
  <2> DEFINE F == [c \in Selected |-> MadeUp(c)]
  <2>1. IsFiniteSet(Selected)
    BY ReviewAssumption, FS_Subset
  <2>2. F \in Bijection(Selected, items)
    <3>1. F \in [Selected -> items] /\ \A i \in items : \E c \in Selected : F[c] = i
      BY <1>1
    <3>2. \A c \in Selected : F[c].clusters = {c}
      BY <1>3
    <3>3. \A b \in Selected : \A c \in Selected : F[b] = F[c] => b = c
      BY <3>2
    <3> HIDE DEF F
    <3> QED
      BY <3>1, <3>3 DEF Bijection, Injection, Surjection, IsInjective
  <2> HIDE DEF F
  <2> QED
    BY <2>1, <2>2, FS_Bijection DEF ExistsBijection
<1> QED
  BY <1>2, <1>4, <1>5, <1>6 DEF Ready

\* A fallback loses nothing of what was selected, and nothing of what was written.
THEOREM FallbackIsComplete == Spec => FallbackKeepsReport
<1>1. IInv /\ [Next]_vars => [ReportKept]_vars
  <2> SUFFICES ASSUME IInv, FallBack PROVE ReportKept
    BY DEF ReportKept
  <2>0. TypeOK /\ Started
    BY DEF IInv
  <2>1. CASE stage = "writing"
    <3> SUFFICES ASSUME \A c \in Selected : Bucket(CategoryOf[c]) # "none",
                        Cardinality(Selected) >= MinReportBodyItems
                 PROVE  Ready(reports'[Len(reports')])
      BY <2>1 DEF ReportKept
    <3>1. PICK items \in Contents : items = ItemsOf(FallbackDrafts) /\ Rewrite(items, TRUE)
      BY <2>1 DEF FallBack
    <3> DEFINE fresh == Fresh(items, TRUE, FALSE)
    <3>2. fresh \in AllReports /\ reports' = Append(Others, fresh)
      BY <3>1, FreshReport DEF Rewrite
    <3>3. Ready(fresh)
      BY <3>1, MadeUpReport
    <3> HIDE DEF fresh
    <3>4. reports'[Len(reports')] = fresh
      BY <2>0, <3>2, OthersTyped, Appended
    <3> QED
      BY <3>3, <3>4
  <2>2. CASE stage = "editing"
    <3>1. Latest \in 1..Latest /\ reports \in Seq(AllReports) /\ Latest = Len(reports)
      BY <2>0, <2>2 DEF Started, Latest, TypeOK
    <3>2. reports[Latest].items \in Contents
      BY <2>0, <3>1, ReportsTyped DEF AllReports
    <3>3. ItemsOf(reports[Latest].items) = reports[Latest].items
      <4>1. (Admitted \union FallbackDrafts) \in SUBSET AllItemDrafts
        BY AdmittedTypes, FallbackTypes
      <4>2. reports[Latest].items \in SUBSET ItemsOf(Admitted \union FallbackDrafts)
        BY <3>2 DEF Contents, Items
      <4> QED
        BY <4>1, <4>2, ItemsAreFixed
    <3>4. PICK focus : Replace(Latest, ItemsOf(reports[Latest].items), focus)
      BY <2>2 DEF FallBack
    <3> DEFINE fresh == Fresh(reports[Latest].items, focus, reports[Latest].named)
    <3>5. reports' = [reports EXCEPT ![Latest] = fresh]
      BY <3>3, <3>4 DEF Replace
    <3>6. fresh.items = reports[Latest].items
      BY DEF Fresh
    <3> HIDE DEF fresh
    <3>7. reports'[Latest] = fresh
      BY <3>1, <3>5
    <3> QED
      BY <2>2, <3>6, <3>7 DEF ReportKept
  <2> QED
    BY <2>1, <2>2 DEF FallBack
<1> QED
  BY <1>1, Invariant, PTL DEF Spec, FallbackKeepsReport
=============================================================================
