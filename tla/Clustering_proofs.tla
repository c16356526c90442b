--------------------------- MODULE Clustering_proofs ---------------------------
(***************************************************************************)
(* Theorems about Clustering, for any scouts, URLs and keys and any number *)
(* of sweeps and drafts.  What the runner makes up at the limit of         *)
(* iterations fits the four tables of ScoutProfiles for every role and     *)
(* tool.  The safety properties rest on what is said here of the items a   *)
(* scout has drawn (Drawn) and of the clusters that are committed (Saved). *)
(***************************************************************************)
EXTENDS Clustering, TLAPS

-----------------------------------------------------------------------------
(* The profiles *)

\* A role's tools yield sources that its profile accepts.
LEMMA SourcesAccepted == \A role \in Roles : Sources(role) \subseteq AcceptedSources(role)
<1> SUFFICES ASSUME NEW role \in Roles, NEW t \in Tools(role)
             PROVE  t.source \in AcceptedSources(role)
  BY DEF Sources
<1>1. CASE role = "social_scout"
  BY <1>1 DEF Tools, AcceptedSources
<1>2. CASE role = "code_model_scout"
  BY <1>2 DEF Tools, AcceptedSources
<1>3. CASE role = "research_scout"
  BY <1>3 DEF Tools, AcceptedSources
<1>4. CASE role = "official_scout"
  BY <1>4 DEF Tools, AcceptedSources
<1>5. CASE role = "finance_scout"
  BY <1>5 DEF Tools, AcceptedSources
<1> QED
  BY <1>1, <1>2, <1>3, <1>4, <1>5 DEF Roles

\* The strengths a role's tools yield.
LEMMA ToolStrengths ==
  ASSUME NEW role \in Roles, NEW t \in Tools(role)
  PROVE  /\ t.strength \in {"weak", "moderate", "strong", "official"}
         /\ role = "finance_scout" => t.strength \in {"strong", "official"}
<1>1. CASE role = "social_scout"
  BY <1>1 DEF Tools
<1>2. CASE role = "code_model_scout"
  BY <1>2 DEF Tools
<1>3. CASE role = "research_scout"
  BY <1>3 DEF Tools
<1>4. CASE role = "official_scout"
  BY <1>4 DEF Tools
<1>5. CASE role = "finance_scout"
  BY <1>5 DEF Tools
<1> QED
  BY <1>1, <1>2, <1>3, <1>4, <1>5 DEF Roles

\* The profiles, the tools, the repairs and the runner agree: what the runner makes up
\* of the results of a role's tools is admitted (agents/runner.py, scouts/profiles.py,
\* tools/builtin.py, harness/materialization.py).
THEOREM FallbackFits ==
  ASSUME NEW role \in Roles, NEW t \in Tools(role),
         NEW sources \in SUBSET Sources(role), sources # {}
  PROVE  Admits(role, Fallback(role, t.strength), sources)
<1> DEFINE d == Fallback(role, t.strength)
<1>1. sources \subseteq AcceptedSources(role)
  BY SourcesAccepted
<1>2. t.strength \in {"weak", "moderate", "strong", "official"}
      /\ (role = "finance_scout" => t.strength \in {"strong", "official"})
  BY ToolStrengths
<1>3. d = [category |-> FallbackCategory(role), status |-> FallbackStatus(role, t.strength),
           strength |-> FallbackStrength(role, t.strength), traded |-> TRUE]
  BY DEF Fallback
<1>4. CASE role = "social_scout"
  <2>1. d = [category |-> "early_signal", status |-> "community_rumor",
             strength |-> t.strength, traded |-> TRUE]
    BY <1>2, <1>3, <1>4 DEF FallbackCategory, FallbackStatus, FallbackStrength
  <2>2. ForProfile(role, d) = d
    BY <1>4 DEF ForProfile
  <2>3. Fits(role, d, sources) /\ IsCandidate(d, sources)
    BY <1>1, <1>4, <2>1 DEF Fits, IsCandidate, AllowedCategories, AllowedStatuses, EarlyStatuses
  <2> QED
    BY <2>2, <2>3 DEF Admits
<1>5. CASE role = "code_model_scout"
  <2>1. d = [category |-> "code_model", status |-> "code_anomaly",
             strength |-> t.strength, traded |-> TRUE]
    BY <1>2, <1>3, <1>5 DEF FallbackCategory, FallbackStatus, FallbackStrength
  <2>2. ForProfile(role, d) = d
    BY <1>5 DEF ForProfile
  <2>3. Fits(role, d, sources) /\ IsCandidate(d, sources)
    BY <1>1, <1>5, <2>1 DEF Fits, IsCandidate, AllowedCategories, AllowedStatuses
  <2> QED
    BY <2>2, <2>3 DEF Admits
<1>6. CASE role = "research_scout"
  <2>1. d = [category |-> "research", status |-> "researcher_hint",
             strength |-> t.strength, traded |-> TRUE]
    BY <1>2, <1>3, <1>6 DEF FallbackCategory, FallbackStatus, FallbackStrength
  <2>2. ForProfile(role, d) = d
    BY <1>6 DEF ForProfile
  <2>3. Fits(role, d, sources) /\ IsCandidate(d, sources)
    BY <1>1, <1>6, <2>1 DEF Fits, IsCandidate, AllowedCategories, AllowedStatuses
  <2> QED
    BY <2>2, <2>3 DEF Admits
<1>7. CASE role = "official_scout"
  <2>1. d = [category |-> "official_update", status |-> "official_confirmation",
             strength |-> "official", traded |-> TRUE]
    BY <1>3, <1>7 DEF FallbackCategory, FallbackStatus, FallbackStrength
  <2>2. ForProfile(role, d) = d
    BY <1>7, <2>1 DEF ForProfile, AllowedCategories
  <2>3. Fits(role, d, sources) /\ IsCandidate(d, sources)
    BY <1>1, <1>7, <2>1 DEF Fits, IsCandidate, AllowedCategories, AllowedStatuses
  <2> QED
    BY <2>2, <2>3 DEF Admits
<1>8. CASE role = "finance_scout"
  <2>1. d = [category |-> "tech_finance", status |-> "confirmed_fact",
             strength |-> t.strength, traded |-> TRUE]
    BY <1>2, <1>3, <1>8 DEF FallbackCategory, FallbackStatus, FallbackStrength
  <2>2. ForProfile(role, d) = d
    <3>1. FinanceStatus("confirmed_fact") = "confirmed_fact"
      BY DEF FinanceStatus, EarlyStatuses
    <3>2. ForProfile(role, d) = [d EXCEPT !.category = "tech_finance", !.status = FinanceStatus(@)]
      BY <1>8 DEF ForProfile
    <3> HIDE DEF d
    <3> QED
      BY <2>1, <3>1, <3>2
  <2>3. Fits(role, d, sources) /\ IsCandidate(d, sources)
    BY <1>1, <1>2, <1>8, <2>1 DEF Fits, IsCandidate, AllowedCategories, AllowedStatuses
  <2> QED
    BY <2>2, <2>3 DEF Admits
<1> QED
  BY <1>4, <1>5, <1>6, <1>7, <1>8 DEF Roles

-----------------------------------------------------------------------------
(* The inductive invariant *)

\* What a scout has drawn is its own and of this sweep.  Once it answered, it is
\* committed; until then it is the only one that has drawn something, and nothing
\* in the evidence has one of its URLs.
Drawn ==
  /\ \A s \in Scouts : \A d \in drawn[s] : d.by = s /\ d.sweep = sweep
  /\ \A e \in evidence : e.sweep <= sweep
  /\ \A s \in answered : drawn[s] \subseteq evidence
  /\ \A r, s \in working : r = s \/ drawn[r] = {} \/ drawn[s] = {}
  /\ \A s \in working : \A d \in drawn[s], e \in evidence : d.url = e.url => d = e

\* The lineage names what is committed, which is what there is between two rounds.
Saved ==
  /\ stage \in {"idle", "scouting", "clustering"} => lineage = {k \in Keys : saved[k] # NoCluster}
  /\ stage \in {"idle", "scouting"} => clusters = saved
  /\ \A k \in Keys : saved[k] # NoCluster => clusters[k] # NoCluster
  /\ \A k \in Keys : saved[k] # NoCluster =>
       /\ saved[k].candidates # {} /\ saved[k].candidates \subseteq candidates
       /\ saved[k].evidence # {} /\ saved[k].evidence \subseteq evidence

\* A sweep that is going on has a number, and one that is over left nothing to
\* materialize.
Counted ==
  /\ stage = "scouting" => sweep # 0
  /\ stage \in {"idle", "clustering"} => answered = {}

IInv == TypeOK /\ Counted /\ Drawn /\ Saved /\ Grounded /\ OneItemPerUrl

-----------------------------------------------------------------------------
(* Helpers *)

LEMMA InitInv == Init => IInv
<1> SUFFICES ASSUME Init PROVE IInv
  OBVIOUS
<1>1. NoCluster \in Clusters
  BY DEF NoCluster, Clusters
<1>2. TypeOK
  BY <1>1, ClusteringAssumption DEF Init, TypeOK, Stages
<1>3. Counted /\ Drawn /\ Saved /\ Grounded /\ OneItemPerUrl
  BY DEF Init, Counted, Drawn, Saved, Grounded, OneItemPerUrl
<1> QED
  BY <1>2, <1>3 DEF IInv

\* What a draft cites is in the database.
LEMMA CitedResolves ==
  ASSUME NEW s, NEW ids, NEW named
  PROVE  Cited(s, ids, named) \subseteq evidence \union OfEarlier
  BY DEF Cited, Resolved

\* A draft cites nothing of the run only if its scout's tools returned nothing, or if
\* it cites an earlier run.
LEMMA CitedOfRun ==
  ASSUME NEW s, NEW ids, NEW named, drawn[s] \subseteq evidence,
         Cited(s, ids, named) \intersect evidence = {}
  PROVE  drawn[s] = {} \/ Cited(s, ids, named) \intersect OfEarlier # {}
  BY DEF Cited, Resolved

LEMMA MayCiteResolves ==
  ASSUME NEW s, drawn[s] \subseteq evidence, NEW cited \in MayCite(s)
  PROVE  /\ cited \subseteq evidence \union OfEarlier
         /\ cited \intersect evidence = {} => drawn[s] = {} \/ cited \intersect OfEarlier # {}
<1>1. PICK ids \in Drafted, named \in Drafted : cited = Cited(s, ids, named)
  BY DEF MayCite
<1> QED
  BY <1>1, CitedResolves, CitedOfRun

\* New items are of their scout, of the sweep, and of URLs that the scout does not see.
LEMMA FreshOnes ==
  ASSUME NEW s, NEW urls \in SUBSET Urls, NEW d \in FreshItems(s, urls)
  PROVE  /\ d = [by |-> s, url |-> d.url, sweep |-> sweep] /\ d.url \in Urls
         /\ \A e \in evidence \union drawn[s] : e.url # d.url
  BY DEF FreshItems, Item, Visible

\* What a group of candidates and the ids of a draft amount to.
LEMMA ProposalsGrounded ==
  ASSUME NEW p \in Proposals
  PROVE  /\ p.group # {} /\ p.group \subseteq candidates
         /\ p.found \subseteq evidence
         /\ p.found = {} => \E c \in candidates : c.evidence \intersect evidence = {}
<1> DEFINE Asked(g, i) ==
             {[group |-> g, found |-> EvidenceOf(g, i)]}
               \union {[group |-> part, found |-> EvidenceOf(part, {})] : part \in Parts(g)}
           Of(i) == UNION {UNION {Asked(g, i) : g \in Grouped(named, i)} :
                             named \in SUBSET candidates}
<1>1. PICK ids \in Drafted : p \in Of(ids)
  <2>1. p \in UNION {Of(i) : i \in Drafted}
    BY DEF Proposals
  <2> HIDE DEF Of
  <2> QED
    BY <2>1
<1>2. PICK named \in SUBSET candidates : p \in UNION {Asked(g, ids) : g \in Grouped(named, ids)}
  <2> HIDE DEF Asked
  <2> QED
    BY <1>1
<1>3. PICK group \in Grouped(named, ids) : p \in Asked(group, ids)
  <2> HIDE DEF Asked
  <2> QED
    BY <1>2
<1>4. group # {} /\ group \subseteq candidates
  BY DEF Grouped
<1>5. PICK i : p.group # {} /\ p.group \subseteq candidates /\ p.found = EvidenceOf(p.group, i)
  <2>1. CASE p = [group |-> group, found |-> EvidenceOf(group, ids)]
    BY <1>4, <2>1
  <2>2. CASE \E part \in Parts(group) : p = [group |-> part, found |-> EvidenceOf(part, {})]
    <3>1. PICK part \in Parts(group) : p = [group |-> part, found |-> EvidenceOf(part, {})]
      BY <2>2
    <3>2. part # {} /\ part \subseteq group
      BY DEF Parts
    <3> QED
      BY <1>4, <3>1, <3>2
  <2> QED
    BY <1>3, <2>1, <2>2
<1>6. ASSUME p.found = {} PROVE \E c \in candidates : c.evidence \intersect evidence = {}
  <2>1. PICK c \in p.group : TRUE
    BY <1>5
  <2>2. c.evidence \intersect evidence \subseteq EvidenceOf(p.group, i)
    BY <2>1 DEF EvidenceOf
  <2> QED
    BY <1>5, <1>6, <2>1, <2>2
<1> QED
  BY <1>5, <1>6 DEF EvidenceOf

LEMMA KnownEvidence ==
  ASSUME TypeOK, NEW cited, cited \subseteq evidence \union OfEarlier, NEW s \in Scouts
  PROVE  [by |-> s, evidence |-> cited] \in Candidates
<1>1. cited \in SUBSET (Items \union OfEarlier)
  BY DEF TypeOK
<1> QED
  BY <1>1 DEF Candidates

-----------------------------------------------------------------------------
(* The parts of the invariant, step by step *)

\* The steps that touch neither the clusters nor what the scouts have drawn.
MoveOn(s) == \/ MaterializeCandidate(s) \/ MaterializeFallback(s)
             \/ MaterializedAll(s) \/ RefuseCandidate(s)

\* A candidate that is added cites what is in the database.
LEMMA NewCandidate ==
  ASSUME TypeOK, Drawn, NEW s \in Scouts, MoveOn(s)
  PROVE  \/ UNCHANGED candidates
         \/ \E cited \in SUBSET (evidence \union OfEarlier) :
              /\ candidates' = candidates \union {[by |-> s, evidence |-> cited]}
              /\ cited \intersect evidence = {} =>
                   drawn[s] = {} \/ cited \intersect OfEarlier # {}
<1>1. ASSUME MaterializeCandidate(s)
      PROVE  \E cited \in SUBSET (evidence \union OfEarlier) :
              /\ candidates' = candidates \union {[by |-> s, evidence |-> cited]}
              /\ cited \intersect evidence = {} =>
                   drawn[s] = {} \/ cited \intersect OfEarlier # {}
  <2>1. PICK cited \in MayCite(s) : candidates' = candidates \union {[by |-> s, evidence |-> cited]}
    BY <1>1 DEF MaterializeCandidate
  <2>2. drawn[s] \subseteq evidence
    BY <1>1 DEF MaterializeCandidate, MayMaterialize, Drawn
  <2> QED
    BY <2>1, <2>2, MayCiteResolves
<1>2. ASSUME MaterializeFallback(s)
      PROVE  \E cited \in SUBSET (evidence \union OfEarlier) :
              /\ candidates' = candidates \union {[by |-> s, evidence |-> cited]}
              /\ cited \intersect evidence = {} =>
                   drawn[s] = {} \/ cited \intersect OfEarlier # {}
  <2>1. candidates' = candidates \union {[by |-> s, evidence |-> Cited(s, drawn[s], drawn[s])]}
    BY <1>2 DEF MaterializeFallback
  <2>2. drawn[s] \subseteq evidence
    BY <1>2 DEF MaterializeFallback, MayMaterialize, Drawn
  <2> QED
    BY <2>1, <2>2, CitedResolves, CitedOfRun
<1> QED
  BY <1>1, <1>2 DEF MoveOn, MaterializedAll, RefuseCandidate

LEMMA TypeStep == TypeOK /\ Counted /\ Drawn /\ [Next]_vars => TypeOK'
<1> SUFFICES ASSUME TypeOK, Counted, Drawn, [Next]_vars PROVE TypeOK'
  OBVIOUS
<1> USE ClusteringAssumption
<1>1. ASSUME StartSweep PROVE TypeOK'
  BY <1>1 DEF StartSweep, Counted, TypeOK, Stages
<1>2. ASSUME StartClustering PROVE TypeOK'
  BY <1>2 DEF StartClustering, TypeOK, Stages
<1>3. ASSUME EndClustering PROVE TypeOK'
  BY <1>3 DEF EndClustering, Named, TypeOK, Stages
<1>4. ASSUME MaterializeCluster PROVE TypeOK'
  <2>1. PICK k \in Keys, p \in Proposals : StoreCluster(k, p.group, p.found)
    BY <1>4 DEF MaterializeCluster
  <2>2. p.group \subseteq Candidates /\ p.found \subseteq Items \union OfEarlier
    BY ProposalsGrounded DEF TypeOK
  <2>3. Merged(k, p.group, p.found) \in [Keys -> Clusters]
    <3> DEFINE c == [candidates |-> clusters[k].candidates \union p.group,
                     evidence |-> clusters[k].evidence \union p.found]
    <3>1. clusters[k] \in Clusters
      BY DEF TypeOK
    <3>2. clusters[k] = [candidates |-> clusters[k].candidates, evidence |-> clusters[k].evidence]
      BY <3>1 DEF Clusters
    <3>3. c \in Clusters
      BY <2>2, <3>1, <3>2 DEF Clusters
    <3>4. Merged(k, p.group, p.found) = [clusters EXCEPT ![k] = c]
      BY <3>2 DEF Merged
    <3> HIDE DEF c
    <3> QED
      BY <3>3, <3>4 DEF TypeOK
  <2>4. /\ clusters' \in [Keys -> Clusters] /\ saved' \in [Keys -> Clusters]
        /\ drafts' \in 0..MaxDrafts /\ stage' \in Stages /\ lineage' \in SUBSET Keys
    BY <1>4, <2>1, <2>3 DEF MaterializeCluster, StoreCluster, TypeOK, Stages
  <2> QED
    BY <1>4, <2>4 DEF MaterializeCluster, TypeOK
<1>5. ASSUME NEW s \in Scouts, CallTool(s) PROVE TypeOK'
  <2>1. PICK urls \in SUBSET Urls : drawn' = [drawn EXCEPT ![s] = @ \union FreshItems(s, urls)]
    BY <1>5 DEF CallTool
  <2>2. sweep \in 1..MaxSweeps
    BY <1>5 DEF CallTool, HasTurn, Counted, TypeOK
  <2>3. FreshItems(s, urls) \in SUBSET Items
    <3> SUFFICES ASSUME NEW d \in FreshItems(s, urls) PROVE d \in Items
      OBVIOUS
    <3> QED
      BY <2>2, FreshOnes DEF Items
  <2> QED
    BY <1>5, <2>1, <2>3 DEF CallTool, TypeOK
<1>6. ASSUME NEW s \in Scouts, Answer(s) \/ FailAgent(s) PROVE TypeOK'
  BY <1>6 DEF Answer, FailAgent, TypeOK
<1>7. ASSUME NEW s \in Scouts, MoveOn(s) PROVE TypeOK'
  <2>1. candidates' \in SUBSET Candidates
    BY <1>7, NewCandidate, KnownEvidence DEF TypeOK
  <2> QED
    BY <1>7, <2>1 DEF MoveOn, MaterializeCandidate, MaterializeFallback, MaterializedAll,
                      RefuseCandidate, TypeOK, Stages
<1>8. ASSUME UNCHANGED vars PROVE TypeOK'
  BY <1>8 DEF vars, TypeOK
<1> QED
  BY <1>1, <1>2, <1>3, <1>4, <1>5, <1>6, <1>7, <1>8 DEF Next, MoveOn

\* A scout commits what differs from all there is.
LEMMA DrawnStep ==
  TypeOK /\ Counted /\ Drawn /\ OneItemPerUrl /\ [Next]_vars => Counted' /\ Drawn' /\ OneItemPerUrl'
<1> SUFFICES ASSUME TypeOK, Counted, Drawn, OneItemPerUrl, [Next]_vars
             PROVE  Counted' /\ Drawn' /\ OneItemPerUrl'
  OBVIOUS
<1>1. ASSUME StartSweep PROVE Counted' /\ Drawn' /\ OneItemPerUrl'
  <2>1. /\ sweep' = sweep + 1 /\ sweep \in Nat /\ drawn' = [s \in Scouts |-> {}]
        /\ answered = {} /\ UNCHANGED <<parallel, answered, evidence>> /\ stage' = "scouting"
    BY <1>1, ClusteringAssumption DEF StartSweep, Counted, TypeOK
  <2>2. \A e \in evidence : e.sweep \in Nat
    BY ClusteringAssumption DEF TypeOK, Items
  <2>3. Counted'
    BY <2>1 DEF Counted
  <2>4. Drawn'
    <3>1. \A e \in evidence : e.sweep <= sweep'
      BY <2>1, <2>2 DEF Drawn
    <3>2. \A s \in Scouts : drawn'[s] = {}
      BY <2>1
    <3>3. working' \subseteq Scouts
      BY <1>1 DEF StartSweep
    <3> QED
      BY <2>1, <3>1, <3>2, <3>3 DEF Drawn
  <2>5. OneItemPerUrl'
    BY <2>1 DEF OneItemPerUrl
  <2> QED
    BY <2>3, <2>4, <2>5
<1>2. ASSUME StartClustering \/ MaterializeCluster \/ EndClustering
      PROVE  Counted' /\ Drawn' /\ OneItemPerUrl'
  <2>1. UNCHANGED <<parallel, sweep, working, answered, drawn, evidence>>
    BY <1>2 DEF StartClustering, MaterializeCluster, EndClustering
  <2>2. Counted'
    BY <1>2 DEF Counted, StartClustering, MaterializeCluster, EndClustering, StoreCluster
  <2> QED
    BY <2>1, <2>2 DEF Drawn, OneItemPerUrl
<1>3. ASSUME NEW s \in Scouts, CallTool(s) PROVE Counted' /\ Drawn' /\ OneItemPerUrl'
  <2>1. PICK urls \in SUBSET Urls : drawn' = [drawn EXCEPT ![s] = @ \union FreshItems(s, urls)]
    BY <1>3 DEF CallTool
  <2>2. /\ UNCHANGED <<parallel, stage, sweep, working, answered, evidence>> /\ s \in working
        /\ \A r \in working : r # s => drawn[r] = {}
    BY <1>3 DEF CallTool, HasTurn
  <2>3. \A d \in FreshItems(s, urls) :
          /\ d.by = s /\ d.sweep = sweep
          /\ \A e \in evidence : e.url # d.url
    BY FreshOnes
  <2>4. s \notin answered
    BY <2>2 DEF TypeOK
  <2>5. \A r \in Scouts : drawn'[r] = IF r = s THEN drawn[s] \union FreshItems(s, urls) ELSE drawn[r]
    BY <2>1 DEF TypeOK
  <2>6. answered \subseteq Scouts /\ working \subseteq Scouts
    BY DEF TypeOK
  <2>7. Drawn'
    BY <2>2, <2>3, <2>4, <2>5, <2>6 DEF Drawn
  <2> QED
    BY <2>2, <2>7 DEF Counted, OneItemPerUrl
<1>4. ASSUME NEW s \in Scouts, Answer(s) \/ FailAgent(s)
      PROVE  Counted' /\ Drawn' /\ OneItemPerUrl'
  <2>1. /\ UNCHANGED <<parallel, stage, sweep, drawn>> /\ s \in working /\ stage = "scouting"
        /\ working' = working \ {s} /\ answered' \subseteq answered \union {s}
        /\ evidence' \in {evidence, evidence \union drawn[s]}
        /\ s \in answered' => evidence' = evidence \union drawn[s]
        /\ \A r \in working : r # s => drawn[r] = {}
    BY <1>4 DEF Answer, FailAgent, HasTurn, TypeOK
  <2>2. \A d \in drawn[s] : d.by = s /\ d.sweep = sweep
    BY DEF Drawn
  <2>3. \A d, e \in drawn[s] : d.url = e.url => d = e
    <3> SUFFICES ASSUME NEW d \in drawn[s], NEW e \in drawn[s], d.url = e.url PROVE d = e
      OBVIOUS
    <3>1. d \in Items /\ e \in Items
      BY DEF TypeOK
    <3>2. d.by = e.by /\ d.sweep = e.sweep
      BY <2>2
    <3> QED
      BY <3>1, <3>2 DEF Items
  <2>4. \A d \in drawn[s], e \in evidence : d.url = e.url => d = e
    BY <2>1 DEF Drawn
  <2>5. OneItemPerUrl'
    BY <2>1, <2>3, <2>4 DEF OneItemPerUrl
  <2>6. \A r \in working' : drawn[r] = {}
    BY <2>1
  <2>7. Drawn'
    <3>1. \A e \in evidence' : e.sweep <= sweep
      <4>1. sweep <= sweep
        BY ClusteringAssumption DEF TypeOK
      <4> QED
        BY <2>1, <2>2, <4>1 DEF Drawn
    <3>2. \A r \in answered' : drawn[r] \subseteq evidence'
      BY <2>1 DEF Drawn
    <3> QED
      BY <2>1, <2>6, <3>1, <3>2 DEF Drawn
  <2>8. Counted'
    BY <2>1 DEF Counted
  <2> QED
    BY <2>5, <2>7, <2>8
<1>5. ASSUME NEW s \in Scouts, MoveOn(s) PROVE Counted' /\ Drawn' /\ OneItemPerUrl'
  <2>1. /\ UNCHANGED <<parallel, sweep, working, drawn, evidence>>
        /\ answered' \subseteq answered /\ stage' \in {stage, "failed"}
    BY <1>5 DEF MoveOn, MaterializeCandidate, MaterializeFallback, MaterializedAll,
                RefuseCandidate, MayMaterialize
  <2> QED
    BY <2>1 DEF Counted, Drawn, OneItemPerUrl
<1>6. ASSUME UNCHANGED vars PROVE Counted' /\ Drawn' /\ OneItemPerUrl'
  BY <1>6 DEF vars, Counted, Drawn, OneItemPerUrl
<1> QED
  BY <1>1, <1>2, <1>3, <1>4, <1>5, <1>6 DEF Next, MoveOn

\* The clusters after one more is stored or merged.
LEMMA MergedOne ==
  ASSUME TypeOK, NEW k \in Keys, NEW group, NEW found, NEW j \in Keys
  PROVE  /\ j # k => Merged(k, group, found)[j] = clusters[j]
         /\ Merged(k, group, found)[k].candidates = clusters[k].candidates \union group
         /\ Merged(k, group, found)[k].evidence = clusters[k].evidence \union found
<1>1. clusters[k] = [candidates |-> clusters[k].candidates, evidence |-> clusters[k].evidence]
  BY DEF TypeOK, Clusters
<1> DEFINE c == [candidates |-> clusters[k].candidates \union group,
                 evidence |-> clusters[k].evidence \union found]
<1>2. Merged(k, group, found) = [clusters EXCEPT ![k] = c]
  BY <1>1 DEF Merged
<1>3. clusters \in [Keys -> Clusters]
  BY DEF TypeOK
<1> QED
  BY <1>2, <1>3

LEMMA EmptyCluster == NoCluster.evidence = {} /\ NoCluster.candidates = {}
  BY DEF NoCluster

LEMMA SavedStep == IInv /\ [Next]_vars => Saved' /\ Grounded'
<1> SUFFICES ASSUME IInv, [Next]_vars PROVE Saved' /\ Grounded'
  OBVIOUS
<1> USE DEF IInv
<1>1. ASSUME StartSweep \/ StartClustering PROVE Saved' /\ Grounded'
  BY <1>1 DEF StartSweep, StartClustering, Saved, Grounded
<1>2. ASSUME EndClustering PROVE Saved' /\ Grounded'
  <2>1. /\ saved' = clusters /\ stage' = "idle"
        /\ UNCHANGED <<clusters, candidates, evidence>>
    BY <1>2 DEF EndClustering
  <2>2. lineage' = {k \in Keys : clusters[k] # NoCluster}
    <3>1. lineage = {k \in Keys : saved[k] # NoCluster} /\ lineage' = Named
      BY <1>2 DEF EndClustering, Saved
    <3>2. \A k \in Keys : k \in Named <=> clusters[k] # NoCluster
      BY <3>1 DEF Named, Saved
    <3>3. Named \subseteq Keys
      BY <3>1 DEF Named
    <3> QED
      BY <3>1, <3>2, <3>3
  <2> QED
    BY <2>1, <2>2 DEF Saved, Grounded
<1>3. ASSUME MaterializeCluster PROVE Saved' /\ Grounded'
  <2>1. PICK k \in Keys, p \in Proposals : StoreCluster(k, p.group, p.found)
    BY <1>3 DEF MaterializeCluster
  <2>2. /\ UNCHANGED <<candidates, evidence>> /\ stage = "clustering"
        /\ lineage = {j \in Keys : saved[j] # NoCluster}
    BY <1>3 DEF MaterializeCluster, Saved
  <2>3. /\ p.group # {} /\ p.group \subseteq candidates /\ p.found \subseteq evidence
    BY ProposalsGrounded
  <2>4. CASE p.found # {} /\ k \notin Taken
    <3>1. clusters' = Merged(k, p.group, p.found) /\ UNCHANGED <<stage, saved, lineage>>
      BY <2>1, <2>4 DEF StoreCluster
    <3>2. clusters'[k] # NoCluster
      BY <2>4, <3>1, MergedOne, EmptyCluster
    <3>3. \A j \in Keys : j # k => clusters'[j] = clusters[j]
      BY <3>1, MergedOne
    <3>4. clusters[k].candidates \subseteq candidates /\ clusters[k].evidence \subseteq evidence
      BY EmptyCluster DEF Grounded
    <3>5. /\ clusters'[k].candidates # {} /\ clusters'[k].candidates \subseteq candidates
          /\ clusters'[k].evidence # {} /\ clusters'[k].evidence \subseteq evidence
      BY <2>3, <2>4, <3>1, <3>4, MergedOne
    <3>6. Grounded'
      BY <2>2, <3>3, <3>5 DEF Grounded
    <3>7. Saved'
      BY <2>2, <3>1, <3>2, <3>3 DEF Saved
    <3> QED
      BY <3>6, <3>7
  <2>5. CASE p.found = {}
    <3>1. stage' = "failed" /\ saved' = clusters /\ UNCHANGED <<clusters, lineage>>
      BY <2>1, <2>5 DEF StoreCluster
    <3> QED
      BY <2>2, <3>1 DEF Saved, Grounded
  <2>6. CASE p.found # {} /\ k \in Taken
    <3>1. stage' = "broken" /\ clusters' = saved /\ UNCHANGED <<saved, lineage>>
      BY <2>1, <2>6 DEF StoreCluster
    <3> QED
      BY <2>2, <3>1 DEF Saved, Grounded
  <2> QED
    BY <2>4, <2>5, <2>6
<1>4. ASSUME NEW s \in Scouts, CallTool(s) \/ Answer(s) \/ FailAgent(s)
      PROVE  Saved' /\ Grounded'
  <2>1. /\ UNCHANGED <<stage, candidates, clusters, saved, lineage>>
        /\ evidence \subseteq evidence'
    BY <1>4 DEF CallTool, Answer, FailAgent
  <2> QED
    BY <2>1 DEF Saved, Grounded
<1>5. ASSUME NEW s \in Scouts, MoveOn(s) PROVE Saved' /\ Grounded'
  <2>1. /\ UNCHANGED <<evidence, clusters, saved, lineage>> /\ candidates \subseteq candidates'
        /\ stage' \in {stage, "failed"}
    BY <1>5 DEF MoveOn, MaterializeCandidate, MaterializeFallback, MaterializedAll, RefuseCandidate
  <2> QED
    BY <2>1 DEF Saved, Grounded
<1>6. ASSUME UNCHANGED vars PROVE Saved' /\ Grounded'
  BY <1>6 DEF vars, Saved, Grounded
<1> QED
  BY <1>1, <1>2, <1>3, <1>4, <1>5, <1>6 DEF Next, MoveOn

-----------------------------------------------------------------------------
(* Theorems *)

THEOREM Invariant == Spec => []IInv
<1>1. IInv /\ [Next]_vars => IInv'
  BY TypeStep, DrawnStep, SavedStep DEF IInv
<1> QED
  BY <1>1, InitInv, PTL DEF Spec

\* Every variable of a sweep keeps its type.
THEOREM TypeCorrect == Spec => []TypeOK
<1>1. IInv => TypeOK
  BY DEF IInv
<1> QED
  BY <1>1, Invariant, PTL

\* No URL is in the evidence of a run twice (ToolExecutor.execute, dedupe by URL).
THEOREM UrlsAreUnique == Spec => []OneItemPerUrl
<1>1. IInv => OneItemPerUrl
  BY DEF IInv
<1> QED
  BY <1>1, Invariant, PTL

\* Clusters rest on candidates and evidence of their run (ClusterMaterializer).
THEOREM ClustersAreGrounded == Spec => []Grounded
<1>1. IInv => Grounded
  BY DEF IInv
<1> QED
  BY <1>1, Invariant, PTL

\* Between two rounds the run record names all the clusters of the run.
THEOREM LineageIsComplete == Spec => []LineageComplete
<1>1. IInv => LineageComplete
  BY DEF IInv, Saved, LineageComplete
<1> QED
  BY <1>1, Invariant, PTL

\* A scout that stopped at its limit of iterations loses neither its results nor the
\* run (AgentRunner, ScoutCandidateMaterializer).
THEOREM FallbackStored == Spec => []FallbackIsStored
<1>1. IInv => FallbackIsStored
  <2> SUFFICES ASSUME IInv, NEW s \in answered, drawn[s] # {}
               PROVE  /\ Cited(s, drawn[s], drawn[s]) = drawn[s]
                      /\ \A t \in Tools(s), sources \in SourcesOf(drawn[s]) :
                           Admits(s, Fallback(s, t.strength), sources)
    BY DEF FallbackIsStored
  <2> USE DEF IInv
  <2>1. s \in Scouts /\ s \in Roles
    BY ClusteringAssumption DEF TypeOK
  <2>2. Cited(s, drawn[s], drawn[s]) = drawn[s]
    BY DEF Drawn, Cited, Resolved
  <2>3. ASSUME NEW t \in Tools(s), NEW sources \in SourcesOf(drawn[s])
        PROVE  Admits(s, Fallback(s, t.strength), sources)
    <3>1. PICK f \in [drawn[s] -> Drawable] :
            /\ \A e \in drawn[s] : e.by \in Scouts => f[e] \in Sources(e.by)
            /\ sources = {f[e] : e \in drawn[s]}
      BY DEF SourcesOf
    <3>2. \A e \in drawn[s] : e.by = s
      BY <2>1 DEF Drawn
    <3>3. sources \subseteq Sources(s) /\ sources # {}
      BY <2>1, <3>1, <3>2
    <3> QED
      BY <2>1, <3>3, FallbackFits
  <2> QED
    BY <2>2, <2>3
<1> QED
  BY <1>1, Invariant, PTL

-----------------------------------------------------------------------------
(* What a step may do *)

LEMMA GrowStep ==
  ASSUME TypeOK, [Next]_vars
  PROVE  /\ evidence \subseteq evidence' /\ candidates \subseteq candidates'
         /\ \/ \A k \in Keys : /\ clusters[k].candidates \subseteq clusters'[k].candidates
                               /\ clusters[k].evidence \subseteq clusters'[k].evidence
            \/ stage' = "broken" /\ clusters' = saved
<1>1. evidence \subseteq evidence' /\ candidates \subseteq candidates'
  BY DEF Next, StartSweep, StartClustering, MaterializeCluster, EndClustering, CallTool, Answer,
         FailAgent, MaterializeCandidate, MaterializeFallback, MaterializedAll,
         RefuseCandidate, vars
<1>2. CASE MaterializeCluster
  <2>1. PICK k \in Keys, p \in Proposals : StoreCluster(k, p.group, p.found)
    BY <1>2 DEF MaterializeCluster
  <2>2. \/ clusters' = Merged(k, p.group, p.found)
        \/ UNCHANGED clusters
        \/ stage' = "broken" /\ clusters' = saved
    BY <2>1 DEF StoreCluster
  <2>3. ASSUME clusters' = Merged(k, p.group, p.found), NEW j \in Keys
        PROVE  /\ clusters[j].candidates \subseteq clusters'[j].candidates
               /\ clusters[j].evidence \subseteq clusters'[j].evidence
    <3>1. CASE j = k
      BY <2>3, <3>1, MergedOne
    <3>2. CASE j # k
      <4>1. clusters'[j] = clusters[j]
        BY <2>3, <3>2, MergedOne
      <4> QED
        BY <4>1
    <3> QED
      BY <3>1, <3>2
  <2> QED
    BY <1>1, <2>2, <2>3
<1>3. CASE UNCHANGED clusters
  BY <1>1, <1>3
<1>4. UNCHANGED clusters \/ MaterializeCluster
  BY DEF Next, StartSweep, StartClustering, EndClustering, CallTool, Answer, FailAgent,
         MaterializeCandidate, MaterializeFallback, MaterializedAll, RefuseCandidate, vars
<1> QED
  BY <1>2, <1>3, <1>4

\* Evidence and candidates stay, and clusters only grow, until the session breaks
\* (ClusterMaterializer, merging by dedupe key).
THEOREM CurationKept == Spec => CurationGrows
<1>1. IInv /\ [Next]_vars => Grown
  BY GrowStep DEF IInv, Grown
<1> QED
  BY <1>1, Invariant, PTL DEF Spec, CurationGrows

LEMMA CauseStep ==
  ASSUME IInv, [Next]_vars
  PROVE  /\ stage = "clustering" /\ stage' = "failed" =>
              \E c \in candidates : c.evidence \intersect evidence = {}
         /\ stage' = "broken" /\ stage # "broken" => Taken # {}
         /\ \A c \in candidates' \ candidates :
              c.evidence \intersect evidence = {} =>
                drawn[c.by] = {} \/ c.evidence \intersect OfEarlier # {}
<1>1. ASSUME MaterializeCluster
      PROVE  /\ stage' = "failed" => \E c \in candidates : c.evidence \intersect evidence = {}
             /\ stage' = "broken" => Taken # {}
             /\ candidates' = candidates
  <2>1. PICK k \in Keys, p \in Proposals : StoreCluster(k, p.group, p.found)
    BY <1>1 DEF MaterializeCluster
  <2>2. stage = "clustering" /\ candidates' = candidates
    BY <1>1 DEF MaterializeCluster
  <2>3. \/ UNCHANGED stage
        \/ stage' = "failed" /\ p.found = {}
        \/ stage' = "broken" /\ k \in Taken
    BY <2>1 DEF StoreCluster
  <2> QED
    BY <2>2, <2>3, ProposalsGrounded
<1>2. ASSUME NEW s \in Scouts, MoveOn(s)
      PROVE  /\ stage # "clustering" /\ stage' # "broken"
             /\ \A c \in candidates' \ candidates :
                  c.evidence \intersect evidence = {} =>
                    drawn[c.by] = {} \/ c.evidence \intersect OfEarlier # {}
  <2>1. stage # "clustering" /\ stage' # "broken"
    BY <1>2 DEF MoveOn, MaterializeCandidate, MaterializeFallback, MaterializedAll,
                RefuseCandidate, MayMaterialize
  <2>2. CASE UNCHANGED candidates
    BY <2>1, <2>2
  <2>3. CASE ~UNCHANGED candidates
    <3>1. PICK cited \in SUBSET (evidence \union OfEarlier) :
              /\ candidates' = candidates \union {[by |-> s, evidence |-> cited]}
              /\ cited \intersect evidence = {} =>
                   drawn[s] = {} \/ cited \intersect OfEarlier # {}
      BY <1>2, <2>3, NewCandidate DEF IInv
    <3>2. \A c \in candidates' \ candidates : c.by = s /\ c.evidence = cited
      BY <3>1
    <3> QED
      BY <2>1, <3>1, <3>2
  <2> QED
    BY <2>2, <2>3
<1>3. ASSUME \/ StartSweep \/ StartClustering \/ EndClustering \/ UNCHANGED vars
             \/ \E s \in Scouts : CallTool(s) \/ Answer(s) \/ FailAgent(s)
      PROVE  /\ candidates' = candidates
             /\ stage' = stage \/ stage' \in {"idle", "scouting", "clustering"}
  BY <1>3 DEF StartSweep, StartClustering, EndClustering, CallTool, Answer, FailAgent, vars
<1>4. CASE MaterializeCluster
  BY <1>1, <1>4
<1>5. CASE \E s \in Scouts : MoveOn(s)
  BY <1>2, <1>5
<1>6. CASE \/ StartSweep \/ StartClustering \/ EndClustering \/ UNCHANGED vars
           \/ \E s \in Scouts : CallTool(s) \/ Answer(s) \/ FailAgent(s)
  <2>1. candidates' = candidates
        /\ (stage' = stage \/ stage' \in {"idle", "scouting", "clustering"})
    BY <1>3, <1>6
  <2> QED
    BY <2>1
<1> QED
  BY <1>4, <1>5, <1>6 DEF Next, MoveOn

\* Clustering fails only on a candidate that cites nothing of its run, and only a scout
\* whose tools returned nothing new, or that cites an earlier run, leaves one; the
\* session breaks only on a key of an earlier run (dedupe keys are unique over all runs).
THEOREM CauseOfFailure == Spec => FailureHasCause
<1>1. IInv /\ [Next]_vars =>
        /\ stage = "clustering" /\ stage' = "failed" =>
             \E c \in candidates : c.evidence \intersect evidence = {}
        /\ stage' = "broken" /\ stage # "broken" => Taken # {}
        /\ \A c \in candidates' \ candidates :
             c.evidence \intersect evidence = {} =>
               drawn[c.by] = {} \/ c.evidence \intersect OfEarlier # {}
  BY CauseStep
<1> QED
  BY <1>1, Invariant, PTL DEF Spec, FailureHasCause
=============================================================================
