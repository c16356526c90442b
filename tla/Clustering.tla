----------------------------- MODULE Clustering -----------------------------
(***************************************************************************)
(* What one daily run finds: evidence from the tools of its scouts         *)
(* (tools/executor.py), candidates that cite it (harness/materialization.py)*)
(* and clusters of candidates (clusterer/materialization.py).              *)
(*                                                                         *)
(* In a sweep every scout calls tools.  Serial scouts share one session.   *)
(* Parallel ones have transactions of their own, and see what is committed:*)
(* a tool's items come with events of the run, and one open transaction at *)
(* a time has such events (TraceSequence!OneWriter).                       *)
(* The drafts of a scout, and then those of the Clusterer, name ids that   *)
(* may be missing or of another run: the materializers keep what they can  *)
(* verify.  Some drafts fail the run, and a cluster whose dedupe key       *)
(* belongs to an earlier run breaks the session.                           *)
(***************************************************************************)
EXTENDS ScoutProfiles, FiniteSets

CONSTANTS
  Scouts,     \* the roles of the scouts of a sweep
  Earlier,    \* stands for the earlier runs
  Urls,
  Keys,       \* dedupe keys
  Taken,      \* the keys of the clusters of earlier runs
  MaxSweeps,  \* bound: collect and follow-up rounds
  MaxDrafts   \* bound: candidates and clusters drafted in a round

ASSUME ClusteringAssumption ==
  /\ Scouts \subseteq Roles /\ Earlier \notin Scouts
  /\ Taken \subseteq Keys
  /\ MaxSweeps \in Nat /\ MaxDrafts \in Nat

VARIABLES
  parallel,    \* the scouts of a sweep run in parallel
  stage,       \* "idle", "scouting", "clustering", "failed" or "broken"
  sweep,       \* sweeps so far
  working,     \* the scouts whose agent is running or is still to run
  answered,    \* the scouts whose output is not yet materialized
  drawn,       \* what each scout's tools have returned to it in this sweep
  evidence,    \* the evidence of the run that is committed
  candidates,  \* the candidates of the run
  drafts,      \* how many drafts may still come
  clusters,    \* the clusters of the run by dedupe key
  saved,       \* the clusters that are committed
  lineage      \* the clusters its record names

vars == <<parallel, stage, sweep, working, answered, drawn, evidence, candidates,
          drafts, clusters, saved, lineage>>

\* Evidence carries its id: who called the tool, for which URL, in which sweep.
Item(s, u, n) == [by |-> s, url |-> u, sweep |-> n]
Items == [by : Scouts, url : Urls, sweep : 1..MaxSweeps]
OfEarlier == {Item(Earlier, u, 0) : u \in Urls}

Candidates == [by : Scouts, evidence : SUBSET (Items \union OfEarlier)]

NoCluster == [candidates |-> {}, evidence |-> {}]
Clusters == [candidates : SUBSET Candidates, evidence : SUBSET (Items \union OfEarlier)]

\* A sweep is over when no stage of it is left; a run that failed or broke stays so.
Stages == {"idle", "scouting", "clustering", "failed", "broken"}

TypeOK ==
  /\ parallel \in BOOLEAN /\ stage \in Stages /\ sweep \in 0..MaxSweeps
  /\ working \in SUBSET Scouts /\ answered \in SUBSET (Scouts \ working)
  /\ drawn \in [Scouts -> SUBSET Items]
  /\ evidence \in SUBSET Items
  /\ candidates \in SUBSET Candidates
  /\ drafts \in 0..MaxDrafts
  /\ clusters \in [Keys -> Clusters] /\ saved \in [Keys -> Clusters]
  /\ lineage \in SUBSET Keys

Init ==
  /\ parallel \in BOOLEAN /\ stage = "idle" /\ sweep = 0
  /\ working = {} /\ answered = {} /\ drawn = [s \in Scouts |-> {}]
  /\ evidence = {} /\ candidates = {} /\ drafts = 0
  /\ clusters = [k \in Keys |-> NoCluster] /\ saved = clusters /\ lineage = {}

-----------------------------------------------------------------------------
(* Scouts *)

StartSweep ==
  /\ stage = "idle" /\ sweep < MaxSweeps
  /\ stage' = "scouting" /\ sweep' = sweep + 1
  /\ working' = Scouts /\ drawn' = [s \in Scouts |-> {}]
  /\ drafts' = MaxDrafts
  /\ UNCHANGED <<parallel, answered, evidence, candidates, clusters, saved, lineage>>

\* Serial scouts go one after the other, each materialized before the next.
\* Parallel ones wait for the transaction that has the events of the run.
HasTurn(s) ==
  /\ stage = "scouting" /\ s \in working
  /\ \A r \in working : r # s => drawn[r] = {}
  /\ ~parallel => answered = {}

\* Faulty variant: a scout looks at its own evidence.
VisibleOwn(s) == {e \in evidence : e.by = s} \union drawn[s]

\* What the scout's session sees.
Visible(s) == evidence \union drawn[s]

\* Items whose URL the run has already are dropped.
FreshItems(s, urls) ==
  {Item(s, u, sweep) : u \in {u \in urls : \A e \in Visible(s) : e.url # u}}

CallTool(s) ==
  /\ HasTurn(s)
  /\ \E urls \in SUBSET Urls :
       drawn' = [drawn EXCEPT ![s] = @ \union FreshItems(s, urls)]
  /\ UNCHANGED <<parallel, stage, sweep, working, answered, evidence, candidates,
                 drafts, clusters, saved, lineage>>

Answer(s) ==
  /\ HasTurn(s)
  /\ working' = working \ {s} /\ answered' = answered \union {s}
  /\ evidence' = evidence \union drawn[s]
  /\ UNCHANGED <<parallel, stage, sweep, drawn, candidates, drafts, clusters, saved, lineage>>

\* The agent fails and its task is skipped.  Only a scout with a transaction of
\* its own is rolled back.
FailAgent(s) ==
  /\ HasTurn(s)
  /\ working' = working \ {s}
  /\ evidence' = IF parallel THEN evidence ELSE evidence \union drawn[s]
  /\ UNCHANGED <<parallel, stage, sweep, answered, drawn, candidates, drafts,
                 clusters, saved, lineage>>

-----------------------------------------------------------------------------
(* Candidates *)

\* An id resolves when any run has it.
Resolved(ids) == ids \intersect (evidence \union OfEarlier)

\* What a draft that names ids gets: those that resolve or else whatever its
\* agent's output names, or its tools returned, that does.
Cited(s, ids, named) ==
  IF Resolved(ids) # {} THEN Resolved(ids) ELSE Resolved(named \union drawn[s])

\* What the tools of a sweep draw on.
Drawable == UNION {Sources(r) : r \in Scouts}

\* The sources that cited evidence may have: each item those of the scout that found it.
SourcesOf(cited) ==
  LET Found == {f \in [cited -> Drawable] :
                 \A e \in cited : e.by \in Scouts => f[e] \in Sources(e.by)}
  IN  {{f[e] : e \in cited} : f \in Found}

\* The sources with which some draft of a scout is stored, and some refused.
Storable == [s \in Scouts |-> {S \in SUBSET Drawable : \E d \in Drafts : Admits(s, d, S)}]
Refusable == [s \in Scouts |-> {S \in SUBSET Drawable : \E d \in Drafts : ~Admits(s, d, S)}]

MayMaterialize(s) == stage = "scouting" /\ s \in answered /\ (parallel => working = {})

\* The ids a draft may come up with: of the run or of an earlier one, in the
\* database or not.  Bound: one.
Drafted == {{}} \union {{e} : e \in Items \union OfEarlier}

\* The evidence of a draft: what it names itself, or its output.
MayCite(s) == UNION {{Cited(s, ids, named) : named \in Drafted} : ids \in Drafted}

MaterializeCandidate(s) ==
  /\ MayMaterialize(s) /\ drafts > 0
  /\ \E cited \in {c \in MayCite(s) : SourcesOf(c) \intersect Storable[s] # {}} :
       candidates' = candidates \union {[by |-> s, evidence |-> cited]}
  /\ drafts' = drafts - 1
  /\ UNCHANGED <<parallel, stage, sweep, working, answered, drawn, evidence,
                 clusters, saved, lineage>>

\* A scout that stopped at its limit of iterations: one draft on what its tools
\* returned, or none.
MaterializeFallback(s) ==
  /\ MayMaterialize(s) /\ drafts > 0 /\ drawn[s] # {}
  /\ \E t \in Tools(s), sources \in SourcesOf(Cited(s, drawn[s], drawn[s])) :
       Admits(s, Fallback(s, t.strength), sources)
  /\ candidates' = candidates \union {[by |-> s, evidence |-> Cited(s, drawn[s], drawn[s])]}
  /\ drafts' = drafts - 1 /\ answered' = answered \ {s}
  /\ UNCHANGED <<parallel, stage, sweep, working, drawn, evidence, clusters, saved, lineage>>

MaterializedAll(s) ==
  /\ MayMaterialize(s)
  /\ answered' = answered \ {s}
  /\ UNCHANGED <<parallel, stage, sweep, working, drawn, evidence, candidates,
                 drafts, clusters, saved, lineage>>

\* A draft outside the scout's profile fails the run.
RefuseCandidate(s) ==
  /\ MayMaterialize(s) /\ drafts > 0
  /\ {c \in MayCite(s) : SourcesOf(c) \intersect Refusable[s] # {}} # {}
  /\ stage' = "failed"
  /\ UNCHANGED <<parallel, sweep, working, answered, drawn, evidence, candidates,
                 drafts, clusters, saved, lineage>>

-----------------------------------------------------------------------------
(* Clusters *)

StartClustering ==
  /\ stage = "scouting" /\ working = {} /\ answered = {}
  /\ stage' = "clustering" /\ drafts' = MaxDrafts
  /\ UNCHANGED <<parallel, sweep, working, answered, drawn, evidence, candidates,
                 clusters, saved, lineage>>

\* Faulty variant: the evidence is not looked up.
EvidenceUnverified(group, ids) == ids \union UNION {c.evidence : c \in group}

\* Faulty variant: what a draft names is enough.
EvidenceOfDraft(group, ids) == ids \intersect evidence

\* The evidence of the run that a draft or its candidates name.
EvidenceOf(group, ids) ==
  (ids \union UNION {c.evidence : c \in group}) \intersect evidence

\* Faulty variant: a draft overwrites the cluster.
Overwritten(k, group, found) == [clusters EXCEPT ![k] = [candidates |-> group, evidence |-> found]]

\* The clusters after a draft with a key is stored or merged.
Merged(k, group, found) ==
  [clusters EXCEPT ![k] = [candidates |-> @.candidates \union group,
                           evidence |-> @.evidence \union found]]

StoreCluster(k, group, found) ==
  \/ /\ found # {} /\ k \notin Taken
     /\ clusters' = Merged(k, group, found)
     /\ drafts' = drafts - 1
     /\ UNCHANGED <<stage, saved, lineage>>
  \/ \* no evidence: what is flushed is committed with the run's failure
     /\ found = {}
     /\ stage' = "failed" /\ saved' = clusters
     /\ UNCHANGED <<drafts, clusters, lineage>>
  \/ \* the insert is refused: the session is unusable, and rolled back
     /\ found # {} /\ k \in Taken
     /\ stage' = "broken" /\ clusters' = saved
     /\ UNCHANGED <<drafts, saved, lineage>>

\* The candidates of a draft: those of the run that it names, or else those that
\* share its evidence, or some of its category.  (Without any it is skipped.)
Grouped(named, ids) ==
  LET matches == {c \in candidates : c.evidence \intersect ids # {}}
  IN  CASE named # {} -> {named}
        [] named = {} /\ matches # {} -> {matches}
        [] OTHER -> (SUBSET candidates) \ {{}}

\* A draft that mixes unrelated confirmations and signals, or that puts several
\* official updates together, is split; each part brings its own evidence.
Parts(group) ==
  IF \E c \in group : c.by = "official_scout" THEN (SUBSET group) \ {{}, group} ELSE {}

\* What the drafts of an output may ask to store.
Proposals ==
  LET Asked(group, ids) ==
        {[group |-> group, found |-> EvidenceOf(group, ids)]}
          \union {[group |-> part, found |-> EvidenceOf(part, {})] : part \in Parts(group)}
      Of(ids) == UNION {UNION {Asked(group, ids) : group \in Grouped(named, ids)} :
                          named \in SUBSET candidates}
  IN  UNION {Of(ids) : ids \in Drafted}

MaterializeCluster ==
  /\ stage = "clustering" /\ drafts > 0
  /\ \E k \in Keys, p \in Proposals : StoreCluster(k, p.group, p.found)
  /\ UNCHANGED <<parallel, sweep, working, answered, drawn, evidence, candidates>>

\* Faulty variant: the record names the clusters of the last output.
NamedLast == {k \in Keys : clusters[k] # saved[k]}

Named == lineage \union {k \in Keys : clusters[k] # saved[k]}

EndClustering ==
  /\ stage = "clustering" /\ stage' = "idle"
  /\ lineage' = Named /\ saved' = clusters /\ drafts' = 0
  /\ UNCHANGED <<parallel, sweep, working, answered, drawn, evidence, candidates, clusters>>

-----------------------------------------------------------------------------
Next ==
  \/ StartSweep \/ StartClustering \/ MaterializeCluster \/ EndClustering
  \/ \E s \in Scouts : \/ CallTool(s) \/ Answer(s) \/ FailAgent(s)
                       \/ MaterializeCandidate(s) \/ MaterializeFallback(s) \/ MaterializedAll(s) \/ RefuseCandidate(s)

Spec == Init /\ [][Next]_vars

-----------------------------------------------------------------------------
(* Safety *)

\* A URL is in the evidence of the run once: scouts that run in parallel, and do not
\* see what the others have not committed, find nothing twice either.
OneItemPerUrl == \A d, e \in evidence : d.url = e.url => d = e

\* What the runner makes up of the results of a scout's tools is always stored, with
\* the evidence they returned: the limit of iterations loses no run.
FallbackIsStored ==
  \A s \in answered : MayMaterialize(s) /\ drawn[s] # {} =>
    /\ Cited(s, drawn[s], drawn[s]) = drawn[s]
    /\ \A t \in Tools(s), sources \in SourcesOf(drawn[s]) :
         Admits(s, Fallback(s, t.strength), sources)

\* A cluster rests on candidates and on evidence of its run, whatever ids the
\* agents named.
Grounded ==
  \A k \in Keys : clusters[k] # NoCluster =>
    /\ clusters[k].candidates # {} /\ clusters[k].candidates \subseteq candidates
    /\ clusters[k].evidence # {} /\ clusters[k].evidence \subseteq evidence

\* Between two rounds the record of the run names all its clusters.
LineageComplete ==
  stage \in {"idle", "scouting"} => lineage = {k \in Keys : clusters[k] # NoCluster}

Grown ==
  /\ evidence \subseteq evidence' /\ candidates \subseteq candidates'
  /\ \/ \A k \in Keys : /\ clusters[k].candidates \subseteq clusters'[k].candidates
                        /\ clusters[k].evidence \subseteq clusters'[k].evidence
     \/ stage' = "broken" /\ clusters' = saved

\* Candidates and evidence stay, and clusters only grow; but what the session
\* had not committed when it broke is lost.
CurationGrows == [][Grown]_vars

\* Clustering fails on a candidate without evidence of the run only, and breaks on
\* a key of an earlier run only; such a candidate comes from a scout whose tools
\* had returned nothing new, or that cited an earlier run.
FailureHasCause ==
  [][/\ stage = "clustering" /\ stage' = "failed" =>
          \E c \in candidates : c.evidence \intersect evidence = {}
     /\ stage' = "broken" /\ stage # "broken" => Taken # {}
     /\ \A c \in candidates' \ candidates :
          c.evidence \intersect evidence = {} =>
            drawn[c.by] = {} \/ c.evidence \intersect OfEarlier # {}]_vars
=============================================================================
