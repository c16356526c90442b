------------------------------ MODULE Watchlist ------------------------------
(***************************************************************************)
(* The memory of several daily runs: watch items, archive entries and      *)
(* threads (watchlist/materialization.py, watchlist/lifecycle.py), and the *)
(* retention that deletes what they rest on (repositories/cleanup.py).     *)
(*                                                                         *)
(* In its WATCHLIST_UPDATE phase a run first archives the due items of all *)
(* runs, each in the name of the run that owns it.  Then it stores the     *)
(* drafts of the Watchlist Agent or, when that fails, makes records from   *)
(* the evaluations.  A draft that names a row that is missing or belongs   *)
(* to another run is skipped; what it had changed before stays.            *)
(*                                                                         *)
(* A key <<r, t>> stands for what run r has about topic t: the cluster     *)
(* with its evaluation and evidence, the watch item and the archive entry, *)
(* whose ids are made of r and t.  A loose key has evidence only.          *)
(***************************************************************************)
EXTENDS Integers, FiniteSets

CONSTANTS
  N,          \* bound: daily runs
  Topics,
  Loose,      \* the keys whose watch items name evidence and no cluster
  Tiers,      \* watch tiers
  Shortest,   \* the shortest and the longest window of each tier, in days
  Longest,
  Asked,      \* bound: the ttl_days an agent asks for
  Retention,  \* data_retention_days
  LastDay     \* bound

\* The daily runs, in the order of their creation.
Runs == 1..N
Keys == Runs \X Topics

ASSUME WatchAssumption ==
  /\ N \in Nat
  /\ Loose \subseteq Keys
  /\ Shortest \in [Tiers -> Nat \ {0}] /\ Longest \in [Tiers -> Nat \ {0}]
  /\ \A tier \in Tiers : Shortest[tier] <= Longest[tier]
  /\ Asked \subseteq Nat \ {0}
  /\ Retention \in Nat \ {0} /\ LastDay \in Nat

RunOf(k) == k[1]

VARIABLES
  day,
  born,      \* the day each run was created, or -1
  record,    \* the run records: "none", "open", "failed", or "overdrawn":
             \* its counters exceed a budget, and it cannot be loaded
  current,   \* the run in its WATCHLIST_UPDATE phase, or 0
  step,      \* "idle", "expiring", "drafting", "syncing" or "synced"
  found,     \* the keys whose cluster and evidence are in the database
  decision,  \* what their evaluation decided
  item,      \* the watch items
  archive,   \* the archive entries
  threaded   \* the keys whose cluster is linked to a thread

vars == <<day, born, record, current, step, found, decision, item, archive, threaded>>

Absent == [status |-> "absent", until |-> 0, cluster |-> "none", alien |-> FALSE]

\* cluster is the first of the item's clusters, its own run's or another's;
\* alien says that some of its evidence belongs to another run.
Items == [status : {"active", "reactivated", "expired", "archived"},
          until : Nat, cluster : {"none", "own", "alien"}, alien : BOOLEAN]

\* What an entry is of: original_watchlist_id, original_cluster_id, or both.
Origins == (SUBSET {"item", "cluster"}) \ {{}}
Entries == [key : Keys, of : Origins]

Decisions == {"none", "watch", "archive", "confirm"}

TypeOK ==
  /\ day \in 0..LastDay
  /\ born \in [Runs -> -1..LastDay]
  /\ record \in [Runs -> {"none", "open", "failed", "overdrawn"}]
  /\ current \in Runs \union {0}
  /\ step \in {"idle", "expiring", "drafting", "syncing", "synced"}
  /\ IF current = 0 THEN step = "idle" ELSE step # "idle" /\ record[current] = "open"
  /\ found \in SUBSET Keys
  /\ decision \in [Keys -> Decisions]
  /\ item \in [Keys -> Items \union {Absent}]
  /\ archive \in SUBSET Entries
  /\ threaded \in SUBSET Keys

Init ==
  /\ day = 0 /\ born = [r \in Runs |-> -1] /\ record = [r \in Runs |-> "none"]
  /\ current = 0 /\ step = "idle"
  /\ found = {} /\ decision = [k \in Keys |-> "none"]
  /\ item = [k \in Keys |-> Absent]
  /\ archive = {} /\ threaded = {}

-----------------------------------------------------------------------------
(* Around the watch list *)

\* Bound: midnight does not fall into the phase.
Tomorrow ==
  /\ current = 0
  /\ day < LastDay /\ day' = day + 1
  /\ UNCHANGED <<born, record, current, step, found, decision, item, archive, threaded>>

CreateRun(r) ==
  /\ record[r] = "none" /\ \A q \in Runs : q < r => record[q] # "none"
  /\ born' = [born EXCEPT ![r] = day]
  /\ record' = [record EXCEPT ![r] = "open"]
  /\ UNCHANGED <<day, current, step, found, decision, item, archive, threaded>>

\* A run older than the retention.
Old(r) == born[r] + Retention < day

\* A run finds a topic and decides on it, in a later round perhaps anew.  Bound:
\* a run is not resumed when it is older than the retention.
Collect(k) ==
  /\ current = 0 /\ record[RunOf(k)] = "open" /\ ~Old(RunOf(k))
  /\ found' = found \union {k}
  /\ \E d \in IF k \in Loose THEN {"none"} ELSE Decisions :
       decision' = [decision EXCEPT ![k] = d]
  /\ UNCHANGED <<day, born, record, current, step, item, archive, threaded>>

\* A run books more calls than its budget in an earlier phase (RunHarness).
Overdraw(r) ==
  /\ current = 0 /\ record[r] = "open"
  /\ record' = [record EXCEPT ![r] = "overdrawn"]
  /\ UNCHANGED <<day, born, current, step, found, decision, item, archive, threaded>>

EnterPhase(r) ==
  /\ current = 0 /\ record[r] = "open"
  /\ current' = r /\ step' = "expiring"
  /\ UNCHANGED <<day, born, record, found, decision, item, archive, threaded>>

LeavePhase == current' = 0 /\ step' = "idle"

\* The process dies; what it has not committed is as if it had not begun.
Crash ==
  /\ current # 0 /\ LeavePhase
  /\ UNCHANGED <<day, born, record, found, decision, item, archive, threaded>>

\* Faulty variant: cleanup takes the memory of old runs, too.
CleanupOfMemory ==
  /\ \E r \in Runs : record[r] # "none" /\ Old(r)
  /\ LET kept == {k \in Keys : ~Old(RunOf(k))}
     IN  /\ found' = found \intersect kept
         /\ decision' = [k \in Keys |-> IF k \in kept THEN decision[k] ELSE "none"]
         /\ archive' = {e \in archive : e.key \in kept}
  /\ UNCHANGED <<day, born, record, current, step, item, threaded>>

\* Evidence, clusters and evaluations of old runs are deleted; their watch
\* items, archive entries and threads are not.
Cleanup ==
  /\ \E r \in Runs : record[r] # "none" /\ Old(r)
  /\ LET kept == {k \in Keys : ~Old(RunOf(k))}
     IN  /\ found' = found \intersect kept
         /\ decision' = [k \in Keys |-> IF k \in kept THEN decision[k] ELSE "none"]
  /\ UNCHANGED <<day, born, record, current, step, item, archive, threaded>>

-----------------------------------------------------------------------------
(* Watch items *)

IsDue(k) == item[k].status \in {"active", "reactivated"} /\ item[k].until <= day

IsInactive(k) == item[k].status \in {"expired", "archived"}

Within(tier, days) ==
  IF days < Shortest[tier] THEN Shortest[tier]
  ELSE IF days > Longest[tier] THEN Longest[tier] ELSE days

\* The windows a draft may get.
Windows == UNION {{Within(tier, days) : days \in Asked} : tier \in Tiers}

\* The item after a draft or an evaluation has opened or refreshed it.
Watched(k, days, cluster, alien) ==
  [ status |-> IF IsInactive(k) THEN "reactivated" ELSE "active",
    until |-> day + days,
    cluster |-> IF item[k].cluster = "none" THEN cluster ELSE item[k].cluster,
    alien |-> item[k].alien \/ alien ]

OwnCluster(k) == IF k \in Loose THEN "none" ELSE "own"

\* The thread that is opened for an item, or merged into, links its cluster.
OpenedForItem(k) == {k} \ Loose

\* A draft on what its run has found.
WatchDraft(k) ==
  /\ step = "drafting" /\ RunOf(k) = current /\ k \in found
  /\ \E days \in Windows : item' = [item EXCEPT ![k] = Watched(k, days, OwnCluster(k), FALSE)]
  /\ threaded' = threaded \union OpenedForItem(k)
  /\ UNCHANGED <<day, born, record, current, step, found, decision, archive>>

\* A draft that names the item of another run (the agent sees its id in the
\* threads) with the evidence, or the cluster, of this one: the item is not
\* asked whose it is.
AdoptItem(k) ==
  /\ step = "drafting" /\ RunOf(k) # current /\ item[k] # Absent
  /\ \E j \in found, cluster \in {"none", "alien"}, days \in Windows :
       /\ RunOf(j) = current /\ (j \in Loose => cluster = "none")
       /\ item' = [item EXCEPT ![k] = Watched(k, days, cluster, TRUE)]
       /\ threaded' = IF cluster = "none" THEN threaded ELSE threaded \union {j}
  /\ UNCHANGED <<day, born, record, current, step, found, decision, archive>>

\* A draft of a thread links clusters that nobody looks up.  Bound: clusters the
\* run has found.
ThreadDraft(k) ==
  /\ step = "drafting" /\ RunOf(k) = current /\ k \in found \ Loose
  /\ threaded' = threaded \union {k}
  /\ UNCHANGED <<day, born, record, current, step, found, decision, item, archive>>

-----------------------------------------------------------------------------
(* The archive *)

\* The cluster a draft names is a row of the item's run ...
HasCluster(k, of) ==
  "cluster" \in of => k \in found /\ k \notin Loose

\* ... and so is all the evidence of the item and the cluster (a draft of an agent
\* may name more, see ArchiveDraft).
HasEvidence(k, of) == k \in found /\ ("item" \in of => ~item[k].alien)

\* The items and entries after archive drafts for the keys D.  An item is
\* marked before its evidence is looked at.  (Nothing reads its window then.)
Marked(D, of, status) ==
  [k \in Keys |-> IF k \in D /\ "item" \in of[k] /\ HasCluster(k, of[k])
                  THEN [item[k] EXCEPT !.status = status, !.until = 0] ELSE item[k]]

\* Faulty variant: an entry needs a cluster.
EnteredOfClusters(D, of) ==
  {[key |-> k, of |-> of[k]] :
     k \in {k \in D : "cluster" \in of[k] /\ HasCluster(k, of[k]) /\ HasEvidence(k, of[k])}}

Entered(D, of) ==
  {[key |-> k, of |-> of[k]] :
     k \in {k \in D : HasCluster(k, of[k]) /\ HasEvidence(k, of[k])}}

\* An entry of a cluster alone gets a thread of its own.
OpenedForEntry(k, o) ==
  IF o = {"cluster"} /\ Entered({k}, [j \in {k} |-> o]) # {} THEN {k} ELSE {}

\* A draft for an item or a cluster of the run.  The entry it names may exist and
\* be of something else: it stays what it is of.
ArchiveDraft(k) ==
  /\ step = "drafting" /\ RunOf(k) = current
  /\ \E o \in Origins, status \in {"expired", "archived"} :
       LET of == [j \in {k} |-> o]
       IN  /\ "item" \in o => item[k] # Absent
           /\ item' = Marked({k}, of, status)
           /\ \/ /\ \/ archive' = archive \union Entered({k}, of)
                    \/ archive # {} /\ UNCHANGED archive
                 /\ threaded' = threaded \union OpenedForEntry(k, o)
              \/ \* some evidence it names itself is missing, or of another run
                 UNCHANGED <<archive, threaded>>
  /\ UNCHANGED <<day, born, record, current, step, found, decision>>

\* What the draft of a due item names: it and the first of its clusters.
OriginsOf(k) == IF item[k].cluster = "none" THEN {"item"} ELSE {"item", "cluster"}

Due == {k \in Keys : IsDue(k)}

\* A due item whose first cluster belongs to another run names a row that is
\* not its run's, so its draft is skipped before it is marked.
Skipped == {k \in Keys : item[k].cluster = "alien"}

ExpireItems(D) ==
  LET of == [k \in Keys |-> OriginsOf(k)]
  IN  /\ item' = Marked(D \ Skipped, of, "expired")
      /\ archive' = archive \union Entered(D \ Skipped, of)
      /\ UNCHANGED threaded

Owners == {RunOf(k) : k \in Due}
Loadable == \A r \in Owners : record[r] # "overdrawn"

\* Faulty variant: a run expires its own items.
ExpireOwn ==
  /\ step = "expiring" /\ Loadable
  /\ ExpireItems({k \in Due : RunOf(k) = current})
  /\ step' = "drafting"
  /\ UNCHANGED <<day, born, record, current, found, decision>>

Expire ==
  /\ step = "expiring" /\ Loadable
  /\ ExpireItems(Due)
  /\ step' = "drafting"
  /\ UNCHANGED <<day, born, record, current, found, decision>>

\* The items of one owner are committed before the next owner is loaded: a
\* record that cannot be loaded fails the current run, and a crash ends it.
ExpireSome ==
  /\ step = "expiring"
  /\ \E some \in SUBSET {r \in Owners : record[r] # "overdrawn"} :
       ExpireItems({k \in Due : RunOf(k) \in some})
  /\ LeavePhase
  /\ \/ ~Loadable /\ record' = [record EXCEPT ![current] = "failed"]
     \/ UNCHANGED record
  /\ UNCHANGED <<day, born, found, decision>>

-----------------------------------------------------------------------------
(* The end of the phase *)

PhaseEnds ==
  /\ step \in {"drafting", "synced"} /\ LeavePhase
  /\ UNCHANGED <<day, born, record, found, decision, item, archive, threaded>>

\* The agent fails and its task is skipped.
AgentFails ==
  /\ step = "drafting" /\ step' = "syncing"
  /\ UNCHANGED <<day, born, record, current, found, decision, item, archive, threaded>>

ArchivedCluster(k) == \E e \in archive : e.key = k /\ "cluster" \in e.of

\* The evaluated clusters of the run that no record is about.
ToWatch == {k \in found : RunOf(k) = current /\ decision[k] = "watch" /\ item[k] = Absent}
\* Faulty variant: what the archive has is not watched, and the other way round.
ToArchiveUnwatched == {k \in found : /\ RunOf(k) = current /\ decision[k] = "archive"
                                     /\ item[k] = Absent /\ ~ArchivedCluster(k)}

ToArchive == {k \in found : /\ RunOf(k) = current /\ decision[k] = "archive"
                            /\ ~ArchivedCluster(k)}
ToThread == {k \in found : /\ RunOf(k) = current /\ decision[k] = "confirm"
                           /\ k \notin threaded}

SyncEvaluations ==
  /\ step = "syncing" /\ step' = "synced"
  /\ \E days \in [ToWatch -> Windows] :
       item' = [k \in Keys |-> IF k \in ToWatch
                               THEN Watched(k, days[k], "own", FALSE) ELSE item[k]]
  /\ archive' = archive \union Entered(ToArchive, [k \in ToArchive |-> {"cluster"}])
  /\ threaded' = threaded \union ToWatch \union ToArchive \union ToThread
  /\ UNCHANGED <<day, born, record, current, found, decision>>

-----------------------------------------------------------------------------
Next ==
  \/ Tomorrow \/ Cleanup \/ Crash
  \/ \E r \in Runs : CreateRun(r) \/ Overdraw(r) \/ EnterPhase(r)
  \/ \E k \in Keys : Collect(k) \/ WatchDraft(k) \/ AdoptItem(k) \/ ThreadDraft(k)
                     \/ ArchiveDraft(k)
  \/ Expire \/ ExpireSome \/ PhaseEnds \/ AgentFails \/ SyncEvaluations

Spec == Init /\ [][Next]_vars

-----------------------------------------------------------------------------
(* Safety *)

HasEntry(k) == \E e \in archive : e.key = k /\ "item" \in e.of

Stranded(k) == ~IsInactive(k) /\ IsInactive(k)' /\ ~HasEntry(k)'

\* An item leaves the watch with an entry in the archive, but for three causes:
\* evidence of another run was added to it, cleanup had taken its own evidence, or
\* the agent of its own run archived it with evidence that the run does not have, or
\* under the name of another entry.
LeavesWithEntry ==
  [][\A k \in Keys : Stranded(k) =>
       \/ item[k].alien \/ k \notin found
       \/ step = "drafting" /\ RunOf(k) = current]_vars

\* Memory is not deleted: neither items nor entries nor threads are lost, and
\* what was archived becomes active as a reactivated item only.
MemoryStays ==
  [][/\ archive \subseteq archive' /\ threaded \subseteq threaded'
     /\ \A k \in Keys : /\ item[k] # Absent => item'[k] # Absent
                        /\ IsInactive(k) => item'[k].status # "active"]_vars

\* When a run has expired the due items, those that are left name a cluster
\* that was deleted or is another run's: nothing else keeps one on the watch
\* (and these do, see ExpiryGuaranteed).
ExpiryIsComplete ==
  [][step = "expiring" /\ step' = "drafting" =>
       \A k \in Keys : IsDue(k)' => \/ item[k].cluster = "alien"
                                    \/ item[k].cluster = "own" /\ k \notin found]_vars

\* When no agent did it, every evaluated cluster of the run gets its record.
SyncCovers ==
  [][step = "syncing" /\ step' = "synced" =>
       \A k \in found : RunOf(k) = current =>
         /\ decision[k] = "watch" => item'[k] # Absent
         /\ decision[k] = "archive" => ArchivedCluster(k)'
         /\ decision[k] = "confirm" => k \in threaded']_vars

(* What the documentation says and runs refute *)

\* docs: the harness must guarantee TTL expiration; no item that is due is left when a
\* run has expired the due ones.
ExpiryGuaranteed == [][step = "expiring" /\ step' = "drafting" => \A k \in Keys : ~IsDue(k)']_vars
=============================================================================
