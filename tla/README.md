# Connor.ai: specifications and proofs

Connor.ai produces a daily report about the AI industry. A *run* collects
signals with scouting agents, clusters and evaluates them, writes a report, has
it reviewed and publishes it. Everything the agents return is turned into
records of one database by deterministic code, and deterministic gates decide
what happens next. This directory holds TLA+ specifications of that code, the
TLC configurations that check them on small instances, and TLAPS proofs of the
main results for every size. Paths below are relative to `src/app/` of the
repository, or to the repository's root when they start with `docs/` or
`tests/`.

    tlc -config RunHarness_rounds.cfg MCRunHarness
    tlapm RunHarness_proofs.tla

## 1. Inventory

| component | state it keeps | operations | what makes it correct |
|---|---|---|---|
| daily run harness (`harness/runner.py`, `context.py`) | the run record in memory and in the database | `run`, `resume`, exception handler, `checkpoint` | an invocation that returns has settled the run or granted it a sweep, settled runs are left alone, an exception fails the run, a crash loses no more than the step it hits |
| collect loop (`harness/collect.py`) | round, follow-up and call counters of the run record | a round: scouting, clustering, evaluating, watchlist update, gate | every sweep is paid for by a round, budgets hold, the loop returns only with a decision |
| writing loop (`harness/writing.py`) | the same record, reports and reviews | a round: write, review, gate, edit, final review | what is finalized was reviewed; revisions are bounded; collection is reopened within the budget |
| quality gates (`harness/gates.py`, `decisions.py`) | none | `evaluate_collect`, `evaluate_writing` | an outcome for every input, the budgets consulted before they are spent, coverage of the report's buckets |
| run record and repositories (`domain/run.py`, `repositories/`) | rows with a validated JSON payload | `require`, `add`, `get_full_state` | what was written can be read again; no update is lost |
| trace service (`services/tracing.py`) and parallel scouts (`harness/collect.py`) | trace events with a sequence number per run; one transaction per scout; a process-wide lock per run | `record_event`; start, commit, roll back a scout | unique, gapless numbers in commit order; the sweep ends |
| scout materializer (`harness/materialization.py`) | candidates | resolve evidence, repair and store candidates | a draft is stored with evidence that exists, or as a hypothesis; what the runner makes up is always accepted |
| clusterer (`clusterer/`) | clusters, found again by a dedupe key | create, merge, split | one cluster per event, no evidence lost by a merge |
| evaluators (`evaluators/`) | evaluations | normalise and store a draft | one evaluation of each kind counts per cluster |
| writing materializer (`writing/`) | reports, reviews | store drafts, reviews and edits | an item shows clusters of its own category and cites their evidence; a passed report is free of what the guards look for |
| watchlist and archive (`watchlist/`) | watch items, archived signals, threads | create, update, expire, archive, reactivate | an item is in one place, and its history is complete |
| agent runner and tool bridge (`agents/`) | one agent turn: timeout, tool threads | run with a timeout, repair or replace the output | no late result is recorded after the turn; the tool limit holds |
| tool executor (`tools/executor.py`) | tool calls, evidence | execute, validate, deduplicate by URL | an URL once per run |
| cleanup (`repositories/cleanup.py`) | all tables | delete what is older than the retention | watch items, archive entries and threads stay, and can still be archived |
| command line (`cli.py`) | none | configure and start a run | its configuration is consistent with the budgets |
| role configuration (`scouts/profiles.py`, `tools/builtin.py`, `agents/registry.py`) | tables | look-ups | what one table yields the others accept |
| artifact service, report judge, source tools, prompts and models, API and dashboard | files, texts | I/O and rendering | not modelled (section 8) |

The harness calls everything else. A phase runs its agent tasks one after the
other, except scouting, which starts a thread and a database session for each
scout when the database is PostgreSQL. What an agent returned is materialized on
the main session. Components do not call back into the harness: they share the
database. The run record is a value (`RunState`) that the loops copy, change
with `model_copy` (no validation) and write back whole; it is validated when it
is loaded. Every step of the loops commits (`commit_checkpoints=True` in
`cli.py`), so a run can be resumed by another invocation after a crash.

The hard behaviours are listed, each at its line, under "hazards" in
`PROJECT.json`. They are of six kinds:

 * the copy of the record the loops carry and the record in the database drift
   apart: counters are overwritten, or pushed over a budget that is only looked
   at when the record is loaded;
 * a crash or an exception leaves the run at any commit, and `resume` decides
   from the phase and the counters where to go on;
 * loops nested over three budgets (collect rounds, follow-ups, writing rounds)
   with jumps between them, spread over several invocations;
 * threads that share the numbering of the trace through a lock, a unique index
   and transactions;
 * drafts of agents that name rows which are missing, or belong to another run,
   and that pass through a chain of repairs, each of which may undo what an
   earlier one has established. A draft that is left unrepaired fails the run;
 * rows that outlive their run: dedupe keys, watch items, archive entries and
   threads meet evidence that a retention has deleted, or another run's.

## 2. Modules

| module | models | interacts |
|---|---|---|
| `QualityGates` | the outcome of both gates as operators of what they read | used by `RunHarness`, `Selection`, `ReportReview` |
| `RunHarness` | runner, both loops, the run record, crashes, resumes | `EXTENDS QualityGates` |
| `RunLifecycle` | abstract: what a run promises, without phases, tasks and memory | instantiated by `RunHarness` as `Lifecycle` |
| `MCRunHarness` | task tables for TLC | |
| `TraceSequence` | one sweep of scouts, the sequence lock, transactions, the unique index | refines the step `pc = "scouting"` of `RunHarness` |
| `AgentTurn` | one agent turn: the event loop, the worker that runs its tools, the session they share | one turn of `RunHarness!PhaseTasks`; a scout's turn is what `TraceSequence!Turn` takes as a whole |
| `ScoutProfiles` | which candidates a scout may propose: four tables and the repairs between them | no state; `Clustering` `EXTENDS` it |
| `Clustering` | evidence, candidates and clusters of one run | its sweep is that of `TraceSequence`; its scouts end as `AgentTurn` says |
| `Selection` | evaluations, and what the collect gate selects by them | `EXTENDS QualityGates`: the gate's outcome is `CollectOutcome` of what this module computes; refines `Clustered`, `Evaluated` and `WithCoverage`, by which `RunHarness` lets its tasks change the evaluations |
| `ReportReview` | drafts, reviews and edits of one writing loop | `EXTENDS QualityGates`: `WritingOutcome`; refines `Drafted`, `Reviewed` and `Edited`, by which `RunHarness` lets its tasks change the paper |
| `MCReportReview` | clusters and drafts for TLC | |
| `Watchlist` | watch items, archive entries and threads of several runs, cleanup | stands for the task of the phase WATCHLIST_UPDATE; its overdrawn records are those of `RunHarness_overdrawn` |
| `MCWatchlist` | windows for TLC | |
| `RunHarness_proofs`, `RunCalls_proofs` (counters and steps of `RunHarness`), `TraceSequence_proofs`, `AgentTurn_proofs`, `Clustering_proofs`, `Selection_proofs`, `ReportReview_proofs`, `Watchlist_proofs` | theorems about the module they are named after | `EXTENDS` it |

Operators with a comment "Faulty variant" are deliberately wrong versions of the
definition that follows them; each run's property is known to fail when the
definition is replaced by them (`"mutants"` in `PROJECT.json`). They are not
used by any specification.

### QualityGates

`CollectOutcome` and `WritingOutcome` are `evaluate_collect` and
`evaluate_writing` in the order in which the code tries its conditions.
`Evaluations` is what the collect gate reads of the full state, by number of
clusters: `picked` clusters an evaluation or an earlier gate selected, `covered`
clusters added for a required report bucket. `Clustered`, `Evaluated` and
`WithCoverage` are how the clusterer, the evaluators and the entry into writing
change it; `Selection` computes it from clusters and scores and shows that they
are right. `Drafted`, `Reviewed` and `Edited` are the effect of the writing tasks
on what the writing gate reads; `ReportReview` shows that they are right.
`ForceExhausted` is `_force_exhausted_decision`.

### RunHarness

| variable | code |
|---|---|
| `pc` | the place in `DailyRunHarness.run`, `CollectLoopHarness.run` or `WritingLoopHarness.run`; `"idle"` between invocations |
| `run` | the `RunState` the loop holds in memory |
| `db` | the committed `RunState` |
| `evals`, `paper` | the run's evaluations, and its reports and reviews, reduced to what the gates tell apart |
| `result` | how the last invocation ended |
| `crashes` | a bound |

An action is one call the loops make: `Start`, `Resume`, `ResumeInVain`
(`run`, `resume`); `TransitionFollowup`, `StartCollectRound`,
`CollectExhausted`, `CollectGate`; `PhaseTasks` for every phase's tasks, with
the materializers' results (`Outcomes`) and the counters they book, and
`PhaseRaises` for their failure; `StartWritingRound`, `WritingExhausted`,
`WritingGate`; `Unloadable` for a `require` that fails validation; `Raise` for
the exception handler, and `RaiseBroken` for the handler that meets a session
whose flush has failed: nothing rolls it back, the handler's `require` raises
`PendingRollbackError`, and the run stays as it was committed last (`result` is
`"broken"` then); `Crash` for a process that dies or loses its database. A gate
includes the application of its decision
and its commit. `PhaseTasks` separates the three places the code keeps a record:
the tasks' objects, the counters added to a freshly loaded record, and the
loop's own copy, which does not see them. Agents are nondeterministic: any
result their materializer accepts may come, in any order, and a task may fail
after storing a part.

`review_rounds` counts revisions. `reports` is 0, 1 or 2 (for several), because
the gate reads the latest only; `matched` says that the latest review is of the
present content of the latest report.

### RunLifecycle

A run is scheduled, collects, writes, may be sent back to collect, and is
completed, paused or failed for good. Each cycle is paid from a budget that is
never refilled. `RunHarness!KeepsLifecycle` states that the record in the
database behaves like this, under the mapping `Stage` of phases and statuses.

### TraceSequence

`record_event` takes the run's lock, reads the highest number it can see,
inserts and flushes, and releases the lock (`Acquire`, `Read`, `Insert`). A
session sees what is committed and what it inserted itself. The unique index on
`(run_id, seq)` makes an insert wait for another open transaction with the same
number (`Blocked`, so `Insert` is disabled and the lock stays taken) and fail
when that transaction has committed (`Collide`), which ends the scout. A scout
that succeeds commits, one that fails is rolled back (`Succeed`, `FailAgent`).
`Finish` is what the main session records after the pool has waited for its
threads. `parallel` is FALSE in the serial fallback for SQLite: one session, no
waiting. Both kinds of sweep are behaviours of the module. The read-committed
isolation and the waiting of the unique index are PostgreSQL's; they are the only
part of the model that is not in the repository.

### AgentTurn

| variable | code |
|---|---|
| `role` | scout (has tools), composer (clusterer, writer, editor: have a deterministic fallback), judge (neither) |
| `main` | where `AgentRunner.run_async` is |
| `tool` | what the bridge's single worker does: `"queued"` is a call handed to it that it has not started; from `"fetching"` on it holds `_execution_lock` |
| `pending`, `inside` | the session work each thread has to do before it goes on, in order, and who is doing some |
| `broken` | the session raised because two threads used it |
| `trace` | the turn's events, as recorded |
| `requests`, `results` | tool calls asked for (bound), and kept in `executed_results` |
| `returned`, `outcome` | `AgentRunResult.tool_results`, and how the turn ended |

`CallTool`, `Answer`, `ReactLimit` and `ReplyRaises` are the agent, which is
external: it calls a tool, ends with any text, hits its iteration limit or
raises. `Timeout` is `asyncio.wait_for`: each of the three replies a turn may
await (the agent's, `_finalize_after_react_limit`,
`_repair_structured_output`) has its own, and cancels a queued call but not a
running one. `Accept`, `Repair`, `FallBack`, `GiveUp`, `Raise`, `Complete`,
`Return` follow the output through `run_async`; any text, repaired text or
fallback may validate or not. `Close` is the `finally` clause, which waits for
the worker. `StartTool`, `RejectTool`, `FetchEnds`, `FetchRefused` and `ToolEnds`
are `_execute_connor_tool_sync` and `ToolExecutor.execute`. What a thread writes
is `Enter` and `Leave`, so that the two can overlap; an event takes the sequence
lock, everything else does not. `Abort` is the error a session may raise when
used by two threads. Which items of a call are duplicates is left open.

A call whose request cannot be stored (`FetchRefused`,
`services/artifacts.py:64`) is neither recorded nor counted. `ToolBudget` is
therefore a bound of the recorded calls, not of the fetches.

### ScoutProfiles

`Fits` is the profile of a scout (`scouts/profiles.py`), `Tools` what a role can
draw on, `WithoutEvidence`, `FinanceStatus`, `ForProfile` and `IsCandidate` the
repairs and the rules between a draft and a stored candidate, in their order
(`Admits`), and `Fallback` the draft the runner makes up when a scout stops at
its limit of iterations.

### Clustering

| variable | code |
|---|---|
| `parallel`, `stage`, `sweep` | how the scouts of a sweep run, and where the round is; `"failed"` and `"broken"` end the run |
| `working`, `answered`, `drawn` | the scouts still to run, those whose output waits to be materialized, what the tools returned to each |
| `evidence`, `candidates` | the committed evidence of the run, its candidates |
| `drafts` | a bound |
| `clusters`, `saved`, `lineage` | the clusters by dedupe key, as flushed and as committed, and `RunState.cluster_ids` |

`CallTool` is `ToolExecutor.execute` with its look-up by URL: a parallel scout
does not see what the others have drawn (`Visible`). `Answer` and `FailAgent` end
a scout. `MaterializeCandidate`, `MaterializeFallback`, `RefuseCandidate` and
`MaterializedAll` take the drafts of one output: evidence ids resolve whatever
run they are of, else those of the whole output, else what the tools returned
(`Cited`); a draft is stored or fails the run. `MaterializeCluster` stores what a
cluster draft proposes (`Proposals`: the candidates it names, or those that share
its evidence, or some of its category; the parts of a draft that is split).
`StoreCluster` creates or merges, fails without evidence of the run, or breaks
the session at a key of an earlier run. `EndClustering` commits and writes the
lineage.

### Selection

`StoreCluster` creates a cluster in a category or recategorises it by a merge.
`Evaluate` normalises a draft (`Score`, `Decision`, `Policy`), asks the profile
of the role (`Valid`), replaces the evaluation of the same cluster, role and
decision (`With`) and flags the cluster; `RefuseDraft` fails the run. `Gate` is
the selection of `harness/gates.py` (`Picked`, `Added`, `Low`, `Queries`), the
outcome, and what it stores. `Reopen` is the return from the writing loop.

### ReportReview

`reports` is the sequence of the run's reports in the order of creation, `review`
the latest review, `touched` the reports reviewed in the task. The drafts of an
item go through `Normalized`, `WithLineage`, `WithImpact`, `WithUncertainty` and
`WithFollowups`, as in `_item_from_draft`; `ItemsOf` are the items that remain.
`StoreDraft` places a report draft by its identity: in the place of the report it
names (`Replace`), as a new one (`Create`), or as the Writer's unnamed report,
which is written anew and so becomes the latest (`Rewrite`). `FallBack` is what
the runner makes up when the replies are of no use; `RefuseDraft` fails the run.
`Review` follows the drafts of reviews through their repairs (`Reconsidered`), the
aggregation (`Strongest`, `Overall`), the filter (`Kept`) and the guards
(`Guarded`, `Decided`); `RefuseReview` is a review that does not validate.
`StartRound`, `EndTask`, `Exhausted` and `Gate` are the loop; the gate asks
`Ready` of the latest report. `Paper` is what `RunHarness` keeps of all this.

### Watchlist

Keys `<<run, topic>>` identify a cluster with its evaluation and evidence, a
watch item and an archive entry. A phase of a run goes through `Expire` (or
`ExpireSome`, when a crash or an owner's record that cannot be loaded cuts it
short), the drafts of the agent (`WatchDraft`, `AdoptItem` for an item of another
run, `ThreadDraft`, `ArchiveDraft`) or `AgentFails` and `SyncEvaluations`, and
`PhaseEnds`; `Crash` ends it anywhere. Around it are `Tomorrow`, `CreateRun`,
`Collect`, `Overdraw`, `EnterPhase` and `Cleanup`. `Marked` and `Entered`
separate what the code does in that order: an item is marked before the evidence
of its entry is looked at. A draft of an agent may also name an entry that exists,
which stays what it is of, or evidence of its own that is missing or foreign, which
is found out when the item is marked and leaves no entry.

## 3. Runs

| run | asks | result |
|---|---|---|
| `RunHarness_rounds` | two scouts and one task in every other phase, a call budget that the rounds can exceed, failing tasks, one crash, any resumes | `CompletedIsReviewed`, `CallsPaidByRounds`, `UnmarkedHasCause`, `ReturnsSettled`, `SettledStays`, `KeepsLifecycle`, `ReopenIsLastReview`, `BookedCallsStay`, `Shrinks`, `InvocationEnds` hold (0.44 million states) |
| `RunHarness_overdrawn` | the command line's budget of 50 model calls | violates `RaisedIsFailed` |
| `TraceSequence_sweep` | three scouts of up to four events, parallel or serial | `OneWriter`, `CollisionFollowsFinish`, `TimelineGrows`, `SerialSweepEnds` hold (12 thousand) |
| `TraceSequence_stuck` | two parallel scouts | violates `SweepEnds` |
| `AgentTurn_turn` | turns of every role, up to four tool calls against a budget of two, each reply with a timeout | `ToolBudget`, `LoopNeverBlocks`, `ResultsComplete`, `TurnIsTraced`, `QuietAfterTurn`, `TurnEnds` hold (26 thousand) |
| `AgentTurn_shared` | the same turns | violates `OneThreadInSession` |
| `Clustering_sweeps` | two sweeps of two scouts, parallel or serial; drafts that name missing and foreign ids; a key of an earlier run | `OneItemPerUrl`, `Grounded`, `LineageComplete`, `FallbackIsStored`, `CurationGrows`, `FailureHasCause` hold (49 thousand) |
| `Selection_rounds` | up to three rounds, one a follow-up, in which clusters change category and are judged anew | `BucketsCovered`, `SelectionAgrees`, `DecisionsStay`, `KeepsView` hold (0.7 million) |
| `ReportReview_loop` | three writing rounds, two reports, eleven kinds of item drafts, made-up reports | `ItemsGrounded`, `FieldsRepaired`, `PassIsClean`, `KeepsPaper`, `FallbackKeepsReport` hold (0.61 million) |
| `ReportReview_emptied` | the same drafts, one report | violates `ReopenIsHeard` |
| `Watchlist_runs` | two runs over three days, with cleanup, crashes and overdrawn owners | `LeavesWithEntry`, `MemoryStays`, `ExpiryIsComplete`, `SyncCovers` hold (1.9 million) |
| `Watchlist_due` | the same runs | violates `ExpiryGuaranteed` |

What the properties say beyond their names:

 * `CallsPaidByRounds` is the bound with which a budget of calls can be compared:
   one that is at least what all rounds can book keeps every record loadable
   (`Loadable`, proved as `AmpleBudgetsLoad`). `RunHarness_overdrawn` shows that
   the command line's budget is not.
 * `BookedCallsStay` says where calls *are* lost: `_start_writing_round` writes
   back the loop's older copy. The counters are therefore a lower estimate, and
   `CallsPaidByRounds` is an upper bound of what is booked, not of what was used.
 * `ReopenIsLastReview` holds, and is a warning: after a review asks for more
   collection, the writing loop finds a review and never asks for another, so the
   gate meets the same REOPEN_COLLECT until the rounds are spent.
 * `UnmarkedHasCause` names the two ways in which an exception leaves a run that is
   not failed: the record is over a budget of calls, and nothing loads it again; or
   the session held a failed flush (a dedupe key or a sequence number that is
   taken), and the run is left RUNNING, in a state that can be resumed.
 * `ReturnsSettled` says what a caller may take for granted of an invocation that
   returns. Two outcomes leave the run RUNNING in FOLLOWUP, with a sweep that only
   a resume starts: a follow-up granted after the last collect round
   (`harness/collect.py:59`), and a collection that a review has reopened while
   collect rounds are left. The command line resumes nothing, so the properties
   assume nobody who does.
 * `Shrinks` is what the ending of a run rests on: the rounds and crashes that are
   left, and with the same left the way to the end of the round, get smaller with
   every step. A loop that went on where it should return would not (variant
   `CollectExhaustedContinues`).
 * `CollisionFollowsFinish` says who pays for a collision. It can only hit a scout
   before its first event, when another scout has just committed. The `IntegrityError`
   is no `AgentScopeExecutionError` (`harness/collect.py:456`), so it reaches
   `future.result()` (468) and fails the run: the scouts that have finished, one at
   least, have their events in the trace and their results nowhere.
 * `OneWriter` is why `TimelineGrows` holds although a scout cannot
   see the others' events: two transactions with events would both hold the
   number after the committed ones. The same exclusion is what makes
   `TraceSequence_stuck` possible: scouts that should run in parallel wait for
   each other with the lock in hand. Taking numbers from a database sequence, as
   the comment at `services/tracing.py:436-437` suggests for several processes,
   removes the waiting and leaves gaps (variant `ReadCounter`).
 * `LoopNeverBlocks` is about `executed_result_count` and
   `executed_results_snapshot`, which take the lock the worker holds while it
   runs a tool. `run_async` calls them from the event loop's thread. After a
   timeout a tool may be running, and the handler of the timeout calls both when
   it has a fallback; that is harmless only because the roles with a fallback
   have no tools (variant `HasFallbackOfScouts`).
 * `ResultsComplete` and `TurnIsTraced` relate the result of a turn to its trace
   whatever way its output took. `TurnIsTraced` excepts a session that broke:
   then the error event itself may be what is lost.
 * `QuietAfterTurn` needs `Close` to wait: the harness commits or rolls back the
   session next.
 * `OneItemPerUrl` holds for parallel sweeps too, although the look-up does not see
   what other scouts have drawn: by `OneWriter` only one of them can have drawn
   anything that is not committed (`Clustering!HasTurn`), because every call is an
   event of its transaction.
 * `FallbackIsStored` relates four tables that are edited apart: a status that one
   of them gives and another refuses would turn "stopped at the limit" into a
   failed run.
 * `FailureHasCause` traces a failure of clustering two stages back. A candidate is
   stored although its evidence could not be found, or with evidence of an earlier
   run; the run fails only when a cluster draft rests on such candidates alone.
   Two cases are left for it: the scout's tools had returned nothing new, or the
   ids were an earlier run's.
 * `BucketsCovered` is about the categories clusters have *now*. The gate covers
   the buckets at the time of the evaluation, and a later merge may recategorise
   the selected cluster of a bucket; the next gate covers it again, because it
   asks what is selected among the clusters of today's category.
 * `DecisionsStay` holds because evaluations are kept by decision: a later,
   opposite judgement of a cluster never takes back a selection, and a `recluster`
   is met again at every gate until the rounds are spent.
 * `KeepsView` is the composition with `RunHarness`, as `KeepsPaper` is for the
   writing: whatever `RunHarness_rounds` says of the collect loop rests on
   `Clustered`, `Evaluated` and `WithCoverage`. A merge that moves a cluster to
   another bucket changes what covers the buckets and whether the scores are low,
   but nothing that was picked.
 * `FieldsRepaired` depends on the order of the repairs: the category of an item is
   settled before its label and impact are (variant `RepairedEarly`).
 * `PassIsClean` likewise: the guards look at the review after the filter, which
   may have turned it into a pass (variant `DecidedEarly`).
 * `KeepsPaper` is the composition with `RunHarness`: whatever `RunHarness_rounds`
   says of reviews and reports rests on `Drafted`, `Reviewed` and `Edited`, and
   these are what the materializer does.
 * `ItemsGrounded`: clusters of another category are dropped before the evidence of
   an item is compared with that of its clusters (`WithLineage`); an item keeps to
   the evidence of what is left of them (variant `WithLineageOfRun`).
 * `FallbackKeepsReport` is about one task in a phase, as the command line has it: a
   second Editor would carry forward the report as it was when the phase began.
 * `LeavesWithEntry` excepts three cases, all real, since an item is marked before
   anything else about its entry is checked: a draft of another run has added that
   run's evidence to it; the retention had deleted its evidence; or the agent of its
   own run archives it with evidence ids that are missing or foreign, or under the
   id of an entry that exists.
 * `ExpiryIsComplete` says which due items stay: their draft names a cluster that is
   deleted or of another run, is skipped, and is skipped again in every later run.
   `Watchlist_due` is the same case against what
   `docs/adr/0013-watchlist-lifecycle-boundary.md:17` asks of the harness.

### Bounds

Rounds: `RunHarness_overdrawn` has the command line's tasks and defaults, 3
collect, 2 follow-ups, 3 writing rounds and 2 revisions; `RunHarness_rounds` uses
2/1/2/1, the smallest in which every budget can be spent and a jump between the
loops can be taken twice, with two scouts and one task in every other phase. Two clusters against a
minimum of one selected and two written distinguish none, too few and enough. A
budget of 15 model calls is enough for two sweeps and a writing round, so a run can
be completed, and too little for all rounds, so it can be exceeded. `ToolCalls` is
{0}: tool calls are added like model calls. One crash shows every point of
interruption, with the resume that follows it. Two reports stand for several in
`RunHarness`, as the gates read the latest.

Three scouts of `TraceSequence` give a holder of the lock, a holder of rows and a
third; four events let a scout read again after its first insert with another
waiting. `Before = 2`: the run has events before a sweep. Two tool calls are the
finance scout's budget; four requests let one be rejected after another was
refused, and a call follow a rejected one.

`Clustering_sweeps`: two scouts, of which one has its outputs split and one may
store anything weak; one URL, which both can find in either sweep; a key that is
free and one that is taken; two drafts a round, so that a cluster is merged into.
The rest is proved for all of these.

`Selection_rounds`: two clusters in two buckets or none, so that the coverage adds
one to the other; scores below, above and out of scale; one judgement a round,
over three rounds, so that a cluster is judged, recategorised and judged anew.

`ReportReview_loop`: a cluster of each bucket and a second category of the first
bucket (a hint: of a researcher, or on code or models), two of them selected; every
kind of draft a repair is for (`MixedDrafts`); two items and two reports, so that a
review can be of another report than the latest.

`Watchlist_runs` and `Watchlist_due`: two runs give an owner and another run; days
0 to 2 with a retention and windows of one day let an item fall due before and after
its evidence is deleted. In the code the longest window is the retention, 90 days.
A topic without a cluster is in the second run.

### Fairness

`FairSpec` of `RunHarness` assumes that an invocation goes on until it returns,
except while its scouts are at work. Outside of that sweep it is sequential code,
agent turns end by their timeout (`execution.timeout_seconds` of the roles), and
tools have their own. A parallel sweep may never end, which `TraceSequence_stuck`
shows, so nothing is assumed of it, and `InvocationEnds` says that an invocation ends
or hangs there. (A serial one does end: `SerialSweepEnds`.) Nothing is assumed of a caller either: nobody need start or
resume a run. Crashes are bounded.

`FairSpec` of `TraceSequence` assumes that a thread that *can* go on does. A thread
that waits for the lock or for a row cannot, so the fairness does not hide the
deadlock. Weak fairness on the whole step of a scout suffices: which of two waiting
threads gets the lock is left open.

`FairSpec` of `AgentTurn` assumes that the worker and `run_async` go on and that
timers fire: every role has a timeout (`agents/registry.py:90`), source tools
have theirs. Nothing is assumed of the agent.

Deadlock is checked in the `RunHarness` runs. A sweep of `TraceSequence` ends, or
hangs, which `TraceSequence_stuck` is about; a turn of `AgentTurn` ends, which is
`TurnEnds`; the others stop where a run fails or settles, or at a bound of rounds
or days.

## 4. Disagreements with the documentation

Each is a run that must fail and a "findings" entry in `PROJECT.json`.

 1. `RunHarness_overdrawn`: a run that books more model calls than its budget can
    no longer be loaded, not even by the handler that should mark it failed
    (`docs/DEV_LOG.md:644`). A failed flush is the other way to the same end
    (`UnmarkedHasCause`).
 2. `TraceSequence_stuck`: parallel scouts block each other for ever
    (`harness/collect.py:336-341`, `services/tracing.py:432-433`).
 3. `AgentTurn_shared`: after a timeout the runner and the worker use one database
    session at the same time (`docs/worklogs/post-15b-technical-debt.md:30`).
 4. `ReportReview_emptied`: a review that reopens the collection for missing
    evidence loses its findings to the filter when the report's evidence map is
    complete; what is left does not validate, and the run fails
    (`docs/MASTER_PLAN.md:102`, `writing/materialization.py:1541`).
 5. `Watchlist_due`: a due item whose first cluster is gone, or of another run, is
    skipped before it is marked and stays on the watch for good
    (`docs/adr/0013-watchlist-lifecycle-boundary.md:17`, `watchlist/lifecycle.py:69`).

## 5. Proofs

The proof modules prove their theorems for all values of the constants that
satisfy the named assumptions `GateAssumption`, `HarnessAssumption`,
`TraceAssumption`, `TurnAssumption`, `WatchAssumption`, `ClusteringAssumption`,
`SelectionAssumption` and `ReviewAssumption`: budgets are natural numbers, the
required ones positive; every phase has a task; windows are positive and the
shortest of a tier is not longer than the longest; the clusters a report may be
written from are finitely many and have evidence. Nothing else is assumed;
crashes and failing tasks included. Every module's type invariant is proved, and
needs no run.

**RunHarness_proofs.** The invariants are not inductive: whether
`StartCollectRound` may write the loop's copy back depends on its agreement with
the database. `IInv` adds

 * `Agree`: the loop's copy has the phase, the status and the rounds of the
   record in the database. It may lack calls, and only calls. That is why the
   stale copy is harmless for the control of the run although it loses counters;
 * `Budgeted`: the rounds of the record are within their budgets;
 * `Located`: where the record is when the process is at `pc`. While an
   invocation goes on the run is running; in the writing loop the phase is a
   writing phase and a collect round was spent; after the first step of a writing
   round a writing round was counted.

`Invariance` proves it step by step. From it follow `TypeCorrect`,
`RoundsBounded`, `Settled` (a settled run is unchanged: only `Invoke` is
possible, and `Located` rules out the rest), `CompletedWasReviewed` (only the
writing gate completes a run, after which `Settled`'s argument keeps the papers
unchanged too) and `ImplementsLifecycle`, the refinement: every step of the
harness is a step or a stutter of `RunLifecycle`, by lemmas that match each
action (`CollectSimulates`, `WritingSimulates`, `TasksSimulate`,
`InvocationSimulates`). `RaisedIsMarked` and `ReopenIsLast` have an invariant of
their own: `Marked` (how the record is left by an exception that the handler could
record, and by one that it could not), and `Judged` (no task that reviews is due
while the latest review reopens the collection). `ReturnedIsSettled` needs what the
gates may grant: a reopened collection only while a collect round is left
(`WritingGateFacts`), a follow-up never from a review.

**RunCalls_proofs.** How many calls the record has cannot be told from the rounds
alone: in the middle of a round a part of its calls is still to come, and the
loop's copy may lack some that were booked. Every kind of call has a price for
each task; `Earned` is what the rounds counted so far may book, `Owed` what the
invocation may still book before it must count another round, at each place of
the loops. `Paid` says that what is booked and what is owed is not more than what
was earned. `Sweeping` says that a sweep is under way only when a round was
counted for it, `Lacks` that the loop's copy never has more calls than the
database, and `Fresh` where it has the same, so that writing it back loses
nothing: everywhere but at the start of a writing round. `BookedCallsKept`
follows from these, and `CallsArePaid` from `Paid`, for any prices. For a budget
of tool calls a price has to be assumed, the most tools a phase calls:
`AmpleBudgetsLoad` shows that with budgets of at least `AllRounds` every record
can be loaded. (The command line's default of 50 model calls is less than the 95
its rounds can book; the 15 of `RunHarness_rounds` are less than what its rounds can book, too.)
`StepsAreBounded` is the safety part of `InvocationEnds`: with
every step that moves the process or writes the record a natural number gets
smaller, which is at most `14 * (rounds + crashes) + 14` at any time. That
some step is always possible remains for TLC.

**TraceSequence_proofs.** `Layout` says that the committed numbers are
`0..(n-1)` and that the rows of every open transaction are `n..(n+k-1)`;
`OneWriter` that at most one of them is not empty; `Prepared` that the number a
scout is about to insert is the next one it sees, or committed meanwhile; `Idle`
which sessions have no rows. `InsertExcludes` is the heart: a scout whose insert
goes through while another transaction has rows would insert `n`, which that
transaction holds. `CommitExtends` is the other half: a commit adds an interval
behind the committed one. From `Invariance` follow `SingleWriter`, `NoGaps` and
`CommitsInOrder`. `CollisionsFollow` rests on a second invariant, `Undisturbed`:
serial scouts work one at a time, a parallel scout with events keeps their
rows open, so that nobody else can commit the number it is about to insert, and a
number that was taken was committed by a scout that has finished.
`SweepIsBounded`: every step ends the sweep or makes `Left` of one scout smaller.
`HangsOnlyDeadlocked` says exactly when a sweep hangs: it is parallel, and one scout
holds the lock and waits for a row of another, which waits for the lock to record its
second event (`Deadlocked`, the end of the run `TraceSequence_stuck`). Until it ends, any
other sweep has a scout that can go on, one on a single session always: the safety
core of `SerialSweepEnds`. `ScoutGoes` says it without `ENABLED`; on the instance of
`TraceSequence_sweep` it holds exactly where `ScoutStep` is enabled. `Held`, the third
invariant, says that the lock is held by a scout at work, and that rows come with events.

**AgentTurn_proofs.** `IInv` adds to the types: `Placed`, where a tool may be
running or queued while `run_async` is at a place, and for which roles; `Told`,
which events are recorded at a place or are among the work still to be done
there; `Counted`, that while the session is whole the calls in the trace are the
results kept, but for the one that is being stored. `ToolBudget` and
`ResultsComplete` follow from `Counted`, `LoopNeverBlocks` from `Placed`,
`TurnIsTraced` from `Told`. The lemmas `CallsOfAppend`,
`HasOfTail` and `HasOfAppend` say how the trace and the pending work change.
`SharedOnlyAfterTimeout` says how far the disagreement of `AgentTurn_shared` goes: the
two threads meet in the session only while the timeout of a scout's reply is handled.
`TurnHasTwoEvents` is what `TraceSequence` takes for granted of a scout that succeeds
or fails (`events[s] >= 2`): its start is the first event, and its completion or
error a later one, so long as the session is whole; it needs `Opened`, that nothing
happens before the start is recorded.
What makes a turn end is proved next to it, for any number of calls asked for.
`TurnIsBounded`: every step, also one of the agent, makes `Rank` smaller. A call the
agent may still ask for counts 16, more than the call it becomes; the worker's
stage and chores are `ToolLeft`; `MainLeft` counts each place of `run_async` 5, more
than the chores it may have there, so that a repair or a fallback still descends.
`TurnNeverHangs`: until the turn is over, a guard of the worker's or of `run_async`'s
holds, whatever the agent does (`ToolGoes` and `MainGoes` say so without `ENABLED`;
on the instance of `AgentTurn_turn` they hold exactly where `ToolStep` and `MainStep`
are enabled). `TurnEnds` adds only the fairness, and is left to TLC.

**Watchlist_proofs.** `IInv` adds `LooseHasNoCluster` to the types: a loose key has
neither a decision nor a cluster. The rest is about steps. `MarkedItems`,
`EnteredEntries` and `MarkedStrands` describe what archive drafts do to items and
entries, and which items they leave without an entry; `Expire`, `ArchiveDraft` and
`SyncEvaluations` are instances. `EntryOnLeaving` has one step per action that can
end a watch, and `MemoryKept`, `NoneDueStays` and `FallbackCovers` follow in the same
way.

**Clustering_proofs.** `FallbackFits` says for every role, every tool and every
non-empty set of its sources that the made-up draft is admitted; it is independent
of the state. `IInv` adds `Drawn` (what a scout has drawn is its own and of this
sweep; no other evidence has its URLs, and at most one scout at work has drawn
anything), `Saved` (the lineage names what is committed, which is what there is
between two rounds) and `Counted` (a finished sweep left nothing to materialize).
`UrlsAreUnique` rests on `Drawn`, `LineageIsComplete` on `Saved`. `CauseOfFailure`
needs `ProposalsGrounded` and `MayCiteResolves`: which evidence a proposal and a
candidate can come to have.

**Selection_proofs.** `BestOfBucket` shows that the `CHOOSE` of `First` exists:
the scores of a bucket are bounded, so there is a greatest one, and among equals
a last cluster (`GreatestBelow`, `LeastOfNat`, by the well-foundedness of the
naturals). `SelectionAgrees` is inductive (`PickedAfter`), `BucketsCovered` is
established by the gate and kept while the run is writing. `ViewIsKept` is the
refinement of the collect phases of `RunHarness`, a lemma for each phase:
`ViewOfClustering` counts clusters (`CountClusters`: those that cover a bucket are
no selected ones), `ViewOfEvaluating` rests on `DecisionsStay`, `ViewOfWriting`
shows that selecting what covers the buckets leaves none to cover.
`PhasesAddUp` closes the gap between the steps of this module and those of
`RunHarness`: the steps of a phase, however many, are one step of its tasks.

**ReportReview_proofs.** `RepairedItem` follows a draft through its repairs and
`ItemsAreFixed` shows that an item that was stored is changed by no repair when
it is stored again: that is why the Editor's fallback keeps the report, and why
`FieldsRepaired` holds for every draft. `IInv` adds `Started` (nothing is
reviewed while the Writer writes, and a review is of a report that exists) and
`FailedOnce` (the rejection of a sole report is the end of the loop), without which
a later review could make that report ready again, which `Reviewed` does not allow.
`PaperIsKept` has
a lemma per action (`StorePaper`, `ReviewPaper`, `GatePaper`): the refinement of
the writing tasks of `RunHarness`. `FallbackIsComplete` shows the made-up report to
have as many items as clusters by a bijection (`MadeUpReport`).

Only checked by TLC: the liveness properties (`InvocationEnds`,
`SerialSweepEnds`, `TurnEnds`), which are out of the prover's reach. Every safety
property of a passing run is proved. Nothing is proved about the violations.

## 6. Plan

Done: all modules of section 2, with the proofs of section 5. To come: for a
run, that a step of the harness is always possible until the invocation ends,
beside `StepsAreBounded`. (Deadlock is checked in the `RunHarness` runs.)

## 7. Abstractions to keep in mind

 * Texts, summaries, snapshots and metrics are not in the state. A score is a
   number in `Selection` and "below its threshold" or not in `RunHarness`; a claim
   is one of four wordings in `ReportReview`.
 * Checkpoints: a gate's record, its trace event and its snapshot are one step.
   The commits inside a phase appear as `Crash` and `PhaseRaises` keeping any
   part of what the tasks stored.
 * One process drives a run. Two invocations of one run at the same time are not
   modelled; nothing in the code prevents them.
 * The collect loop may return without a decision after a crash in its last round
   (`harness/collect.py:59`), and a review that passes may be of content that has
   been replaced (`writing/materialization.py`), or be of another report than the
   one that is finalized (`harness/gates.py:246`). These are behaviours of
   `RunHarness`, where `matched` tells them apart, and no property excludes them.
 * `Clustering` has the tools of the command line; `ScoutProfiles!Tools` leaves out
   those for development.
 * Owners of due items are committed one after the other: a record that cannot be
   loaded fails the current run after items of earlier owners have left the watch
   (`Watchlist!ExpireSome`).
 * The decision of a Reviewer's whole output gives way to a draft that asks for a
   revision (`agents/runner.py:1382`, `ReportReview!Overall`): a reopened
   collection that is stated there only is not heard.
 * The guard against system words reads the whole Markdown of a report
   (`writing/materialization.py:1918`); in `ReportReview` such words come with an item.
 * A selected cluster of category `other` has no bucket of the report, so
   `Ready` is never true of a report while it is selected.
 * The follow-up that the Writer's fallback gives an item is in English, which the
   language guard then objects to; `ClaimOf` stands for that wording, too.

## 8. Not modelled

The records made for a run without CLUSTERING or EVALUATING tasks
(`harness/materialization.py:326-426`, `clusterer/materialization.py:622-680`,
`harness/collect.py:567-586`) are left out: the command line always has both.

Artifact files are written once under fresh names. (The retention empties
`inline_content`, which `domain/artifact.py:32-33` requires; no modelled component
loads an artifact.) The report judge is called after finalization and its failure
is swallowed; nothing in the harness reads its verdict. Source tools are network
I/O and parsing of other parties' answers. Prompts are text; the models are
constructed and called by a library. The API and the dashboard only read.
Argument parsing and printing of the command line are left out; its budgets and
tasks are the constants of the runs. The repair of JSON texts and of field names
in replies decides whether a reply is of use, which `AgentTurn` leaves open.
