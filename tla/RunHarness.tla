---------------------------- MODULE RunHarness ----------------------------
(***************************************************************************)
(* The daily-run harness of src/app/harness: DailyRunHarness (runner.py),  *)
(* CollectLoopHarness (collect.py) and WritingLoopHarness (writing.py),    *)
(* driving one run against the database, with the configuration of         *)
(* cli.py (commit_checkpoints=True: what a step persists is durable).      *)
(*                                                                         *)
(* One action is one call of the loops: the start of a round, the tasks of *)
(* a phase, a gate with the application of its decision.  The tasks of a   *)
(* phase end with the addition of their calls to the run's counters; what  *)
(* the tasks themselves persisted is committed before that, so a crash may *)
(* keep it and lose the counters.                                          *)
(*                                                                         *)
(* Every collect phase and WRITING, REVIEWING and EDITING have a task, as  *)
(* cli.py configures them; FINAL_REVIEW may have none.                     *)
(***************************************************************************)
EXTENDS QualityGates

CONSTANTS
  MaxWritingRounds,   \* RunBudgets.max_writing_rounds
  MaxToolCalls,       \* RunBudgets.max_tool_calls
  MaxModelCalls,      \* RunBudgets.max_model_calls
  HasFinalReview,     \* FINAL_REVIEW tasks are configured
  Tasks,              \* the number of tasks configured for each phase
  ScoutSuccesses,     \* bound: how many scouts may succeed in one sweep
  ToolCalls,          \* bound: how many tools one phase may call
  MaxClusters,        \* bound: clusters that can be selected
  MaxCrashes          \* bound: crashes of the process

ASSUME HarnessAssumption ==
  /\ MaxWritingRounds \in Nat \ {0}
  /\ MaxToolCalls \in Nat \ {0}
  /\ MaxModelCalls \in Nat \ {0}
  /\ HasFinalReview \in BOOLEAN
  /\ Tasks \in [{"scouting", "clustering", "evaluating", "watchlist_update",
                 "writing", "reviewing", "editing", "final_review"} -> Nat \ {0}]
  /\ ScoutSuccesses \subseteq 0..Tasks["scouting"]
  /\ ToolCalls \subseteq Nat
  /\ MaxClusters \in Nat
  /\ MaxCrashes \in Nat

VARIABLES
  pc,       \* what the process does next; "idle" outside an invocation
  run,      \* the RunState the loop holds in memory
  db,       \* the RunState in the database
  evals,    \* what the collect gate reads of the run's evaluations
  paper,    \* what the writing gate reads of the run's reports and reviews
  result,   \* how the last invocation ended
  crashes   \* crashes so far

vars == <<pc, run, db, evals, paper, result, crashes>>

CollectPhases == {"initialize", "collect_planning", "scouting", "clustering",
                  "evaluating", "evaluation_gate", "followup", "watchlist_update"}
WritingPhases == {"writing", "reviewing", "editing", "final_review"}
Phases   == CollectPhases \union WritingPhases \union {"finalized"}
Statuses == {"scheduled", "running", "paused", "completed", "failed"}

RunStates == [phase : Phases, status : Statuses,
              collect_rounds : Nat, followup_rounds : Nat, writing_rounds : Nat,
              review_rounds : Nat, tool_calls : Nat, model_calls : Nat]

\* RunState.validate_run_state, applied whenever a record is loaded and
\* never when model_copy makes one.  review_rounds has no budget.
Valid(r) ==
  /\ r.status = "completed" => r.phase = "finalized"
  /\ r.collect_rounds  <= MaxCollectRounds
  /\ r.followup_rounds <= MaxFollowupRounds
  /\ r.writing_rounds  <= MaxWritingRounds
  /\ r.tool_calls  <= MaxToolCalls
  /\ r.model_calls <= MaxModelCalls

Working == {"scouting", "clustering", "evaluating", "watchlist_update",
            "writing", "reviewing", "late_review", "editing", "final_review"}
Deciding == {"collect_top", "collect_gate", "writing_top", "writing_gate"}
Results  == {"none", "collect", "writing", "unchanged", "refused", "raised", "broken",
            "crashed"}

TypeOK ==
  /\ pc \in {"idle"} \union Working \union Deciding
  /\ run \in RunStates
  /\ db \in RunStates
  /\ evals \in Evaluations
  /\ paper \in Papers
  /\ result \in Results
  /\ crashes \in 0..MaxCrashes

Init ==
  /\ pc = "idle"
  /\ db = [phase |-> "initialize", status |-> "scheduled",
            collect_rounds |-> 0, followup_rounds |-> 0, writing_rounds |-> 0,
            review_rounds |-> 0, tool_calls |-> 0, model_calls |-> 0]
  /\ run = db
  /\ evals = [picked |-> 0, covered |-> 0, low |-> FALSE,
               recluster |-> FALSE, queries |-> FALSE]
  /\ paper = [reports |-> 0, ready |-> FALSE, review |-> "none",
               blocking |-> FALSE, matched |-> FALSE]
  /\ result = "none"
  /\ crashes = 0

-----------------------------------------------------------------------------
(* Shared pieces of the steps *)

\* The loops persist a record and keep the same one in memory.
Persist(r) == db' = r /\ run' = r

\* DailyRunHarness.run returns to its caller, or raises to it.
Return(how) == pc' = "idle" /\ result' = how

Continue(next) == pc' = next /\ UNCHANGED result

\* An invocation has no result until it returns.
Enter(next) == pc' = next /\ result' = "none"

-----------------------------------------------------------------------------
(* DailyRunHarness.run and resume *)

\* A scheduled run starts.
Start ==
  /\ pc = "idle" /\ Valid(db)
  /\ db.status = "scheduled"
  /\ Persist([db EXCEPT !.phase = "collect_planning", !.status = "running"])
  /\ Enter("collect_top")
  /\ UNCHANGED <<evals, paper, crashes>>

\* Faulty variant: a paused run is taken for a running one.
ResumePaused ==
  /\ pc = "idle" /\ Valid(db)
  /\ db.status \in {"running", "paused"}
  /\ Enter(IF db.phase \in CollectPhases THEN "collect_top" ELSE "writing_top")
  /\ UNCHANGED <<run, db, evals, paper, crashes>>

\* A run that is still running is resumed where its phase says.
Resume ==
  /\ pc = "idle" /\ Valid(db)
  /\ db.status = "running"
  /\ \/ db.phase \in CollectPhases /\ Enter("collect_top")
     \/ db.phase \in WritingPhases /\ Enter("writing_top")
  /\ UNCHANGED <<run, db, evals, paper, crashes>>

\* A paused or completed run is handed back; a failed one, and one whose
\* record does not validate, are refused with an exception.
ResumeInVain ==
  /\ pc = "idle"
  /\ \/ Valid(db) /\ db.status \in {"paused", "completed"} /\ Return("unchanged")
     \/ (~Valid(db) \/ db.status = "failed") /\ Return("refused")
  /\ UNCHANGED <<run, db, evals, paper, crashes>>

\* Faulty variant: the exception leaves without a mark on the run.
RaiseUnmarked == Return("raised") /\ run' = db /\ UNCHANGED <<db, crashes>>

\* The exception handler marks the run failed, keeping its phase, unless the
\* record it must load first does not validate.
Raise ==
  /\ Return("raised")
  /\ Persist(IF Valid(db) THEN [db EXCEPT !.status = "failed"] ELSE db)
  /\ UNCHANGED crashes

\* The exception is that of a failed flush, or comes after one: nothing rolls the
\* session back, so the handler cannot load the record either (it raises
\* PendingRollbackError) and the run stays as it was committed last.
RaiseBroken == Return("broken") /\ run' = db /\ UNCHANGED <<db, crashes>>

-----------------------------------------------------------------------------
(* CollectLoopHarness.run *)

\* The record that results from applying a collect decision to r.
ApplyCollect(r, outcome) ==
  CASE outcome = "enter_writing" ->
         [r EXCEPT !.phase = "writing", !.status = "running"]
    [] outcome = "followup_now" ->
         [r EXCEPT !.phase = "followup", !.followup_rounds = @ + 1]
    [] outcome = "recluster" -> [r EXCEPT !.phase = "clustering"]
    [] outcome = "continue_collecting" -> [r EXCEPT !.phase = "collect_planning"]
    [] outcome = "needs_manual_review" ->
         [r EXCEPT !.phase = "evaluation_gate", !.status = "paused"]
    [] outcome = "fail" ->
         [r EXCEPT !.phase = "evaluation_gate", !.status = "failed"]

\* Entering writing fixes the selection, which may change what a report that
\* already exists still misses.
FixSelection(outcome) ==
  IF outcome = "enter_writing"
  THEN /\ evals' = WithCoverage(evals)
       /\ \E ready \in BOOLEAN :
            /\ paper.reports = 0 => ready = paper.ready
            /\ paper' = [paper EXCEPT !.ready = ready]
  ELSE UNCHANGED <<evals, paper>>

\* Faulty variant: the phase stays FOLLOWUP.
TransitionFollowupSamePhase ==
  /\ pc = "collect_top" /\ run.phase = "followup"
  /\ Continue("scouting")
  /\ UNCHANGED <<run, db, evals, paper, crashes>>

TransitionFollowup ==
  /\ pc = "collect_top"
  /\ run.phase = "followup"
  /\ Persist([run EXCEPT !.phase = "collect_planning", !.status = "running"])
  /\ Continue("scouting")
  /\ UNCHANGED <<evals, paper, crashes>>

StartCollectRound ==
  /\ pc = "collect_top"
  /\ run.phase # "followup"
  /\ run.collect_rounds < MaxCollectRounds
  /\ Persist([run EXCEPT !.phase = "collect_planning", !.status = "running",
                         !.collect_rounds = @ + 1])
  /\ Continue("scouting")
  /\ UNCHANGED <<evals, paper, crashes>>

\* Faulty variant: the loop goes on where it should return.
CollectExhaustedContinues ==
  /\ pc = "collect_top" /\ Valid(db)
  /\ run.phase # "followup" /\ run.collect_rounds >= MaxCollectRounds
  /\ LET outcome == ForceExhausted(
                       CollectOutcome(evals, db.collect_rounds, db.followup_rounds))
     IN  /\ Persist(ApplyCollect(db, outcome))
         /\ FixSelection(outcome)
         /\ Continue(IF outcome = "enter_writing" THEN "writing_top" ELSE "collect_top")
  /\ UNCHANGED crashes

\* No round is left: the gate decides on what there is and the loop returns
\* whatever it decides, also when that is another follow-up.
CollectExhausted ==
  /\ pc = "collect_top" /\ Valid(db)
  /\ run.phase # "followup"
  /\ run.collect_rounds >= MaxCollectRounds
  /\ LET outcome == ForceExhausted(
                       CollectOutcome(evals, db.collect_rounds, db.followup_rounds))
     IN  /\ Persist(ApplyCollect(db, outcome))
         /\ FixSelection(outcome)
         /\ IF outcome = "enter_writing" THEN Continue("writing_top")
            ELSE Return("collect")
  /\ UNCHANGED crashes

CollectGate ==
  /\ pc = "collect_gate" /\ Valid(db)
  /\ LET outcome == CollectOutcome(evals, db.collect_rounds, db.followup_rounds)
     IN  /\ Persist(ApplyCollect(db, outcome))
         /\ FixSelection(outcome)
         /\ CASE outcome = "enter_writing" -> Continue("writing_top")
              [] outcome \in {"needs_manual_review", "fail"} -> Return("collect")
              [] OTHER -> Continue("collect_top")
  /\ UNCHANGED crashes

-----------------------------------------------------------------------------
(* The tasks of a phase *)

\* What the tasks of the phase at hand may leave in the database.
Outcomes ==
  CASE pc = "clustering" -> Clustered(evals, MaxClusters) \X {paper}
    [] pc = "evaluating" -> Evaluated(evals, MaxClusters) \X {paper}
    [] pc = "writing" -> {evals} \X Drafted(paper)
    [] pc \in {"reviewing", "late_review", "final_review"} -> {evals} \X Reviewed(paper)
    [] pc = "editing" -> {evals} \X Edited(paper)
    [] OTHER -> {<<evals, paper>>}

Store == \E o \in Outcomes : evals' = o[1] /\ paper' = o[2]

\* The calls the harness books for the phase: scouts by their successes, the
\* other phases by their tasks.
Booked ==
  CASE pc = "scouting" -> ScoutSuccesses
    [] pc = "late_review" -> {Tasks["reviewing"]}
    [] OTHER -> {Tasks[pc]}

\* Where the loop goes when the phase is done.
After ==
  CASE pc = "scouting" -> "clustering"
    [] pc = "clustering" -> "evaluating"
    [] pc = "evaluating" -> "watchlist_update"
    [] pc = "watchlist_update" -> "collect_gate"
    [] pc = "writing" -> IF paper'.reports > 0 THEN "reviewing" ELSE "writing_gate"
    [] pc = "reviewing" -> "writing_gate"
    [] pc = "editing" -> IF HasFinalReview THEN "final_review" ELSE "late_review"
    [] pc \in {"late_review", "final_review"} -> "writing_top"

\* Faulty variant: the counters are added to the loop's copy of the record.
PhaseTasksStale ==
  /\ pc \in Working /\ Valid(db)
  /\ Store
  /\ \E calls \in Booked, tools \in ToolCalls :
       db' = [run EXCEPT !.model_calls = @ + calls, !.tool_calls = @ + tools]
  /\ Continue(After)
  /\ UNCHANGED <<run, crashes>>

\* _execute_phase_tasks: the tasks' objects are persisted, then the counters
\* are added to the record as it is in the database.  Going from EDITING to
\* FINAL_REVIEW also loads the record again and changes its phase; in every
\* other case the loop's own copy keeps the counters it had.
PhaseTasks ==
  /\ pc \in Working /\ Valid(db)
  /\ Store
  /\ \E calls \in Booked, tools \in ToolCalls :
       LET counted == [db EXCEPT !.model_calls = @ + calls, !.tool_calls = @ + tools]
       IN  IF pc = "editing" /\ HasFinalReview /\ Valid(counted)
           THEN Persist([counted EXCEPT !.phase = "final_review"])
           ELSE db' = counted /\ UNCHANGED run
  /\ Continue(After)
  /\ UNCHANGED crashes

\* A task fails.  Failures of scouts and of the watchlist agent are skipped,
\* but storing what any agent returned may fail in every phase: in a check of
\* the materialization, or in the database (a key that is taken).
PhaseRaises ==
  /\ pc \in Working /\ Valid(db)
  /\ Store
  /\ Raise \/ RaiseBroken

\* A record over its budget cannot be loaded.
Unloadable ==
  /\ pc \in Working \union Deciding
  /\ ~Valid(db)
  /\ pc = "writing_top" => run.writing_rounds >= MaxWritingRounds
  /\ pc = "collect_top" => /\ run.phase # "followup"
                           /\ run.collect_rounds >= MaxCollectRounds
  /\ Raise
  /\ UNCHANGED <<evals, paper>>

-----------------------------------------------------------------------------
(* WritingLoopHarness.run *)

\* The record that results from applying a writing decision to r.
ApplyWriting(r, outcome) ==
  CASE outcome = "finalize" ->
         [r EXCEPT !.phase = "finalized", !.status = "completed"]
    [] outcome = "revise" ->
         [r EXCEPT !.phase = "editing", !.review_rounds = @ + 1]
    [] outcome = "reopen_collect" ->
         [r EXCEPT !.phase = "followup", !.status = "running"]
    [] outcome = "needs_manual_review" ->
         [r EXCEPT !.phase = "reviewing", !.status = "paused"]
    [] outcome = "fail" ->
         [r EXCEPT !.phase = "reviewing", !.status = "failed"]
    [] outcome = "review_draft" -> r

\* Faulty variant: every round reviews.
StartWritingRoundReviews ==
  /\ pc = "writing_top" /\ run.writing_rounds < MaxWritingRounds
  /\ Persist([run EXCEPT !.phase = "writing", !.writing_rounds = @ + 1])
  /\ Continue(IF paper.reports = 0 THEN "writing" ELSE "reviewing")
  /\ UNCHANGED <<evals, paper, crashes>>

\* The round starts from the record in memory, which lacks the calls booked
\* since it was loaded last: those of the review at the end of the round
\* before and, when no FINAL_REVIEW is configured, of the editing too.
StartWritingRound ==
  /\ pc = "writing_top"
  /\ run.writing_rounds < MaxWritingRounds
  /\ Persist([run EXCEPT !.phase = "writing", !.status = "running",
                         !.writing_rounds = @ + 1])
  /\ Continue(IF paper.reports = 0 THEN "writing"
              ELSE IF paper.review = "none" THEN "reviewing"
              ELSE "writing_gate")
  /\ UNCHANGED <<evals, paper, crashes>>

WritingExhausted ==
  /\ pc = "writing_top" /\ Valid(db)
  /\ run.writing_rounds >= MaxWritingRounds
  /\ Persist(ApplyWriting(db, FailureOutcome))
  /\ Return("writing")
  /\ UNCHANGED <<evals, paper, crashes>>

\* Faulty variant: the loop ends with its last round, also after REVISE.
WritingGateReturns ==
  /\ pc = "writing_gate" /\ Valid(db)
  /\ LET outcome == WritingOutcome(paper.reports > 0, paper.ready, paper.review,
                       paper.blocking, db.collect_rounds, db.review_rounds)
     IN  /\ Persist(ApplyWriting(db, outcome))
         /\ CASE outcome = "revise" /\ db.writing_rounds < MaxWritingRounds ->
                    Continue("editing")
              [] outcome = "review_draft" -> Continue("late_review")
              [] OTHER -> Return("writing")
  /\ UNCHANGED <<evals, paper, crashes>>

\* After REVISE without a round left the loop stops as at its top.
WritingGate ==
  /\ pc = "writing_gate" /\ Valid(db)
  /\ LET outcome == WritingOutcome(paper.reports > 0, paper.ready, paper.review,
                       paper.blocking, db.collect_rounds, db.review_rounds)
     IN  /\ Persist(ApplyWriting(db, outcome))
         /\ CASE outcome = "revise" ->
                    Continue(IF db.writing_rounds >= MaxWritingRounds
                             THEN "writing_top" ELSE "editing")
              [] outcome = "review_draft" -> Continue("late_review")
              [] OTHER -> Return("writing")
  /\ UNCHANGED <<evals, paper, crashes>>

-----------------------------------------------------------------------------
(* The process dies, or loses its database, at any point: the record stays *)
(* as it was committed last.  The tasks of a phase may have committed what  *)
(* they produced.                                                           *)
Crash ==
  /\ pc # "idle"
  /\ crashes < MaxCrashes
  /\ crashes' = crashes + 1
  /\ Store
  /\ Return("crashed") \/ Return("broken")
  /\ run' = db /\ UNCHANGED db

Step == \/ TransitionFollowup \/ StartCollectRound \/ CollectExhausted \/ CollectGate
        \/ PhaseTasks \/ PhaseRaises \/ Unloadable
        \/ StartWritingRound \/ WritingExhausted \/ WritingGate

Invoke == Start \/ Resume \/ ResumeInVain

Next == Invoke \/ Step \/ Crash

Spec == Init /\ [][Next]_vars

\* The loops go on until they return: outside the sweep of the scouts one agent
\* runs at a time and is bounded by its timeouts.  Nothing is assumed of that
\* sweep, whose threads may wait for one another for ever, nor of the caller:
\* whether the run is started and resumed is up to him.
FairSpec == Spec /\ WF_vars(pc # "scouting" /\ Step)

-----------------------------------------------------------------------------
(* Safety *)

\* No order of gates, crashes and resumes spends a round that RunBudgets does
\* not have, neither in the database nor in the copy the loop will write next.
RoundsWithinBudget ==
  \A r \in {run, db} :
    /\ r.collect_rounds  <= MaxCollectRounds
    /\ r.followup_rounds <= MaxFollowupRounds
    /\ r.writing_rounds  <= MaxWritingRounds

\* A completed run went through a writing round and a review, and its report
\* met the final requirements; a review asking for changes is overruled only
\* when the revisions are spent and none of its issues blocks.
CompletedIsReviewed ==
  db.status = "completed" =>
    /\ db.phase = "finalized" /\ db.writing_rounds > 0
    /\ paper.reports > 0 /\ paper.ready
    /\ \/ paper.review = "pass"
       \/ /\ paper.review = "revise" /\ ~paper.blocking
          /\ db.review_rounds >= MaxWritingRevisions

\* The calls one sweep of the collect phases, and one writing round, can book.
SweepCalls == Tasks["scouting"] + Tasks["clustering"] + Tasks["evaluating"]
              + Tasks["watchlist_update"]
RoundCalls == Tasks["writing"] + 2 * Tasks["reviewing"] + Tasks["editing"]
              + Tasks["final_review"]

\* Every sweep is paid for by a collect round, a follow-up round or the writing
\* round that reopened collection, so the booked model calls are bounded by the
\* rounds alone, whatever is crashed and resumed.
CallsPaidByRounds ==
  db.model_calls <=
    (db.collect_rounds + db.followup_rounds + db.writing_rounds) * SweepCalls
      + db.writing_rounds * RoundCalls

\* With a budget of calls that the rounds cannot exceed, the record can always
\* be loaded: no run is stuck.
Loadable == Valid(db)

\* A run whose invocation raised is marked failed, but for two causes that defeat
\* the handler: its record is over a budget of calls, and then nothing will load
\* it again, or the session held a failed flush, and then the run is left RUNNING
\* in a state that can be resumed.
UnmarkedHasCause ==
  pc = "idle" /\ result \in {"raised", "broken"} /\ db.status # "failed" =>
    \/ db.model_calls > MaxModelCalls
    \/ db.tool_calls > MaxToolCalls
    \/ result = "broken" /\ db.status = "running" /\ Valid(db)

\* An invocation that returns without an exception has settled the run, or has
\* granted it one more sweep that only a resume starts: a follow-up granted after
\* the last collect round, or the collection reopened by a review, for which a
\* collect round is left.
ReturnsSettled ==
  pc = "idle" /\ result \in {"collect", "writing"} /\ db.status = "running" =>
    /\ db.phase = "followup"
    /\ result = "collect" => /\ db.collect_rounds = MaxCollectRounds
                             /\ db.followup_rounds > 0
    /\ result = "writing" => db.collect_rounds < MaxCollectRounds

(* What a step may never do *)

\* A settled run is left alone by everything, a late resume included.
SettledStays ==
  [][db.status \in {"completed", "paused", "failed"} => db' = db]_vars

\* The loop's stale copy of the record overwrites counters at the start of a
\* writing round only; all other steps keep what was booked.
BookedCallsStay ==
  [][db'.writing_rounds = db.writing_rounds =>
       /\ db'.model_calls >= db.model_calls
       /\ db'.tool_calls >= db.tool_calls]_vars

\* A review that reopens collection is the last review of the run: nothing in
\* either loop ever asks for another, so the evidence collected afterwards is
\* never judged.
ReopenIsLastReview ==
  [][paper.review = "reopen_collect" => paper'.review = "reopen_collect"]_vars

(* Why nothing goes on for ever: the rounds and crashes that are left, and *)
(* with the same left the way to the end of the round, only ever shrink.   *)
Left == (MaxCollectRounds - db.collect_rounds) + (MaxFollowupRounds - db.followup_rounds)
        + (MaxWritingRounds - db.writing_rounds) + (MaxCrashes - crashes)

Resting ==
  IF ~Valid(db) \/ db.status \notin {"scheduled", "running"} THEN 0
  ELSE IF db.phase = "followup" THEN 9
  ELSE IF db.status = "running" /\ db.phase \in WritingPhases THEN 2 ELSE 3

Place ==
  CASE pc = "idle" -> Resting
    [] pc = "collect_top" -> IF db.phase = "followup" THEN 8 ELSE 2
    [] pc = "scouting" -> 7
    [] pc = "clustering" -> 6
    [] pc = "evaluating" -> 5
    [] pc = "watchlist_update" -> 4
    [] pc = "collect_gate" -> 3
    [] pc = "writing" -> 14
    [] pc = "reviewing" -> 13
    [] pc = "writing_gate" -> 12
    [] pc = "editing" -> 11
    [] pc \in {"late_review", "final_review"} -> 10
    [] pc = "writing_top" -> 1

Rank == 14 * Left + Place

\* Every step that moves the process or writes the record uses some of it up, so
\* a run is over after a number of steps that its budgets bound, whatever the
\* agents return and wherever it crashes.
Shrinks == [][pc' # pc \/ db' # db => Rank' \in 0..(Rank - 1)]_vars

(* Liveness *)

\* An invocation ends, whatever the gates decide, or hangs in a sweep of scouts.
InvocationEnds == (pc # "idle") ~> (pc = "idle" \/ [](pc = "scouting"))

(* The promise of RunLifecycle, kept by the record in the database *)

Stage == IF db.status # "running" THEN db.status
         ELSE IF db.phase \in WritingPhases THEN "writing" ELSE "collecting"

Lifecycle == INSTANCE RunLifecycle WITH
  Collects <- MaxCollectRounds, Followups <- MaxFollowupRounds,
  Writings <- MaxWritingRounds, stage <- Stage,
  collects <- db.collect_rounds, followups <- db.followup_rounds,
  writings <- db.writing_rounds

KeepsLifecycle == Lifecycle!Spec

(* What the documentation says of the program and the runs refute *)

\* docs and tests: an exception fails the run.  The result "raised" is that of an
\* exception which leaves the session usable.
RaisedIsFailed == result = "raised" => db.status = "failed"

=============================================================================
