------------------------- MODULE RunHarness_proofs -------------------------
(***************************************************************************)
(* Theorems about RunHarness, for every budget, task count and number of   *)
(* crashes.  The inductive invariant says where the record in the database *)
(* can be when the process is at a given point of the loops, and on what   *)
(* the loop's copy of it still agrees with it.                             *)
(***************************************************************************)
EXTENDS RunHarness, TLAPS

AtCollect == {"collect_top", "scouting", "clustering", "evaluating",
              "watchlist_update", "collect_gate"}
InWriting == {"writing", "reviewing", "late_review", "editing", "final_review",
              "writing_gate"}

\* The loop's copy may lack calls, never a round, a phase or a status.
Agree ==
  /\ run.phase = db.phase /\ run.status = db.status
  /\ run.collect_rounds  = db.collect_rounds
  /\ run.followup_rounds = db.followup_rounds
  /\ run.writing_rounds  = db.writing_rounds
  /\ run.review_rounds   = db.review_rounds

Budgeted ==
  /\ db.collect_rounds  <= MaxCollectRounds
  /\ db.followup_rounds <= MaxFollowupRounds
  /\ db.writing_rounds  <= MaxWritingRounds

\* Where the record is when the process is at pc.
Located ==
  /\ pc # "idle" => db.status = "running"
  /\ db.status = "running" => db.phase \in CollectPhases \union WritingPhases
  /\ pc \in AtCollect => db.phase \in CollectPhases
  /\ pc \in InWriting \union {"writing_top"} => db.phase \in WritingPhases
  /\ pc \in InWriting => db.writing_rounds > 0
  /\ pc \in AtCollect \ {"collect_top"} => db.collect_rounds > 0
  /\ db.phase \in WritingPhases \union {"followup"} => db.collect_rounds > 0

IInv == TypeOK /\ Agree /\ Budgeted /\ Located

-----------------------------------------------------------------------------
(* The gates *)

\* A collect gate returns one of its outcomes, and grants a follow-up only
\* while the follow-up budget lasts.
LEMMA CollectGateFacts ==
  ASSUME NEW e \in Evaluations, NEW collect \in Nat, NEW followup \in Nat
  PROVE  LET o == CollectOutcome(e, collect, followup)
         IN  /\ o \in CollectOutcomes
             /\ o = "followup_now" => followup < MaxFollowupRounds
  BY GateAssumption DEF CollectOutcome, CollectOutcomes, FailureOutcome

\* An exhausted collect loop advances, grants a follow-up or gives up.
LEMMA ExhaustedFacts ==
  ASSUME NEW o \in CollectOutcomes
  PROVE  /\ ForceExhausted(o) \in
              {"enter_writing", "followup_now", "needs_manual_review", "fail"}
         /\ ForceExhausted(o) = "followup_now" => o = "followup_now"
  BY DEF ForceExhausted, FailureOutcome, CollectOutcomes

\* A writing gate returns one of its outcomes, reopens collection only while a
\* collect round is left, and finalizes only a ready draft whose review passed
\* it or was overruled after the last revision.
LEMMA WritingGateFacts ==
  ASSUME NEW draft \in BOOLEAN, NEW ready \in BOOLEAN, NEW blocking \in BOOLEAN,
         NEW review \in ReviewDecisions \union {"none"},
         NEW collect \in Nat, NEW revisions \in Nat
  PROVE  LET o == WritingOutcome(draft, ready, review, blocking, collect, revisions)
         IN  /\ o \in WritingOutcomes
             /\ o = "reopen_collect" => collect < MaxCollectRounds
             /\ o = "finalize" =>
                  /\ draft /\ ready
                  /\ \/ review = "pass"
                     \/ review = "revise" /\ ~blocking
                        /\ revisions >= MaxWritingRevisions
  BY GateAssumption DEF WritingOutcome, WritingOutcomes, FailureOutcome, ReviewDecisions

-----------------------------------------------------------------------------
(* The records *)

\* Applying a collect decision keeps the record well formed, settles where it
\* is, and spends nothing but a follow-up round.
LEMMA ApplyCollectFacts ==
  ASSUME NEW r \in RunStates, NEW o \in CollectOutcomes, r.status = "running"
  PROVE  LET s == ApplyCollect(r, o)
         IN  /\ s \in RunStates
             /\ s.collect_rounds = r.collect_rounds
             /\ s.writing_rounds = r.writing_rounds
             /\ s.followup_rounds = IF o = "followup_now" THEN r.followup_rounds + 1
                                    ELSE r.followup_rounds
             /\ s.status = IF o = "needs_manual_review" THEN "paused"
                           ELSE IF o = "fail" THEN "failed" ELSE "running"
             /\ s.phase \in IF o = "enter_writing" THEN {"writing"} ELSE CollectPhases
  <1>1. CASE o = "enter_writing"
    BY <1>1 DEF ApplyCollect, RunStates, Phases, Statuses,
         CollectPhases, WritingPhases
  <1>2. CASE o = "followup_now"
    <2>1. r.followup_rounds + 1 \in Nat
      BY DEF RunStates
    <2>2. [r EXCEPT !.phase = "followup", !.followup_rounds = @ + 1] \in RunStates
      BY <2>1, Zenon DEF RunStates, Phases, CollectPhases, WritingPhases
    <2>3. ApplyCollect(r, o) = [r EXCEPT !.phase = "followup", !.followup_rounds = @ + 1]
      BY <1>2 DEF ApplyCollect
    <2> QED
      BY <1>2, <2>2, <2>3 DEF RunStates, CollectPhases, WritingPhases
  <1>3. CASE o = "recluster"
    BY <1>3 DEF ApplyCollect, RunStates, Phases, Statuses,
         CollectPhases, WritingPhases
  <1>4. CASE o = "continue_collecting"
    BY <1>4 DEF ApplyCollect, RunStates, Phases, Statuses,
         CollectPhases, WritingPhases
  <1>5. CASE o = "needs_manual_review"
    BY <1>5 DEF ApplyCollect, RunStates, Phases, Statuses,
         CollectPhases, WritingPhases
  <1>6. CASE o = "fail"
    BY <1>6 DEF ApplyCollect, RunStates, Phases, Statuses,
         CollectPhases, WritingPhases
  <1> QED
    BY <1>1, <1>2, <1>3, <1>4, <1>5, <1>6 DEF CollectOutcomes

\* Applying a writing decision likewise; it spends at most a revision.
LEMMA ApplyWritingFacts ==
  ASSUME NEW r \in RunStates, NEW o \in WritingOutcomes, r.status = "running",
         r.phase \in WritingPhases
  PROVE  LET s == ApplyWriting(r, o)
         IN  /\ s \in RunStates
             /\ s.collect_rounds = r.collect_rounds
             /\ s.writing_rounds = r.writing_rounds
             /\ s.followup_rounds = r.followup_rounds
             /\ s.review_rounds \in {r.review_rounds, r.review_rounds + 1}
             /\ o = "finalize" => s.review_rounds = r.review_rounds
             /\ s.status = CASE o = "finalize" -> "completed"
                             [] o = "needs_manual_review" -> "paused"
                             [] o = "fail" -> "failed"
                             [] OTHER -> "running"
             /\ s.phase \in CASE o = "finalize" -> {"finalized"}
                              [] o = "reopen_collect" -> {"followup"}
                              [] OTHER -> WritingPhases
  <1>1. CASE o = "finalize"
    BY <1>1 DEF ApplyWriting, RunStates, Phases, Statuses,
         CollectPhases, WritingPhases
  <1>2. CASE o = "review_draft"
    BY <1>2 DEF ApplyWriting, RunStates, Phases, Statuses,
         CollectPhases, WritingPhases
  <1>3. CASE o = "revise"
    <2>1. r.review_rounds + 1 \in Nat
      BY DEF RunStates
    <2>2. [r EXCEPT !.phase = "editing", !.review_rounds = @ + 1] \in RunStates
      BY <2>1, Zenon DEF RunStates, Phases, CollectPhases, WritingPhases
    <2>3. ApplyWriting(r, o) = [r EXCEPT !.phase = "editing", !.review_rounds = @ + 1]
      BY <1>3 DEF ApplyWriting
    <2> QED
      BY <1>3, <2>2, <2>3 DEF RunStates, CollectPhases, WritingPhases
  <1>4. CASE o = "reopen_collect"
    BY <1>4 DEF ApplyWriting, RunStates, Phases, Statuses,
         CollectPhases, WritingPhases
  <1>5. CASE o = "needs_manual_review"
    BY <1>5 DEF ApplyWriting, RunStates, Phases, Statuses,
         CollectPhases, WritingPhases
  <1>6. CASE o = "fail"
    BY <1>6 DEF ApplyWriting, RunStates, Phases, Statuses,
         CollectPhases, WritingPhases
  <1> QED
    BY <1>1, <1>2, <1>3, <1>4, <1>5, <1>6 DEF WritingOutcomes

\* What the tasks of a phase store has the right shape.
LEMMA OutcomesType ==
  ASSUME TypeOK, NEW o \in Outcomes
  PROVE  o[1] \in Evaluations /\ o[2] \in Papers
  <1>1. /\ Clustered(evals, MaxClusters) \subseteq Evaluations
        /\ Evaluated(evals, MaxClusters) \subseteq Evaluations
    <2>1. /\ evals.picked \in Nat /\ evals.recluster \in BOOLEAN
          /\ evals.queries \in BOOLEAN
      BY Zenon DEF TypeOK, Evaluations
    <2>2. /\ {evals.picked} \subseteq Nat /\ evals.picked..MaxClusters \subseteq Nat
          /\ 0..MaxClusters \subseteq Nat /\ 0..(MaxClusters - evals.picked) \subseteq Nat
          /\ {TRUE, evals.recluster} \subseteq BOOLEAN
          /\ {evals.recluster} \subseteq BOOLEAN /\ {evals.queries} \subseteq BOOLEAN
      BY <2>1, HarnessAssumption
    <2> QED
      BY <2>2, Zenon DEF Clustered, Evaluated, Evaluations
  <1>2. /\ Drafted(paper) \subseteq Papers
        /\ Reviewed(paper) \subseteq Papers
        /\ Edited(paper) \subseteq Papers
    <2>1. paper \in Papers
      BY DEF TypeOK
    <2>2. /\ 1..2 \subseteq 0..2 /\ {paper.reports, 2} \subseteq 0..2
          /\ {paper.reports} \ {0} \subseteq 0..2
      BY <2>1 DEF Papers
    <2> QED
      BY <2>1, <2>2 DEF Drafted, Edited, Reviewed, Papers
  <1> QED
    BY <1>1, <1>2 DEF Outcomes, TypeOK

-----------------------------------------------------------------------------
(* The inductive invariant *)

LEMMA InitIInv == Init => IInv
  <1> SUFFICES ASSUME Init PROVE IInv
    OBVIOUS
  <1>1. db \in RunStates /\ run \in RunStates
    BY DEF Init, RunStates, Phases, Statuses, CollectPhases
  <1>2. evals \in Evaluations
    BY Zenon DEF Init, Evaluations
  <1>3. paper \in Papers
    BY DEF Init, Papers
  <1>4. TypeOK
    BY <1>1, <1>2, <1>3, HarnessAssumption DEF Init, TypeOK, Results
  <1> QED
    BY <1>1, <1>4, GateAssumption, HarnessAssumption
    DEF Init, IInv, Agree, Budgeted, Located, AtCollect, InWriting, CollectPhases,
        WritingPhases

\* Starting and resuming.
LEMMA InvokeIInv == IInv /\ Invoke => IInv'
  <1> SUFFICES ASSUME IInv, Invoke PROVE IInv'
    OBVIOUS
  <1> USE DEF IInv, Agree, Budgeted, Located, AtCollect, InWriting
  <1>1. CASE Start
    <2>1. db' \in RunStates /\ run' = db'
      BY <1>1 DEF Start, Persist, TypeOK, RunStates, Phases, Statuses, CollectPhases
    <2>2. /\ db'.phase = "collect_planning" /\ db'.status = "running"
          /\ db'.collect_rounds  = db.collect_rounds
          /\ db'.followup_rounds = db.followup_rounds
          /\ db'.writing_rounds  = db.writing_rounds
      BY <1>1 DEF Start, Persist, TypeOK, RunStates
    <2>3. TypeOK'
      BY <1>1, <2>1 DEF Start, Enter, TypeOK, Deciding, Results
    <2> QED
      BY <1>1, <2>1, <2>2, <2>3 DEF Start, Enter, CollectPhases, WritingPhases
  <1>2. CASE Resume
    <2>1. TypeOK'
      BY <1>2 DEF Resume, Enter, TypeOK, Deciding, Results
    <2> QED
      BY <1>2, <2>1 DEF Resume, Enter
  <1>3. CASE ResumeInVain
    <2>1. TypeOK'
      BY <1>3 DEF ResumeInVain, Return, TypeOK, Results
    <2> QED
      BY <1>3, <2>1 DEF ResumeInVain, Return
  <1> QED
    BY <1>1, <1>2, <1>3 DEF Invoke

\* The exception handler changes nothing but the status.
LEMMA RaiseIInv ==
  ASSUME IInv, Raise, pc # "idle", evals' \in Evaluations, paper' \in Papers
  PROVE  IInv'
  <1>1. db' \in RunStates /\ run' = db'
    BY DEF IInv, Raise, Persist, TypeOK, RunStates, Statuses
  <1>2. /\ db'.phase = db.phase
        /\ db'.status \in {"running", "failed"}
        /\ db'.collect_rounds  = db.collect_rounds
        /\ db'.followup_rounds = db.followup_rounds
        /\ db'.writing_rounds  = db.writing_rounds
    BY DEF IInv, Located, Raise, Persist, TypeOK, RunStates
  <1>3. TypeOK'
    BY <1>1 DEF IInv, Raise, Return, TypeOK, Results
  <1> QED
    BY <1>1, <1>2, <1>3 DEF IInv, Agree, Budgeted, Located, Raise, Return, AtCollect, InWriting

\* Without the handler the record stays what it was.
LEMMA BrokenIInv ==
  ASSUME IInv, RaiseBroken, pc # "idle", evals' \in Evaluations, paper' \in Papers
  PROVE  IInv'
  <1>1. TypeOK'
    BY DEF IInv, RaiseBroken, Return, TypeOK, Results
  <1> QED
    BY <1>1 DEF IInv, Agree, Budgeted, Located, RaiseBroken, Return, AtCollect, InWriting

\* What a failed or interrupted phase may have stored keeps its type.
LEMMA StoreType ==
  ASSUME TypeOK, Store
  PROVE  evals' \in Evaluations /\ paper' \in Papers
  BY OutcomesType DEF Store

LEMMA CrashIInv == IInv /\ Crash => IInv'
  <1> SUFFICES ASSUME IInv, Crash PROVE IInv'
    OBVIOUS
  <1>1. TypeOK'
    BY StoreType, HarnessAssumption DEF IInv, Crash, Return, TypeOK, Results
  <1> QED
    BY <1>1 DEF IInv, Agree, Budgeted, Located, Crash, Return, AtCollect, InWriting

\* Entering writing keeps the gate's view well formed.
LEMMA FixSelectionType ==
  ASSUME TypeOK, NEW o, FixSelection(o)
  PROVE  evals' \in Evaluations /\ paper' \in Papers
  <1>1. CASE o = "enter_writing"
    <2>1. evals.picked + evals.covered \in Nat
      BY DEF TypeOK, Evaluations
    <2>2. evals' = [evals EXCEPT !.picked = @ + evals.covered, !.covered = 0]
      BY <1>1, Zenon DEF FixSelection, WithCoverage
    <2>3. evals' \in Evaluations
      BY <2>1, <2>2, Zenon DEF TypeOK, Evaluations
    <2>4. PICK ready \in BOOLEAN : paper' = [paper EXCEPT !.ready = ready]
      BY <1>1, Zenon DEF FixSelection
    <2> QED
      BY <2>3, <2>4, Zenon DEF TypeOK, Papers
  <1>2. CASE o # "enter_writing"
    BY <1>2 DEF FixSelection, TypeOK
  <1> QED
    BY <1>1, <1>2

\* Starting a sweep of the collect phases, with or without a round.
LEMMA SweepIInv == IInv /\ (TransitionFollowup \/ StartCollectRound) => IInv'
  <1> SUFFICES ASSUME IInv, TransitionFollowup \/ StartCollectRound PROVE IInv'
    OBVIOUS
  <1>1. CASE TransitionFollowup
    <2>1. db' \in RunStates /\ run' = db'
      BY <1>1 DEF IInv, TransitionFollowup, Persist, TypeOK, RunStates, Phases,
         Statuses, CollectPhases
    <2>2. /\ db'.phase = "collect_planning" /\ db'.status = "running"
          /\ db'.collect_rounds  = run.collect_rounds
          /\ db'.followup_rounds = run.followup_rounds
          /\ db'.writing_rounds  = run.writing_rounds
      BY <1>1 DEF IInv, TransitionFollowup, Persist, TypeOK, RunStates
    <2>3. TypeOK'
      BY <1>1, <2>1 DEF IInv, TransitionFollowup, Continue, TypeOK, Working
    <2> QED
      BY <1>1, <2>1, <2>2, <2>3
      DEF IInv, Agree, Budgeted, Located, TransitionFollowup, Continue, AtCollect,
          InWriting, CollectPhases, WritingPhases
  <1>2. CASE StartCollectRound
    <2>1. run.collect_rounds + 1 \in Nat
      BY DEF IInv, TypeOK, RunStates
    <2>2. db' = [run EXCEPT !.phase = "collect_planning", !.status = "running",
                            !.collect_rounds = @ + 1] /\ run' = db'
      BY <1>2 DEF StartCollectRound, Persist
    <2>3. db' \in RunStates /\ run' = db'
      BY <2>1, <2>2, Zenon DEF IInv, TypeOK, RunStates, Phases, Statuses, CollectPhases
    <2>4. /\ db'.phase = "collect_planning" /\ db'.status = "running"
          /\ db'.collect_rounds  = run.collect_rounds + 1
          /\ db'.followup_rounds = run.followup_rounds
          /\ db'.writing_rounds  = run.writing_rounds
      BY <2>2 DEF IInv, TypeOK, RunStates
    <2>5. run.collect_rounds + 1 <= MaxCollectRounds /\ run.collect_rounds + 1 > 0
      BY <1>2, GateAssumption DEF StartCollectRound, IInv, TypeOK, RunStates
    <2>6. TypeOK'
      BY <1>2, <2>3 DEF IInv, StartCollectRound, Continue, TypeOK, Working
    <2> QED
      BY <1>2, <2>3, <2>4, <2>5, <2>6
      DEF IInv, Agree, Budgeted, Located, StartCollectRound, Continue, AtCollect,
          InWriting, CollectPhases, WritingPhases
  <1> QED
    BY <1>1, <1>2

\* A collect gate and the application of its decision, forced or not.
LEMMA CollectGateIInv == IInv /\ (CollectExhausted \/ CollectGate) => IInv'
  <1> SUFFICES ASSUME IInv, CollectExhausted \/ CollectGate PROVE IInv'
    OBVIOUS
  <1> DEFINE o == CollectOutcome(evals, db.collect_rounds, db.followup_rounds)
  <1>1. /\ o \in CollectOutcomes
        /\ o = "followup_now" => db.followup_rounds < MaxFollowupRounds
    BY CollectGateFacts DEF IInv, TypeOK, RunStates
  <1>2. ASSUME NEW d \in CollectOutcomes, db.collect_rounds > 0,
               d = "followup_now" => db.followup_rounds < MaxFollowupRounds,
               Persist(ApplyCollect(db, d)), FixSelection(d), UNCHANGED crashes,
               pc' \in {"idle", "collect_top", "writing_top"}, result' \in Results,
               pc' = "idle" \/ db'.status = "running",
               pc' = "writing_top" <=> d = "enter_writing",
               pc \in AtCollect
        PROVE  IInv'
    <2>1. db.status = "running" /\ db \in RunStates
      BY <1>2 DEF IInv, Located, TypeOK, AtCollect
    <2>2. db' = ApplyCollect(db, d) /\ run' = db'
      BY <1>2 DEF Persist
    <2>3. /\ db' \in RunStates /\ run' = db'
          /\ db'.collect_rounds = db.collect_rounds
          /\ db'.writing_rounds = db.writing_rounds
          /\ db'.followup_rounds = IF d = "followup_now" THEN db.followup_rounds + 1
                                   ELSE db.followup_rounds
          /\ db'.phase \in IF d = "enter_writing" THEN {"writing"} ELSE CollectPhases
      BY <2>1, <2>2, ApplyCollectFacts
    <2>4. db'.followup_rounds <= MaxFollowupRounds
      BY <1>2, <2>3, GateAssumption DEF IInv, Budgeted, TypeOK, RunStates
    <2>5. TypeOK'
      BY <1>2, <2>3, FixSelectionType DEF IInv, TypeOK, Deciding
    <2> QED
      BY <1>2, <2>3, <2>4, <2>5
      DEF IInv, Agree, Budgeted, Located, AtCollect, InWriting, CollectPhases,
          WritingPhases
  <1>3. db.status = "running" /\ db \in RunStates
    BY DEF IInv, Located, TypeOK, CollectExhausted, CollectGate
  <1>4. CASE CollectExhausted
    <2> DEFINE d == ForceExhausted(o)
    <2>1. /\ d \in CollectOutcomes
          /\ d = "followup_now" => db.followup_rounds < MaxFollowupRounds
      BY <1>1, ExhaustedFacts DEF CollectOutcomes
    <2>2. db.collect_rounds > 0
      BY <1>4, GateAssumption DEF CollectExhausted, IInv, Agree, TypeOK, RunStates
    <2>3. Persist(ApplyCollect(db, d)) /\ FixSelection(d) /\ UNCHANGED crashes
      BY <1>4 DEF CollectExhausted
    <2>4. /\ d = "enter_writing" => pc' = "writing_top" /\ UNCHANGED result
          /\ d # "enter_writing" => pc' = "idle" /\ result' = "collect"
      BY <1>4 DEF CollectExhausted, Continue, Return
    <2>5. pc' = "idle" \/ db'.status = "running"
      BY <1>3, <2>1, <2>3, <2>4, ApplyCollectFacts DEF Persist
    <2>6. pc \in AtCollect
      BY <1>4 DEF CollectExhausted, AtCollect
    <2>7. result' \in Results
      BY <2>4 DEF IInv, TypeOK, Results
    <2> HIDE DEF d, o
    <2> QED
      BY <1>2, <2>1, <2>2, <2>3, <2>4, <2>5, <2>6, <2>7
  <1>5. CASE CollectGate
    <2>1. db.collect_rounds > 0 /\ pc \in AtCollect
      BY <1>5 DEF CollectGate, IInv, Located, AtCollect
    <2>2. Persist(ApplyCollect(db, o)) /\ FixSelection(o) /\ UNCHANGED crashes
      BY <1>5 DEF CollectGate
    <2>3. /\ o = "enter_writing" => pc' = "writing_top" /\ UNCHANGED result
          /\ o \in {"needs_manual_review", "fail"} =>
               pc' = "idle" /\ result' = "collect"
          /\ o \notin {"enter_writing", "needs_manual_review", "fail"} =>
               pc' = "collect_top" /\ UNCHANGED result
      BY <1>5 DEF CollectGate, Continue, Return
    <2>4. pc' = "idle" \/ db'.status = "running"
      BY <1>1, <1>3, <2>2, <2>3, ApplyCollectFacts DEF Persist
    <2>5. result' \in Results
      BY <2>3 DEF IInv, TypeOK, Results
    <2> HIDE DEF o
    <2> QED
      BY <1>1, <1>2, <2>1, <2>2, <2>3, <2>4, <2>5
  <1> QED
    BY <1>4, <1>5

\* The calls a phase books are numbers.
LEMMA BookedType ==
  ASSUME pc \in Working
  PROVE  Booked \subseteq Nat /\ ToolCalls \subseteq Nat
  <1> DEFINE T == {"scouting", "clustering", "evaluating", "watchlist_update",
                   "writing", "reviewing", "editing", "final_review"}
  <1>1. \A t \in T : Tasks[t] \in Nat
    BY HarnessAssumption
  <1>2. pc \in T \ {"scouting"} \/ pc \in {"scouting", "late_review"}
    BY DEF Working
  <1>3. ScoutSuccesses \subseteq Nat /\ ToolCalls \subseteq Nat
    BY <1>1, HarnessAssumption
  <1> HIDE DEF T
  <1>4. "reviewing" \in T
    BY DEF T
  <1> QED
    BY <1>1, <1>2, <1>3, <1>4 DEF Booked

\* Where the loops go after a phase stays in the same loop.
LEMMA AfterFacts ==
  ASSUME pc \in Working
  PROVE  /\ After \in Working \union Deciding
         /\ pc \in AtCollect => After \in AtCollect \ {"collect_top"}
         /\ pc \in InWriting => After \in InWriting \union {"writing_top"}
  BY DEF After, Working, Deciding, AtCollect, InWriting

\* A phase adds calls to the record and touches nothing else, except that it
\* may move from EDITING to FINAL_REVIEW.
LEMMA PhaseTasksFacts ==
  ASSUME IInv, PhaseTasks
  PROVE  /\ TypeOK' /\ Agree'
         /\ db'.status = db.status
         /\ db'.phase \in {db.phase, "final_review"}
         /\ pc # "editing" => db'.phase = db.phase
         /\ db'.collect_rounds  = db.collect_rounds
         /\ db'.followup_rounds = db.followup_rounds
         /\ db'.writing_rounds  = db.writing_rounds
  <1>1. PICK calls \in Booked, tools \in ToolCalls :
          LET counted == [db EXCEPT !.model_calls = @ + calls, !.tool_calls = @ + tools]
          IN  IF pc = "editing" /\ HasFinalReview /\ Valid(counted)
              THEN Persist([counted EXCEPT !.phase = "final_review"])
              ELSE db' = counted /\ UNCHANGED run
    BY DEF PhaseTasks
  <1> DEFINE counted == [db EXCEPT !.model_calls = @ + calls, !.tool_calls = @ + tools]
             moved == [counted EXCEPT !.phase = "final_review"]
  <1>2. db \in RunStates /\ run \in RunStates
    BY DEF IInv, TypeOK
  <1>3. db.model_calls + calls \in Nat /\ db.tool_calls + tools \in Nat
    BY <1>2, BookedType DEF RunStates, PhaseTasks
  <1>4. counted \in RunStates
    BY <1>2, <1>3, Zenon DEF RunStates
  <1>5. /\ counted.phase = db.phase /\ counted.status = db.status
        /\ counted.collect_rounds  = db.collect_rounds
        /\ counted.followup_rounds = db.followup_rounds
        /\ counted.writing_rounds  = db.writing_rounds
        /\ counted.review_rounds   = db.review_rounds
    BY <1>2 DEF RunStates
  <1>6. moved \in RunStates
    BY <1>4, Zenon DEF RunStates, Phases, WritingPhases
  <1>7. /\ moved.phase = "final_review" /\ moved.status = counted.status
        /\ moved.collect_rounds  = counted.collect_rounds
        /\ moved.followup_rounds = counted.followup_rounds
        /\ moved.writing_rounds  = counted.writing_rounds
        /\ moved.review_rounds   = counted.review_rounds
    BY <1>4 DEF RunStates
  <1>8. \/ db' = counted /\ run' = run
        \/ pc = "editing" /\ db' = moved /\ run' = moved
    BY <1>1 DEF Persist
  <1> HIDE DEF counted, moved
  <1>9. db' \in RunStates /\ run' \in RunStates
    BY <1>2, <1>4, <1>6, <1>8
  <1>10. evals' \in Evaluations /\ paper' \in Papers
    BY StoreType DEF IInv, PhaseTasks
  <1>11. TypeOK'
    BY <1>9, <1>10, AfterFacts DEF IInv, TypeOK, PhaseTasks, Continue
  <1>12. Agree'
    BY <1>5, <1>7, <1>8 DEF IInv, Agree
  <1> QED
    BY <1>5, <1>7, <1>8, <1>11, <1>12

LEMMA PhaseTasksIInv == IInv /\ PhaseTasks => IInv'
  <1> SUFFICES ASSUME IInv, PhaseTasks PROVE IInv'
    OBVIOUS
  <1>1. pc \in Working /\ pc' = After
    BY DEF PhaseTasks, Continue
  <1>2. /\ pc \in AtCollect \union InWriting
        /\ pc = "editing" => pc \in InWriting /\ pc \notin AtCollect
        /\ pc # "collect_top"
    BY <1>1 DEF Working, AtCollect, InWriting
  <1>3. /\ pc \in AtCollect => pc' \in AtCollect \ {"collect_top"}
        /\ pc \in InWriting => pc' \in InWriting \union {"writing_top"}
        /\ AtCollect \intersect (InWriting \union {"writing_top"}) = {}
    BY <1>1, AfterFacts DEF AtCollect, InWriting
  <1>4. "final_review" \in WritingPhases
    BY DEF WritingPhases
  <1>5. pc # "idle"
    BY <1>1 DEF Working
  <1>6. db.status = "running" /\ db'.status = "running"
    BY <1>5, PhaseTasksFacts DEF IInv, Located
  <1>7. Located'
    BY <1>2, <1>3, <1>4, <1>6, PhaseTasksFacts DEF IInv, Located
  <1> QED
    BY <1>7, PhaseTasksFacts DEF IInv, Budgeted

\* Exceptions raised by the tasks, and by loading a record over its budget.
LEMMA RaisingIInv == IInv /\ (PhaseRaises \/ Unloadable) => IInv'
  <1> SUFFICES ASSUME IInv, PhaseRaises \/ Unloadable PROVE IInv'
    OBVIOUS
  <1>1. (Raise \/ RaiseBroken) /\ pc # "idle"
    BY DEF PhaseRaises, Unloadable, Working, Deciding
  <1>2. evals' \in Evaluations /\ paper' \in Papers
    BY StoreType DEF IInv, TypeOK, PhaseRaises, Unloadable
  <1> QED
    BY <1>1, <1>2, RaiseIInv, BrokenIInv

LEMMA StartWritingRoundIInv == IInv /\ StartWritingRound => IInv'
  <1> SUFFICES ASSUME IInv, StartWritingRound PROVE IInv'
    OBVIOUS
  <1>1. run.writing_rounds + 1 \in Nat
    BY DEF IInv, TypeOK, RunStates
  <1>2. db' = [run EXCEPT !.phase = "writing", !.status = "running",
                          !.writing_rounds = @ + 1] /\ run' = db'
    BY DEF StartWritingRound, Persist
  <1>3. db' \in RunStates /\ run' = db'
    BY <1>1, <1>2, Zenon DEF IInv, TypeOK, RunStates, Phases, Statuses, WritingPhases
  <1>4. /\ db'.phase = "writing" /\ db'.status = "running"
        /\ db'.collect_rounds  = run.collect_rounds
        /\ db'.followup_rounds = run.followup_rounds
        /\ db'.writing_rounds  = run.writing_rounds + 1
    BY <1>2 DEF IInv, TypeOK, RunStates
  <1>5. run.writing_rounds + 1 <= MaxWritingRounds /\ run.writing_rounds + 1 > 0
    BY HarnessAssumption DEF StartWritingRound, IInv, TypeOK, RunStates
  <1>6. pc' \in {"writing", "reviewing", "writing_gate"} /\ UNCHANGED result
    BY DEF StartWritingRound, Continue
  <1>7. TypeOK'
    BY <1>3, <1>6 DEF IInv, StartWritingRound, TypeOK, Working, Deciding
  <1>8. db.collect_rounds > 0 /\ run.collect_rounds = db.collect_rounds
        /\ run.followup_rounds = db.followup_rounds
    BY DEF StartWritingRound, IInv, Located, Agree
  <1> QED
    BY <1>3, <1>4, <1>5, <1>6, <1>7, <1>8
    DEF IInv, Agree, Budgeted, Located, AtCollect, InWriting, CollectPhases, WritingPhases

\* A writing decision and its application, by the gate or for lack of a round.
LEMMA WritingGateIInv == IInv /\ (WritingExhausted \/ WritingGate) => IInv'
  <1> SUFFICES ASSUME IInv, WritingExhausted \/ WritingGate PROVE IInv'
    OBVIOUS
  <1> DEFINE o == WritingOutcome(paper.reports > 0, paper.ready, paper.review,
                       paper.blocking, db.collect_rounds, db.review_rounds)
             d == IF pc = "writing_gate" THEN o ELSE FailureOutcome
  <1>1. /\ pc \in {"writing_top", "writing_gate"}
        /\ db.status = "running" /\ db.phase \in WritingPhases /\ db \in RunStates
        /\ db.collect_rounds > 0
        /\ pc = "writing_gate" => db.writing_rounds > 0
    BY DEF WritingExhausted, WritingGate, IInv, Located, TypeOK, InWriting
  <1>2. o \in WritingOutcomes
    <2>1. /\ paper.ready \in BOOLEAN /\ paper.blocking \in BOOLEAN
          /\ paper.review \in ReviewDecisions \union {"none"}
      BY Zenon DEF IInv, TypeOK, Papers
    <2>2. (paper.reports > 0) \in BOOLEAN
      BY DEF IInv, TypeOK, Papers
    <2>3. db.collect_rounds \in Nat /\ db.review_rounds \in Nat
      BY <1>1 DEF RunStates
    <2> QED
      BY <2>1, <2>2, <2>3, WritingGateFacts
  <1>3. d \in WritingOutcomes
    BY <1>2 DEF FailureOutcome, WritingOutcomes
  <1>4. Persist(ApplyWriting(db, d)) /\ UNCHANGED <<evals, paper, crashes>>
    BY DEF WritingExhausted, WritingGate
  <1>5. /\ pc' \in {"idle", "editing", "writing_top", "late_review"}
        /\ result' \in Results
        /\ pc' \in {"editing", "writing_top"} => d = "revise"
        /\ pc' = "late_review" => d = "review_draft"
        /\ pc' # "idle" => pc = "writing_gate"
    BY DEF WritingExhausted, WritingGate, Continue, Return, IInv, TypeOK, Results
  <1> HIDE DEF d, o
  <1>6. /\ db' \in RunStates /\ run' = db'
        /\ db'.collect_rounds = db.collect_rounds
        /\ db'.writing_rounds = db.writing_rounds
        /\ db'.followup_rounds = db.followup_rounds
    BY <1>1, <1>3, <1>4, ApplyWritingFacts DEF Persist
  <1>7. /\ d \in {"revise", "review_draft"} =>
             db'.status = "running" /\ db'.phase \in WritingPhases
        /\ db'.status = "running" => db'.phase \in CollectPhases \union WritingPhases
    BY <1>1, <1>3, <1>4, ApplyWritingFacts
    DEF Persist, WritingOutcomes, CollectPhases
  <1>8. TypeOK'
    BY <1>4, <1>5, <1>6 DEF IInv, TypeOK, Working, Deciding
  <1> QED
    BY <1>1, <1>4, <1>5, <1>6, <1>7, <1>8
    DEF IInv, Agree, Budgeted, Located, AtCollect, InWriting

\* The invariant is inductive.
LEMMA StepIInv == IInv /\ [Next]_vars => IInv'
  <1> SUFFICES ASSUME IInv, [Next]_vars PROVE IInv'
    OBVIOUS
  <1>1. CASE Invoke
    BY <1>1, InvokeIInv
  <1>2. CASE Step
    BY <1>2, SweepIInv, CollectGateIInv, PhaseTasksIInv, RaisingIInv,
       StartWritingRoundIInv, WritingGateIInv DEF Step
  <1>3. CASE Crash
    BY <1>3, CrashIInv
  <1>4. CASE UNCHANGED vars
    BY <1>4 DEF vars, IInv, TypeOK, Agree, Budgeted, Located
  <1> QED
    BY <1>1, <1>2, <1>3, <1>4 DEF Next

THEOREM Invariance == Spec => []IInv
  BY InitIInv, StepIInv, PTL DEF Spec

-----------------------------------------------------------------------------
(* The theorems *)

\* Every state of the harness is well formed.
THEOREM TypeCorrect == Spec => []TypeOK
  BY Invariance, PTL DEF IInv

\* No order of gates, failures, crashes and resumes spends a round that the
\* budgets do not have.
THEOREM RoundsBounded == Spec => []RoundsWithinBudget
  <1>1. IInv => RoundsWithinBudget
    BY DEF IInv, Agree, Budgeted, RoundsWithinBudget
  <1> QED
    BY <1>1, Invariance, PTL

\* A run that is completed, paused or failed is never written again.
THEOREM Settled == Spec => SettledStays
  <1> DEFINE S == {"completed", "paused", "failed"}
  <1>1. IInv /\ [Next]_vars => [db.status \in S => db' = db]_vars
    <2> SUFFICES ASSUME IInv, Next, db.status \in S PROVE db' = db
      BY DEF vars
    <2>1. pc = "idle"
      BY DEF IInv, Located
    <2>2. ~Step /\ ~Crash
      BY <2>1 DEF Step, Crash, TransitionFollowup, StartCollectRound, CollectExhausted,
         CollectGate, PhaseTasks, PhaseRaises, Unloadable, StartWritingRound,
         WritingExhausted, WritingGate, Working, Deciding
    <2>3. Invoke
      BY <2>2 DEF Next
    <2> QED
      BY <2>3 DEF Invoke, Start, Resume, ResumeInVain
  <1> QED
    BY <1>1, Invariance, PTL DEF Spec, SettledStays

\* Nothing but the writing gate completes a run.
LEMMA OnlyGateCompletes ==
  ASSUME IInv, [Next]_vars, db.status # "completed", db'.status = "completed"
  PROVE  WritingGate
  <1>1. CASE Invoke \/ Crash \/ UNCHANGED vars
    BY <1>1 DEF Invoke, Start, Resume, ResumeInVain, Crash, vars, Persist,
       IInv, TypeOK, RunStates
  <1>2. CASE TransitionFollowup \/ StartCollectRound \/ StartWritingRound
    BY <1>2 DEF TransitionFollowup, StartCollectRound, StartWritingRound, Persist,
       IInv, TypeOK, RunStates
  <1>3. CASE CollectExhausted \/ CollectGate
    <2> DEFINE o == CollectOutcome(evals, db.collect_rounds, db.followup_rounds)
               d == IF CollectGate THEN o ELSE ForceExhausted(o)
    <2>1. o \in CollectOutcomes
      BY CollectGateFacts DEF IInv, TypeOK, RunStates
    <2>2. d \in CollectOutcomes
      BY <2>1, ExhaustedFacts DEF CollectOutcomes
    <2>3. db' = ApplyCollect(db, d)
      BY <1>3 DEF CollectExhausted, CollectGate, Persist
    <2>4. db \in RunStates /\ db.status = "running"
      BY <1>3 DEF CollectExhausted, CollectGate, IInv, TypeOK, Located
    <2> HIDE DEF d
    <2> QED
      BY <2>2, <2>3, <2>4, ApplyCollectFacts
  <1>4. CASE PhaseTasks
    BY <1>4, PhaseTasksFacts
  <1>5. CASE PhaseRaises \/ Unloadable
    BY <1>5 DEF PhaseRaises, Unloadable, Raise, RaiseBroken, Persist, IInv, TypeOK,
       RunStates
  <1>6. CASE WritingExhausted
    <2>1. db \in RunStates /\ db.status = "running"
      BY <1>6 DEF WritingExhausted, IInv, TypeOK, Located
    <2>2. db'.status \in {"paused", "failed"}
      BY <1>6, <2>1 DEF WritingExhausted, Persist, ApplyWriting, FailureOutcome, RunStates
    <2> QED
      BY <2>2
  <1> QED
    BY <1>1, <1>2, <1>3, <1>4, <1>5, <1>6 DEF Next, Step

\* A run is completed by a writing gate that saw a ready report and a review
\* which passed it, or was overruled after the last revision; what the gate saw
\* never changes afterwards.
THEOREM CompletedWasReviewed == Spec => []CompletedIsReviewed
  <1>1. Init => CompletedIsReviewed
    BY DEF Init, CompletedIsReviewed
  <1>2. IInv /\ CompletedIsReviewed /\ [Next]_vars => CompletedIsReviewed'
    <2> SUFFICES ASSUME IInv, CompletedIsReviewed, [Next]_vars, db'.status = "completed"
                 PROVE  CompletedIsReviewed'
      BY DEF CompletedIsReviewed
    <2>1. CASE db.status = "completed"
      <3>1. pc = "idle"
        BY <2>1 DEF IInv, Located
      <3>2. UNCHANGED <<db, paper>>
        BY <2>1, <3>1 DEF Next, Invoke, Start, Resume, ResumeInVain, Step, Crash,
           TransitionFollowup, StartCollectRound, CollectExhausted, CollectGate,
           PhaseTasks, PhaseRaises, Unloadable, StartWritingRound,
           WritingExhausted, WritingGate, Working, Deciding, vars
      <3> QED
        BY <3>2 DEF CompletedIsReviewed
    <2>2. CASE db.status # "completed"
      <3>1. WritingGate
        BY <2>2, OnlyGateCompletes
      <3> DEFINE draft == paper.reports > 0
                 o == WritingOutcome(draft, paper.ready, paper.review,
                         paper.blocking, db.collect_rounds, db.review_rounds)
      <3>2. /\ paper.ready \in BOOLEAN /\ paper.blocking \in BOOLEAN
            /\ paper.review \in ReviewDecisions \union {"none"}
        BY Zenon DEF IInv, TypeOK, Papers
      <3>3. draft \in BOOLEAN
        BY DEF IInv, TypeOK, Papers
      <3>4. /\ db.collect_rounds \in Nat /\ db.review_rounds \in Nat
            /\ db.writing_rounds > 0 /\ db \in RunStates /\ db.status = "running"
            /\ db.phase \in WritingPhases
        BY <3>1 DEF IInv, TypeOK, RunStates, WritingGate, Located, InWriting
      <3>5. db' = ApplyWriting(db, o) /\ paper' = paper
        BY <3>1 DEF WritingGate, Persist
      <3>6. /\ o \in WritingOutcomes
            /\ o = "finalize" =>
                 /\ draft /\ paper.ready
                 /\ \/ paper.review = "pass"
                    \/ /\ paper.review = "revise" /\ ~paper.blocking
                       /\ db.review_rounds >= MaxWritingRevisions
        <4> HIDE DEF draft
        <4> QED
          BY <3>2, <3>3, <3>4, WritingGateFacts
      <3> HIDE DEF o
      <3>7. o = "finalize"
        BY <3>4, <3>5, <3>6, ApplyWritingFacts, <2>2 DEF WritingOutcomes
      <3>8. db' = [db EXCEPT !.phase = "finalized", !.status = "completed"]
        BY <3>5, <3>7 DEF ApplyWriting
      <3>9. /\ db'.phase = "finalized" /\ db'.writing_rounds = db.writing_rounds
            /\ db'.review_rounds = db.review_rounds
        BY <3>4, <3>8 DEF RunStates
      <3> QED
        BY <3>4, <3>5, <3>6, <3>7, <3>9 DEF CompletedIsReviewed
    <2> QED
      BY <2>1, <2>2
  <1> QED
    BY <1>1, <1>2, Invariance, PTL DEF Spec

-----------------------------------------------------------------------------
(* Exceptions *)

Overdrawn == db.model_calls > MaxModelCalls \/ db.tool_calls > MaxToolCalls

\* How an exception leaves the run that it ended.
Marked ==
  /\ result = "raised" => pc = "idle" /\ (db.status = "failed" \/ Overdrawn)
  /\ result = "broken" => /\ pc = "idle" /\ db.status = "running"
                          /\ Valid(db) \/ Overdrawn

\* A record that a loop holds is over a budget of calls if it cannot be loaded.
LEMMA UnloadableIsOverdrawn ==
  ASSUME IInv, pc # "idle", ~Valid(db)
  PROVE  Overdrawn
  BY HarnessAssumption DEF IInv, Budgeted, Located, Valid, Overdrawn, TypeOK, RunStates

\* A run whose invocation raised is marked failed; or its record is over a budget
\* of calls; or the session was broken, and the run can be resumed as it was
\* committed last.
THEOREM RaisedIsMarked == Spec => []UnmarkedHasCause
  <1>1. Init => Marked
    BY DEF Init, Marked
  <1>2. IInv /\ Marked /\ [Next]_vars => Marked'
    <2> SUFFICES ASSUME IInv, Marked, [Next]_vars, result' \in {"raised", "broken"}
                 PROVE  Marked'
      BY DEF Marked
    <2>1. pc # "idle" => Valid(db) \/ Overdrawn
      BY UnloadableIsOverdrawn
    <2>2. CASE pc # "idle" /\ Raise
      <3>1. /\ pc' = "idle" /\ result' = "raised"
            /\ db' = IF Valid(db) THEN [db EXCEPT !.status = "failed"] ELSE db
        BY <2>2 DEF Raise, Return, Persist
      <3>2. CASE Valid(db)
        BY <3>1, <3>2 DEF IInv, TypeOK, RunStates, Marked
      <3>3. CASE ~Valid(db)
        BY <2>1, <2>2, <3>1, <3>3 DEF Overdrawn, Marked
      <3> QED
        BY <3>2, <3>3
    <2>3. CASE pc # "idle" /\ (RaiseBroken \/ Crash)
      <3>1. pc' = "idle" /\ result' # "raised" /\ db' = db /\ db.status = "running"
        BY <2>3 DEF RaiseBroken, Crash, Return, IInv, Located
      <3> QED
        BY <2>1, <2>3, <3>1 DEF Marked, Overdrawn, Valid
    <2>4. CASE UNCHANGED vars
      BY <2>4 DEF vars, Marked, Overdrawn, Valid
    <2>5. ~(Invoke \/ TransitionFollowup \/ StartCollectRound \/ PhaseTasks
             \/ StartWritingRound \/ CollectExhausted \/ CollectGate
             \/ WritingExhausted \/ WritingGate)
      <3>1. ~Invoke
        BY DEF Invoke, Start, Resume, ResumeInVain, Enter, Return
      <3>2. ASSUME pc # "idle" PROVE result \notin {"raised", "broken"}
        BY <3>2 DEF Marked
      <3> QED
        BY <3>1, <3>2 DEF TransitionFollowup, StartCollectRound, PhaseTasks,
           StartWritingRound, CollectExhausted, CollectGate, WritingExhausted,
           WritingGate, Continue, Return, Working
    <2>6. PhaseRaises \/ Unloadable => pc # "idle" /\ (Raise \/ RaiseBroken)
      BY DEF PhaseRaises, Unloadable, Working, Deciding
    <2>7. Crash => pc # "idle"
      BY DEF Crash
    <2> QED
      BY <2>2, <2>3, <2>4, <2>5, <2>6, <2>7 DEF Next, Step
  <1>3. Marked => UnmarkedHasCause
    BY DEF Marked, Overdrawn, UnmarkedHasCause
  <1> QED
    BY <1>1, <1>2, <1>3, Invariance, PTL DEF Spec

-----------------------------------------------------------------------------
(* Returning *)

\* An invocation that returns without an exception has settled the run, or leaves
\* it in FOLLOWUP with a sweep granted, by the follow-up budget after the last
\* collect round or by a collect round that is left.
THEOREM ReturnedIsSettled == Spec => []ReturnsSettled
  <1>1. Init => ReturnsSettled
    BY DEF Init, ReturnsSettled
  <1>2. IInv /\ ReturnsSettled /\ [Next]_vars => ReturnsSettled'
    <2> SUFFICES ASSUME IInv, ReturnsSettled, [Next]_vars, pc' = "idle",
                        result' \in {"collect", "writing"}, db'.status = "running"
                 PROVE  ReturnsSettled'
      BY DEF ReturnsSettled
    <2>1. CASE UNCHANGED vars
      BY <2>1 DEF vars, ReturnsSettled
    <2>2. CASE CollectExhausted
      <3> DEFINE o == CollectOutcome(evals, db.collect_rounds, db.followup_rounds)
                 d == ForceExhausted(o)
      <3>1. o \in CollectOutcomes
        BY CollectGateFacts DEF IInv, TypeOK, RunStates
      <3>2. d \in {"enter_writing", "followup_now", "needs_manual_review", "fail"}
        BY <3>1, ExhaustedFacts
      <3>3. db' = ApplyCollect(db, d) /\ d # "enter_writing" /\ result' = "collect"
        BY <2>2 DEF CollectExhausted, Persist, Continue, Return
      <3>4. db \in RunStates /\ db.status = "running"
        BY <2>2 DEF CollectExhausted, IInv, TypeOK, Located
      <3>5. db.collect_rounds = MaxCollectRounds
        BY <2>2, <3>4, GateAssumption
        DEF CollectExhausted, IInv, Agree, Budgeted, RunStates
      <3> HIDE DEF d, o
      <3>6. d = "followup_now"
        BY <3>2, <3>3, <3>4, ApplyCollectFacts DEF CollectOutcomes
      <3>7. db' = [db EXCEPT !.phase = "followup", !.followup_rounds = @ + 1]
        BY <3>3, <3>6 DEF ApplyCollect
      <3>8. /\ db'.phase = "followup" /\ db'.collect_rounds = db.collect_rounds
            /\ db'.followup_rounds > 0
        BY <3>4, <3>7 DEF RunStates
      <3> QED
        BY <3>3, <3>5, <3>8 DEF ReturnsSettled
    <2>3. CASE CollectGate
      <3> DEFINE o == CollectOutcome(evals, db.collect_rounds, db.followup_rounds)
      <3>1. o \in CollectOutcomes
        BY CollectGateFacts DEF IInv, TypeOK, RunStates
      <3>2. db' = ApplyCollect(db, o) /\ o \in {"needs_manual_review", "fail"}
        BY <2>3 DEF CollectGate, Persist, Continue
      <3>3. db \in RunStates /\ db.status = "running"
        BY <2>3 DEF CollectGate, IInv, TypeOK, Located
      <3> HIDE DEF o
      <3> QED
        BY <3>1, <3>2, <3>3, ApplyCollectFacts
    <2>4. CASE WritingExhausted \/ WritingGate
      <3> DEFINE draft == paper.reports > 0
                 o == WritingOutcome(draft, paper.ready, paper.review,
                           paper.blocking, db.collect_rounds, db.review_rounds)
                 d == IF WritingGate THEN o ELSE FailureOutcome
      <3>1. db \in RunStates /\ db.status = "running" /\ db.phase \in WritingPhases
        BY <2>4 DEF WritingExhausted, WritingGate, IInv, TypeOK, Located, InWriting
      <3>2. /\ paper.ready \in BOOLEAN /\ paper.blocking \in BOOLEAN
            /\ paper.review \in ReviewDecisions \union {"none"}
        BY Zenon DEF IInv, TypeOK, Papers
      <3>3. draft \in BOOLEAN
        BY DEF IInv, TypeOK, Papers
      <3>4. db.collect_rounds \in Nat /\ db.review_rounds \in Nat
        BY <3>1 DEF RunStates
      <3>5. /\ o \in WritingOutcomes
            /\ o = "reopen_collect" => db.collect_rounds < MaxCollectRounds
        <4> HIDE DEF draft
        <4> QED
          BY <3>2, <3>3, <3>4, WritingGateFacts
      <3>6. /\ d \in WritingOutcomes
            /\ d = "reopen_collect" => db.collect_rounds < MaxCollectRounds
        BY <3>5 DEF FailureOutcome, WritingOutcomes
      <3>7. db' = ApplyWriting(db, d) /\ d \notin {"revise", "review_draft"}
            /\ result' = "writing"
        BY <2>4 DEF WritingExhausted, WritingGate, Persist, Continue, Return,
           FailureOutcome
      <3> HIDE DEF d, o
      <3>8. d = "reopen_collect"
        BY <3>1, <3>6, <3>7, ApplyWritingFacts DEF WritingOutcomes
      <3> QED
        BY <3>1, <3>6, <3>7, <3>8, ApplyWritingFacts DEF ReturnsSettled
    <2>5. ~(Invoke \/ Crash \/ TransitionFollowup \/ StartCollectRound
             \/ PhaseTasks \/ PhaseRaises \/ Unloadable \/ StartWritingRound)
      BY DEF Invoke, Start, Resume, ResumeInVain, Enter, Crash, TransitionFollowup,
         StartCollectRound, PhaseTasks, PhaseRaises, Unloadable, Raise, RaiseBroken,
         StartWritingRound, Continue, Return, After, Working
    <2> QED
      BY <2>1, <2>2, <2>3, <2>4, <2>5 DEF Next, Step
  <1> QED
    BY <1>1, <1>2, Invariance, PTL DEF Spec

-----------------------------------------------------------------------------
(* Reviews *)

\* Where a review is made, the last one was made in the same round, unless none
\* was: after the first review only EDITING leads back to a review, and a gate
\* enters it for a review that asks for a revision.
Judged ==
  /\ paper.review # "none" => paper.reports > 0
  /\ pc \in {"writing", "reviewing"} => paper.review = "none"
  /\ pc \in {"editing", "late_review", "final_review"} => paper.review # "reopen_collect"

\* Only the tasks of the reviewing phases make a review, of a report that exists,
\* and nothing removes a report.
LEMMA StoreReviews ==
  ASSUME TypeOK, NEW o \in Outcomes
  PROVE  /\ \/ o[2].review = paper.review
            \/ /\ pc \in {"reviewing", "late_review", "final_review"}
               /\ paper.reports > 0
         /\ paper.reports > 0 => o[2].reports > 0
  <1>1. paper \in Papers /\ paper.reports \in 0..2
    BY DEF TypeOK, Papers
  <1>2. ASSUME NEW p \in Drafted(paper)
        PROVE  p.review = paper.review /\ (paper.reports > 0 => p.reports > 0)
    BY <1>1 DEF Drafted
  <1>3. ASSUME NEW p \in Edited(paper)
        PROVE  p.review = paper.review /\ (paper.reports > 0 => p.reports > 0)
    <2>1. p = paper \/ (p.review = paper.review /\ p.reports \in {paper.reports, 2})
      BY Zenon DEF Edited
    <2> QED
      BY <2>1
  <1>4. ASSUME NEW p \in Reviewed(paper)
        PROVE  /\ p.review = paper.review \/ paper.reports > 0
               /\ p.reports = paper.reports
    BY <1>1 DEF Reviewed, Papers
  <1>5. CASE pc = "writing"
    BY <1>2, <1>5 DEF Outcomes
  <1>6. CASE pc = "editing"
    BY <1>3, <1>6 DEF Outcomes
  <1>7. CASE pc \in {"reviewing", "late_review", "final_review"}
    BY <1>4, <1>7 DEF Outcomes
  <1>8. CASE pc \notin {"writing", "reviewing", "late_review", "final_review", "editing"}
    BY <1>8 DEF Outcomes
  <1> QED
    BY <1>5, <1>6, <1>7, <1>8

LEMMA OnlyReviewsReview ==
  ASSUME IInv, [Next]_vars
  PROVE  /\ \/ paper'.review = paper.review
            \/ /\ pc \in {"reviewing", "late_review", "final_review"}
               /\ paper.reports > 0
         /\ paper.reports > 0 => paper'.reports > 0
  <1>1. CASE Store
    BY <1>1, StoreReviews DEF Store, IInv
  <1>2. ASSUME NEW o, FixSelection(o)
        PROVE  paper'.review = paper.review /\ paper'.reports = paper.reports
    BY <1>2 DEF FixSelection, IInv, TypeOK, Papers
  <1>3. CASE CollectExhausted \/ CollectGate
    BY <1>2, <1>3 DEF CollectExhausted, CollectGate
  <1>4. CASE UNCHANGED paper
    BY <1>4
  <1> QED
    BY <1>1, <1>3, <1>4 DEF Next, Invoke, Start, Resume, ResumeInVain, Step, Crash,
       TransitionFollowup, StartCollectRound, PhaseTasks, PhaseRaises, Unloadable,
       StartWritingRound, WritingExhausted, WritingGate, vars

\* A gate asks for another review only when there is none, or after a revision
\* that the last one asked for.
LEMMA GateFollowsReview ==
  ASSUME IInv, WritingGate
  PROVE  /\ pc' = "editing" => paper.review = "revise"
         /\ pc' = "late_review" => paper.review = "none"
         /\ pc' \in {"idle", "editing", "late_review", "writing_top"}
  <1>1. paper.review \in ReviewDecisions \union {"none"}
    BY DEF IInv, TypeOK, Papers
  <1> QED
    BY <1>1 DEF WritingGate, WritingOutcome, FailureOutcome, ReviewDecisions, Continue, Return

LEMMA StepJudged == IInv /\ Judged /\ [Next]_vars => Judged'
  <1> SUFFICES ASSUME IInv, Judged, [Next]_vars PROVE Judged'
    OBVIOUS
  <1>1. paper.reports \in 0..2 /\ paper'.reports \in 0..2
    BY StepIInv DEF IInv, TypeOK, Papers
  <1>2. paper'.review # "none" => paper'.reports > 0
    BY <1>1, OnlyReviewsReview DEF Judged
  <1>3. CASE PhaseTasks
    <2>1. /\ pc \in Working /\ pc' = After
          /\ pc' = "reviewing" => pc = "writing"
          /\ pc' \in {"late_review", "final_review"} => pc = "editing"
          /\ pc' \notin {"writing", "editing"}
      BY <1>3 DEF PhaseTasks, Continue, After, Working
    <2> QED
      BY <1>2, <2>1, OnlyReviewsReview DEF Judged
  <1>4. CASE StartWritingRound
    BY <1>1, <1>2, <1>4 DEF StartWritingRound, Continue, Judged
  <1>5. CASE WritingGate
    <2>1. paper' = paper
      BY <1>5 DEF WritingGate
    <2> QED
      BY <1>2, <1>5, <2>1, GateFollowsReview DEF Judged
  <1>6. CASE UNCHANGED vars
    BY <1>2, <1>6 DEF vars, Judged
  <1>7. CASE \/ Invoke \/ Crash \/ TransitionFollowup \/ StartCollectRound
             \/ CollectExhausted \/ CollectGate \/ PhaseRaises \/ Unloadable
             \/ WritingExhausted
    <2>1. \/ pc' \in {"idle", "collect_top", "writing_top", "scouting"}
          \/ UNCHANGED vars
      BY <1>7 DEF Invoke, Start, Resume, ResumeInVain, Crash, TransitionFollowup,
         StartCollectRound, CollectExhausted, CollectGate, PhaseRaises, Unloadable, Raise,
         RaiseBroken, WritingExhausted, Continue, Enter, Return
    <2> QED
      BY <1>2, <1>6, <2>1 DEF Judged
  <1> QED
    BY <1>3, <1>4, <1>5, <1>6, <1>7 DEF Next, Step

\* A review that reopens collection is the last review of its run.
THEOREM ReopenIsLast == Spec => ReopenIsLastReview
  <1>1. Init => Judged
    BY DEF Init, Judged
  <1>2. IInv /\ Judged /\ [Next]_vars =>
          [paper.review = "reopen_collect" => paper'.review = "reopen_collect"]_vars
    BY OnlyReviewsReview DEF Judged
  <1> QED
    BY <1>1, <1>2, StepJudged, Invariance, PTL DEF Spec, ReopenIsLastReview

-----------------------------------------------------------------------------
(* The record in the database implements RunLifecycle *)

\* Steps of the collect loop map to starting a round, granting a follow-up,
\* beginning to write or stopping.
LEMMA CollectSimulates ==
  ASSUME IInv, \/ TransitionFollowup \/ StartCollectRound
               \/ CollectExhausted \/ CollectGate
  PROVE  [Lifecycle!Next]_Lifecycle!vars
  <1>1. CASE TransitionFollowup
    <2>1. /\ db'.phase = "collect_planning" /\ db'.status = "running"
          /\ db'.collect_rounds  = run.collect_rounds
          /\ db'.followup_rounds = run.followup_rounds
          /\ db'.writing_rounds  = run.writing_rounds
      BY <1>1 DEF IInv, TransitionFollowup, Persist, TypeOK, RunStates
    <2>2. db.status = "running" /\ db.phase \in CollectPhases
      BY <1>1 DEF IInv, Located, TransitionFollowup, AtCollect
    <2> QED
      BY <2>1, <2>2 DEF IInv, Agree, Stage, CollectPhases, WritingPhases, Lifecycle!vars
  <1>2. CASE StartCollectRound
    <2>1. /\ db'.phase = "collect_planning" /\ db'.status = "running"
          /\ db'.collect_rounds  = run.collect_rounds + 1
          /\ db'.followup_rounds = run.followup_rounds
          /\ db'.writing_rounds  = run.writing_rounds
          /\ run.collect_rounds < MaxCollectRounds
      BY <1>2 DEF IInv, StartCollectRound, Persist, TypeOK, RunStates
    <2>2. db.status = "running" /\ db.phase \in CollectPhases
      BY <1>2 DEF IInv, Located, StartCollectRound, AtCollect
    <2>3. Lifecycle!CollectRound
      BY <2>1, <2>2 DEF IInv, Agree, Stage, CollectPhases, WritingPhases,
         Lifecycle!CollectRound
    <2> QED
      BY <2>3 DEF Lifecycle!Next
  <1>3. ASSUME NEW d \in CollectOutcomes, db' = ApplyCollect(db, d),
               db.collect_rounds > 0, pc \in AtCollect,
               d = "followup_now" => db.followup_rounds < MaxFollowupRounds
        PROVE  [Lifecycle!Next]_Lifecycle!vars
    <2>1. db.status = "running" /\ db.phase \in CollectPhases /\ db \in RunStates
      BY <1>3 DEF IInv, Located, TypeOK, AtCollect
    <2>2. /\ db'.collect_rounds = db.collect_rounds
          /\ db'.writing_rounds = db.writing_rounds
          /\ db'.followup_rounds = IF d = "followup_now" THEN db.followup_rounds + 1
                                   ELSE db.followup_rounds
          /\ db'.status = IF d = "needs_manual_review" THEN "paused"
                          ELSE IF d = "fail" THEN "failed" ELSE "running"
          /\ db'.phase \in IF d = "enter_writing" THEN {"writing"} ELSE CollectPhases
      BY <1>3, <2>1, ApplyCollectFacts
    <2>3. Stage = "collecting"
      BY <2>1 DEF Stage, CollectPhases, WritingPhases
    <2>4. CASE d = "enter_writing"
      <3>1. Lifecycle!BeginWriting
        BY <1>3, <2>2, <2>3, <2>4 DEF Stage, WritingPhases, Lifecycle!BeginWriting
      <3> QED
        BY <3>1 DEF Lifecycle!Next
    <2>5. CASE d = "followup_now"
      <3>1. Lifecycle!GrantFollowup
        BY <1>3, <2>2, <2>3, <2>5
        DEF Stage, CollectPhases, WritingPhases, Lifecycle!GrantFollowup
      <3> QED
        BY <3>1 DEF Lifecycle!Next
    <2>6. CASE d \in {"needs_manual_review", "fail"}
      <3>1. Lifecycle!Stop
        BY <2>2, <2>3, <2>6 DEF Stage, Lifecycle!Stop
      <3> QED
        BY <3>1 DEF Lifecycle!Next
    <2>7. CASE d \in {"recluster", "continue_collecting"}
      BY <2>2, <2>3, <2>7 DEF Stage, CollectPhases, WritingPhases, Lifecycle!vars
    <2> QED
      BY <2>4, <2>5, <2>6, <2>7 DEF CollectOutcomes
  <1> DEFINE o == CollectOutcome(evals, db.collect_rounds, db.followup_rounds)
  <1>4. /\ o \in CollectOutcomes
        /\ o = "followup_now" => db.followup_rounds < MaxFollowupRounds
    BY CollectGateFacts DEF IInv, TypeOK, RunStates
  <1>5. CASE CollectExhausted
    <2> DEFINE d == ForceExhausted(o)
    <2>1. /\ d \in CollectOutcomes
          /\ d = "followup_now" => db.followup_rounds < MaxFollowupRounds
      BY <1>4, ExhaustedFacts DEF CollectOutcomes
    <2>2. db.collect_rounds > 0
      BY <1>5, GateAssumption DEF CollectExhausted, IInv, Agree, TypeOK, RunStates
    <2>3. db' = ApplyCollect(db, d) /\ pc \in AtCollect
      BY <1>5 DEF CollectExhausted, Persist, AtCollect
    <2> HIDE DEF d, o
    <2> QED
      BY <1>3, <2>1, <2>2, <2>3
  <1>6. CASE CollectGate
    <2>1. db.collect_rounds > 0 /\ db' = ApplyCollect(db, o) /\ pc \in AtCollect
      BY <1>6 DEF CollectGate, Persist, IInv, Located, AtCollect
    <2> HIDE DEF o
    <2> QED
      BY <1>3, <1>4, <2>1
  <1> QED
    BY <1>1, <1>2, <1>5, <1>6

\* Steps of the writing loop map to starting a round, reopening, completing or
\* stopping.
LEMMA WritingSimulates ==
  ASSUME IInv, StartWritingRound \/ WritingExhausted \/ WritingGate
  PROVE  [Lifecycle!Next]_Lifecycle!vars
  <1>1. /\ db.status = "running" /\ db.phase \in WritingPhases /\ db \in RunStates
        /\ pc = "writing_gate" => db.writing_rounds > 0
        /\ Stage = "writing"
    BY DEF StartWritingRound, WritingExhausted, WritingGate, IInv, Located, TypeOK,
       InWriting, Stage
  <1>2. CASE StartWritingRound
    <2>1. /\ db'.phase = "writing" /\ db'.status = "running"
          /\ db'.collect_rounds  = run.collect_rounds
          /\ db'.followup_rounds = run.followup_rounds
          /\ db'.writing_rounds  = run.writing_rounds + 1
          /\ run.writing_rounds < MaxWritingRounds
      BY <1>2 DEF IInv, StartWritingRound, Persist, TypeOK, RunStates
    <2>2. Lifecycle!WritingRound
      BY <1>1, <2>1 DEF IInv, Agree, Stage, WritingPhases, Lifecycle!WritingRound
    <2> QED
      BY <2>2 DEF Lifecycle!Next
  <1>3. CASE WritingExhausted
    <2>1. db' = ApplyWriting(db, FailureOutcome)
          /\ FailureOutcome \in {"needs_manual_review", "fail"}
      BY <1>3 DEF WritingExhausted, Persist, FailureOutcome
    <2>2. /\ db'.status \in {"paused", "failed"}
          /\ db'.collect_rounds = db.collect_rounds
          /\ db'.writing_rounds = db.writing_rounds
          /\ db'.followup_rounds = db.followup_rounds
      BY <1>1, <2>1, ApplyWritingFacts DEF WritingOutcomes
    <2>3. Lifecycle!Stop
      BY <1>1, <2>2 DEF Stage, Lifecycle!Stop
    <2> QED
      BY <2>3 DEF Lifecycle!Next
  <1>4. CASE WritingGate
    <2> DEFINE draft == paper.reports > 0
               o == WritingOutcome(draft, paper.ready, paper.review,
                         paper.blocking, db.collect_rounds, db.review_rounds)
    <2>1. /\ paper.ready \in BOOLEAN /\ paper.blocking \in BOOLEAN
          /\ paper.review \in ReviewDecisions \union {"none"}
      BY Zenon DEF IInv, TypeOK, Papers
    <2>2. draft \in BOOLEAN
      BY DEF IInv, TypeOK, Papers
    <2>3. db.collect_rounds \in Nat /\ db.review_rounds \in Nat
      BY <1>1 DEF RunStates
    <2>4. /\ o \in WritingOutcomes
          /\ o = "reopen_collect" => db.collect_rounds < MaxCollectRounds
      <3> HIDE DEF draft
      <3> QED
        BY <2>1, <2>2, <2>3, WritingGateFacts
    <2>5. db' = ApplyWriting(db, o) /\ db.writing_rounds > 0
      BY <1>1, <1>4 DEF WritingGate, Persist
    <2> HIDE DEF o
    <2>6. /\ db'.collect_rounds = db.collect_rounds
          /\ db'.writing_rounds = db.writing_rounds
          /\ db'.followup_rounds = db.followup_rounds
          /\ db'.status = CASE o = "finalize" -> "completed"
                             [] o = "needs_manual_review" -> "paused"
                             [] o = "fail" -> "failed"
                             [] OTHER -> "running"
          /\ db'.phase \in CASE o = "finalize" -> {"finalized"}
                              [] o = "reopen_collect" -> {"followup"}
                              [] OTHER -> WritingPhases
      BY <1>1, <2>4, <2>5, ApplyWritingFacts
    <2>7. CASE o = "finalize"
      <3>1. Lifecycle!Complete
        BY <1>1, <2>5, <2>6, <2>7 DEF Stage, Lifecycle!Complete
      <3> QED
        BY <3>1 DEF Lifecycle!Next
    <2>8. CASE o = "reopen_collect"
      <3>1. Lifecycle!Reopen
        BY <1>1, <2>4, <2>5, <2>6, <2>8 DEF Stage, WritingPhases, Lifecycle!Reopen
      <3> QED
        BY <3>1 DEF Lifecycle!Next
    <2>9. CASE o \in {"needs_manual_review", "fail"}
      <3>1. Lifecycle!Stop
        BY <1>1, <2>6, <2>9 DEF Stage, Lifecycle!Stop
      <3> QED
        BY <3>1 DEF Lifecycle!Next
    <2>10. CASE o \in {"revise", "review_draft"}
      BY <1>1, <2>6, <2>10 DEF Stage, Lifecycle!vars
    <2> QED
      BY <2>4, <2>7, <2>8, <2>9, <2>10 DEF WritingOutcomes
  <1> QED
    BY <1>2, <1>3, <1>4

\* What the tasks of a phase book, and the step from EDITING to FINAL_REVIEW,
\* are invisible in the lifecycle; an exception stops the run or leaves its
\* record alone.
LEMMA TasksSimulate ==
  ASSUME IInv, PhaseTasks \/ PhaseRaises \/ Unloadable
  PROVE  [Lifecycle!Next]_Lifecycle!vars
  <1>1. db.status = "running" /\ db.phase \in CollectPhases \union WritingPhases
    BY DEF IInv, Located, PhaseTasks, PhaseRaises, Unloadable, Working, Deciding
  <1>2. CASE PhaseTasks
    <2>1. /\ db'.status = db.status
          /\ db'.collect_rounds  = db.collect_rounds
          /\ db'.followup_rounds = db.followup_rounds
          /\ db'.writing_rounds  = db.writing_rounds
          /\ db'.phase \in WritingPhases <=> db.phase \in WritingPhases
      BY <1>2, PhaseTasksFacts DEF IInv, Located, InWriting, WritingPhases
    <2> QED
      BY <2>1 DEF Stage, Lifecycle!vars
  <1>3. CASE PhaseRaises \/ Unloadable
    <2>1. \/ db' = db
          \/ db' = [db EXCEPT !.status = "failed"]
      BY <1>3 DEF PhaseRaises, Unloadable, Raise, RaiseBroken, Persist
    <2>2. CASE db' = db
      BY <2>2 DEF Stage, Lifecycle!vars
    <2>3. CASE db' = [db EXCEPT !.status = "failed"]
      <3>1. /\ db'.status = "failed"
            /\ db'.collect_rounds  = db.collect_rounds
            /\ db'.followup_rounds = db.followup_rounds
            /\ db'.writing_rounds  = db.writing_rounds
        BY <2>3 DEF IInv, TypeOK, RunStates
      <3>2. Lifecycle!Stop
        BY <1>1, <3>1 DEF Stage, Lifecycle!Stop
      <3> QED
        BY <3>2 DEF Lifecycle!Next
    <2> QED
      BY <2>1, <2>2, <2>3
  <1> QED
    BY <1>2, <1>3

\* Starting the run begins it; resuming it and crashing change nothing.
LEMMA InvocationSimulates ==
  ASSUME IInv, Invoke \/ Crash
  PROVE  [Lifecycle!Next]_Lifecycle!vars
  <1>1. CASE Start
    <2>1. /\ db.status = "scheduled"
          /\ db'.phase = "collect_planning" /\ db'.status = "running"
          /\ db'.collect_rounds  = db.collect_rounds
          /\ db'.followup_rounds = db.followup_rounds
          /\ db'.writing_rounds  = db.writing_rounds
      BY <1>1 DEF Start, Persist, IInv, TypeOK, RunStates
    <2>2. Lifecycle!Begin
      BY <2>1 DEF Stage, WritingPhases, Lifecycle!Begin
    <2> QED
      BY <2>2 DEF Lifecycle!Next
  <1>2. CASE Resume \/ ResumeInVain \/ Crash
    BY <1>2 DEF Resume, ResumeInVain, Crash, Stage, Lifecycle!vars
  <1> QED
    BY <1>1, <1>2 DEF Invoke

\* The harness keeps the promise of RunLifecycle: a run collects, writes, is
\* sent back and is settled only in the orders that it allows, each cycle paid
\* for from a budget.
THEOREM ImplementsLifecycle == Spec => KeepsLifecycle
  <1>1. Init => Lifecycle!Init
    BY DEF Init, Stage, Lifecycle!Init
  <1>2. IInv /\ [Next]_vars => [Lifecycle!Next]_Lifecycle!vars
    <2> SUFFICES ASSUME IInv, [Next]_vars PROVE [Lifecycle!Next]_Lifecycle!vars
      OBVIOUS
    <2>1. CASE UNCHANGED vars
      BY <2>1 DEF vars, Stage, Lifecycle!vars
    <2>2. CASE Next
      BY <2>2, CollectSimulates, WritingSimulates, TasksSimulate, InvocationSimulates
      DEF Next, Step
    <2> QED
      BY <2>1, <2>2
  <1> QED
    BY <1>1, <1>2, Invariance, PTL DEF Spec, KeepsLifecycle, Lifecycle!Spec
=============================================================================
