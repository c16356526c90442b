--------------------------- MODULE RunCalls_proofs ---------------------------
(***************************************************************************)
(* Theorems about the calls that RunHarness books, for every budget, task   *)
(* count and number of crashes.  A phase is given a price, the calls it can *)
(* book; what an invocation still owes is the price of the phases ahead of  *)
(* it in its round.  Every step keeps                                       *)
(*     calls booked + calls owed  <=  calls earned by the rounds started.   *)
(***************************************************************************)
EXTENDS RunHarness_proofs

TaskPhases == {"scouting", "clustering", "evaluating", "watchlist_update",
               "writing", "reviewing", "editing", "final_review"}
Sweep == {"scouting", "clustering", "evaluating", "watchlist_update", "collect_gate"}

\* The price of a sweep of the collect phases, and of a writing round, which
\* reviews up to twice.
SweepPrice(price) == price["scouting"] + price["clustering"] + price["evaluating"]
                     + price["watchlist_update"]
RoundPrice(price) == price["writing"] + 2 * price["reviewing"] + price["editing"]
                     + price["final_review"]

\* What the rounds of a record pay for.  A writing round pays for the sweep that
\* it may reopen, too.
Earned(r, price) ==
  (r.collect_rounds + r.followup_rounds + r.writing_rounds) * SweepPrice(price)
    + r.writing_rounds * RoundPrice(price)

\* The calls that are paid for and may still be booked from here.
Owed(price) ==
  CASE pc \in {"idle", "collect_top"} ->
         IF db.phase = "followup" THEN SweepPrice(price) ELSE 0
    [] pc = "scouting" -> SweepPrice(price)
    [] pc = "clustering" ->
         price["clustering"] + price["evaluating"] + price["watchlist_update"]
    [] pc = "evaluating" -> price["evaluating"] + price["watchlist_update"]
    [] pc = "watchlist_update" -> price["watchlist_update"]
    [] pc \in {"collect_gate", "writing_top"} -> 0
    [] pc = "writing" -> SweepPrice(price) + RoundPrice(price)
    [] pc = "reviewing" -> SweepPrice(price) + 2 * price["reviewing"]
                             + price["editing"] + price["final_review"]
    [] pc \in {"writing_gate", "editing"} ->
         SweepPrice(price) + price["reviewing"] + price["editing"] + price["final_review"]
    [] pc = "late_review" -> SweepPrice(price) + price["reviewing"]
    [] pc = "final_review" -> SweepPrice(price) + price["final_review"]

\* The price of the phase at hand.
Here(price) == price[IF pc = "late_review" THEN "reviewing" ELSE pc]

\* The loop's copy may lack calls, and has none that were not booked.
Lacks == run.model_calls <= db.model_calls /\ run.tool_calls <= db.tool_calls

\* Outside the phases the copy is what was loaded or persisted last.
Fresh == pc \in {"idle", "collect_top"} => run = db

\* The phase of the record during a sweep is not that of a granted follow-up.
Sweeping == pc \in Sweep => db.phase = "collect_planning"

CInv == Lacks /\ Fresh /\ Sweeping

-----------------------------------------------------------------------------
(* What a step does to the counters of calls *)

\* Applying a decision books nothing, and only a granted follow-up or a reopened
\* collection leaves the record in the phase FOLLOWUP.
LEMMA ApplyCalls ==
  ASSUME NEW r \in RunStates
  PROVE  /\ \A o \in CollectOutcomes :
              LET s == ApplyCollect(r, o)
              IN  /\ s.model_calls = r.model_calls /\ s.tool_calls = r.tool_calls
                  /\ s.phase = "followup" => o = "followup_now"
         /\ \A o \in WritingOutcomes :
              LET s == ApplyWriting(r, o)
              IN  /\ s.model_calls = r.model_calls /\ s.tool_calls = r.tool_calls
                  /\ s.phase = "followup" /\ r.phase # "followup" => o = "reopen_collect"
  <1>1. ASSUME NEW o \in CollectOutcomes
        PROVE  LET s == ApplyCollect(r, o)
               IN  /\ s.model_calls = r.model_calls /\ s.tool_calls = r.tool_calls
                   /\ s.phase = "followup" => o = "followup_now"
    BY DEF CollectOutcomes, ApplyCollect, RunStates
  <1>2. ASSUME NEW o \in WritingOutcomes
        PROVE  LET s == ApplyWriting(r, o)
               IN  /\ s.model_calls = r.model_calls /\ s.tool_calls = r.tool_calls
                   /\ s.phase = "followup" /\ r.phase # "followup" => o = "reopen_collect"
    BY DEF WritingOutcomes, ApplyWriting, RunStates
  <1> QED
    BY <1>1, <1>2

\* The tasks of a phase add what they book to the record in the database; the
\* loop's copy is left alone, or is the record itself.
LEMMA TasksBook ==
  ASSUME IInv, PhaseTasks
  PROVE  \E calls \in Booked, tools \in ToolCalls :
           /\ calls \in Nat /\ tools \in Nat
           /\ db'.model_calls = db.model_calls + calls
           /\ db'.tool_calls = db.tool_calls + tools
           /\ run' = run \/ run' = db'
  <1>1. PICK calls \in Booked, tools \in ToolCalls :
          LET counted == [db EXCEPT !.model_calls = @ + calls, !.tool_calls = @ + tools]
          IN  IF pc = "editing" /\ HasFinalReview /\ Valid(counted)
              THEN Persist([counted EXCEPT !.phase = "final_review"])
              ELSE db' = counted /\ UNCHANGED run
    BY DEF PhaseTasks
  <1> DEFINE counted == [db EXCEPT !.model_calls = @ + calls, !.tool_calls = @ + tools]
             moved == [counted EXCEPT !.phase = "final_review"]
  <1>2. calls \in Nat /\ tools \in Nat /\ db \in RunStates
    BY BookedType DEF IInv, TypeOK, PhaseTasks
  <1>3. /\ counted.model_calls = db.model_calls + calls
        /\ counted.tool_calls = db.tool_calls + tools
        /\ moved.model_calls = db.model_calls + calls
        /\ moved.tool_calls = db.tool_calls + tools
    BY <1>2 DEF RunStates
  <1>4. \/ db' = counted /\ run' = run
        \/ db' = moved /\ run' = moved
    BY <1>1 DEF Persist
  <1> HIDE DEF counted, moved
  <1> QED
    BY <1>2, <1>3, <1>4

-----------------------------------------------------------------------------
(* What each step does to the record, as far as the calls are concerned *)

Rounds(r) == <<r.collect_rounds, r.followup_rounds, r.writing_rounds>>
SameCalls == db'.model_calls = db.model_calls /\ db'.tool_calls = db.tool_calls

\* Starting, resuming and crashing.
LEMMA InvocationStep ==
  ASSUME IInv, CInv, Invoke \/ Crash
  PROVE  /\ run' = db' /\ SameCalls /\ Rounds(db') = Rounds(db)
         /\ pc' \in {"idle", "collect_top", "writing_top"}
         /\ pc' = "writing_top" => db'.phase \in WritingPhases
         /\ db'.phase = "followup" => db.phase = "followup"
         /\ pc # "idle" => pc' = "idle" /\ db' = db
  <1>1. CASE Start
    <2>1. db' = [db EXCEPT !.phase = "collect_planning", !.status = "running"]
          /\ run' = db' /\ pc = "idle" /\ pc' = "collect_top"
      BY <1>1 DEF Start, Persist, Enter
    <2> QED
      BY <2>1 DEF IInv, TypeOK, RunStates, SameCalls, Rounds
  <1>2. CASE Resume \/ ResumeInVain \/ Crash
    <2>1. /\ db' = db /\ pc' \in {"idle", "collect_top", "writing_top"}
          /\ pc' = "writing_top" => db.phase \in WritingPhases
          /\ pc # "idle" => pc' = "idle"
      BY <1>2 DEF Resume, ResumeInVain, Crash, Enter, Return
    <2>2. run' = db'
      BY <1>2, <2>1 DEF Resume, ResumeInVain, Crash, CInv, Fresh
    <2> QED
      BY <2>1, <2>2 DEF SameCalls, Rounds
  <1> QED
    BY <1>1, <1>2 DEF Invoke

\* Starting a sweep.
LEMMA SweepStep ==
  ASSUME IInv, CInv, TransitionFollowup \/ StartCollectRound
  PROVE  /\ run' = db' /\ SameCalls
         /\ pc = "collect_top" /\ pc' = "scouting" /\ db'.phase = "collect_planning"
         /\ db'.writing_rounds = db.writing_rounds
         /\ db'.followup_rounds = db.followup_rounds
         /\ \/ db.phase = "followup" /\ db'.collect_rounds = db.collect_rounds
            \/ /\ db.phase # "followup" /\ db.collect_rounds < MaxCollectRounds
               /\ db'.collect_rounds = db.collect_rounds + 1
  <1>1. run = db /\ pc = "collect_top" /\ pc' = "scouting"
    BY DEF TransitionFollowup, StartCollectRound, CInv, Fresh, Continue
  <1>2. CASE TransitionFollowup
    BY <1>1, <1>2 DEF TransitionFollowup, Persist, IInv, TypeOK, RunStates, SameCalls
  <1>3. CASE StartCollectRound
    BY <1>1, <1>3 DEF StartCollectRound, Persist, IInv, TypeOK, RunStates, SameCalls
  <1> QED
    BY <1>2, <1>3

\* Deciding after a sweep, or for lack of a round.
LEMMA CollectGateStep ==
  ASSUME IInv, CollectExhausted \/ CollectGate
  PROVE  /\ run' = db' /\ SameCalls
         /\ pc \in {"collect_top", "collect_gate"}
         /\ pc = "collect_top" => db.phase # "followup"
         /\ pc' \in {"idle", "collect_top", "writing_top"}
         /\ pc' = "collect_top" => pc = "collect_gate"
         /\ pc' = "idle" /\ db'.phase # "followup" => db'.status \in {"paused", "failed"}
         /\ db'.collect_rounds = db.collect_rounds
         /\ db'.writing_rounds = db.writing_rounds
         /\ \/ db'.phase # "followup" /\ db'.followup_rounds = db.followup_rounds
            \/ /\ db'.phase = "followup" /\ db.followup_rounds < MaxFollowupRounds
               /\ db'.followup_rounds = db.followup_rounds + 1
  <1> DEFINE o == CollectOutcome(evals, db.collect_rounds, db.followup_rounds)
             d == IF CollectGate THEN o ELSE ForceExhausted(o)
  <1>1. /\ o \in CollectOutcomes
        /\ o = "followup_now" => db.followup_rounds < MaxFollowupRounds
    BY CollectGateFacts DEF IInv, TypeOK, RunStates
  <1>2. /\ d \in CollectOutcomes
        /\ d = "followup_now" => db.followup_rounds < MaxFollowupRounds
    BY <1>1, ExhaustedFacts DEF CollectOutcomes
  <1>3. db' = ApplyCollect(db, d) /\ run' = db'
    BY DEF CollectExhausted, CollectGate, Persist
  <1>4. /\ pc \in {"collect_top", "collect_gate"}
        /\ pc = "collect_top" => db.phase # "followup"
        /\ pc' \in {"idle", "collect_top", "writing_top"}
        /\ pc' = "collect_top" => pc = "collect_gate"
        /\ pc' = "idle" => d \in {"followup_now", "needs_manual_review", "fail"}
    BY <1>2, ExhaustedFacts, <1>1
    DEF CollectExhausted, CollectGate, Continue, Return, IInv, Agree, CollectOutcomes
  <1>5. db \in RunStates /\ db.status = "running"
    BY <1>4 DEF IInv, TypeOK, Located
  <1> HIDE DEF d, o
  <1>6. /\ db'.model_calls = db.model_calls /\ db'.tool_calls = db.tool_calls
        /\ db'.phase = "followup" => d = "followup_now"
    BY <1>2, <1>3, <1>5, ApplyCalls
  <1>7. /\ db'.collect_rounds = db.collect_rounds
        /\ db'.writing_rounds = db.writing_rounds
        /\ db'.followup_rounds = IF d = "followup_now" THEN db.followup_rounds + 1
                                 ELSE db.followup_rounds
        /\ d = "followup_now" => db'.phase = "followup"
        /\ d \in {"needs_manual_review", "fail"} => db'.status \in {"paused", "failed"}
    BY <1>2, <1>3, <1>5, ApplyCollectFacts DEF ApplyCollect, RunStates
  <1> QED
    BY <1>2, <1>3, <1>4, <1>6, <1>7 DEF SameCalls

\* Starting a writing round takes the calls of the loop's copy.
LEMMA WritingRoundStep ==
  ASSUME IInv, StartWritingRound
  PROVE  /\ run' = db'
         /\ db'.model_calls = run.model_calls /\ db'.tool_calls = run.tool_calls
         /\ pc = "writing_top" /\ pc' \in {"writing", "reviewing", "writing_gate"}
         /\ db'.collect_rounds = db.collect_rounds
         /\ db'.followup_rounds = db.followup_rounds
         /\ db.writing_rounds < MaxWritingRounds
         /\ db'.writing_rounds = db.writing_rounds + 1
  BY DEF StartWritingRound, Persist, Continue, IInv, Agree, TypeOK, RunStates

\* Deciding after a review, or for lack of a writing round.
LEMMA WritingGateStep ==
  ASSUME IInv, WritingExhausted \/ WritingGate
  PROVE  /\ run' = db' /\ SameCalls /\ Rounds(db') = Rounds(db)
         /\ pc \in {"writing_gate", "writing_top"}
         /\ \/ /\ pc' = "idle" /\ db'.phase # "followup"
               /\ db'.status \in {"completed", "paused", "failed"}
            \/ pc = "writing_gate" /\ pc' = "idle" /\ db'.phase = "followup"
            \/ pc = "writing_gate" /\ pc' \in {"writing_top", "editing", "late_review"}
  <1> DEFINE o == WritingOutcome(paper.reports > 0, paper.ready, paper.review,
                       paper.blocking, db.collect_rounds, db.review_rounds)
             d == IF pc = "writing_gate" THEN o ELSE FailureOutcome
  <1>1. /\ pc \in {"writing_gate", "writing_top"}
        /\ db.status = "running" /\ db.phase \in WritingPhases /\ db \in RunStates
    BY DEF WritingExhausted, WritingGate, IInv, Located, TypeOK, InWriting
  <1>2. o \in WritingOutcomes
    <2>1. /\ paper.ready \in BOOLEAN /\ paper.blocking \in BOOLEAN
          /\ paper.review \in ReviewDecisions \union {"none"}
      BY Zenon DEF IInv, TypeOK, Papers
    <2>2. (paper.reports > 0) \in BOOLEAN
      BY DEF IInv, TypeOK, Papers
    <2>3. db.collect_rounds \in Nat /\ db.review_rounds \in Nat
      BY <1>1 DEF RunStates
    <2> QED
      BY <2>1, <2>2, <2>3, WritingGateFacts
  <1>3. d \in WritingOutcomes
    BY <1>2 DEF FailureOutcome, WritingOutcomes
  <1>4. db' = ApplyWriting(db, d) /\ run' = db'
    BY DEF WritingExhausted, WritingGate, Persist
  <1>5. /\ pc = "writing_top" => d \in {"needs_manual_review", "fail"} /\ pc' = "idle"
        /\ d = "revise" => pc' \in {"writing_top", "editing"}
        /\ d = "review_draft" => pc' = "late_review"
        /\ d \notin {"revise", "review_draft"} => pc' = "idle"
    BY DEF WritingExhausted, WritingGate, Continue, Return, FailureOutcome
  <1> HIDE DEF d, o
  <1>6. /\ db'.model_calls = db.model_calls /\ db'.tool_calls = db.tool_calls
        /\ db'.phase = "followup" => d = "reopen_collect"
    BY <1>1, <1>3, <1>4, ApplyCalls DEF WritingPhases
  <1>7. /\ db'.collect_rounds = db.collect_rounds
        /\ db'.writing_rounds = db.writing_rounds
        /\ db'.followup_rounds = db.followup_rounds
        /\ db'.status = CASE d = "finalize" -> "completed"
                          [] d = "needs_manual_review" -> "paused"
                          [] d = "fail" -> "failed"
                          [] OTHER -> "running"
        /\ d = "reopen_collect" => db'.phase = "followup"
    BY <1>1, <1>3, <1>4, ApplyWritingFacts
  <1> QED
    BY <1>1, <1>3, <1>4, <1>5, <1>6, <1>7 DEF SameCalls, Rounds, WritingOutcomes

\* An exception changes nothing but the status; one that leaves a running record
\* behind was raised in a phase.
LEMMA RaisingStep ==
  ASSUME IInv, CInv, PhaseRaises \/ Unloadable
  PROVE  /\ run' = db' /\ SameCalls /\ Rounds(db') = Rounds(db)
         /\ pc # "idle" /\ pc' = "idle" /\ crashes' = crashes
         /\ db'.phase = db.phase /\ db.phase # "followup"
         /\ \/ db'.status = "failed"
            \/ db' = db /\ (~Valid(db) \/ pc \in Working)
  <1>1. pc \in Working \union Deciding /\ pc' = "idle" /\ crashes' = crashes
    BY DEF PhaseRaises, Unloadable, Raise, RaiseBroken, Return
  <1>2. \/ /\ run' = db'
           /\ db' = IF Valid(db) THEN [db EXCEPT !.status = "failed"] ELSE db
        \/ run' = db /\ db' = db /\ pc \in Working
    BY DEF PhaseRaises, Unloadable, Raise, RaiseBroken, Persist
  <1>3. /\ run' = db' /\ db'.phase = db.phase
        /\ SameCalls /\ Rounds(db') = Rounds(db)
        /\ \/ db'.status = "failed"
           \/ db' = db /\ (~Valid(db) \/ pc \in Working)
    BY <1>2 DEF IInv, TypeOK, RunStates, SameCalls, Rounds
  <1>4. pc = "collect_top" => db.phase # "followup"
    BY DEF PhaseRaises, Unloadable, Working, IInv, Agree
  <1>5. pc # "collect_top" => db.phase # "followup"
    BY <1>1 DEF IInv, CInv, Sweeping, Sweep, Located, InWriting, WritingPhases,
       Working, Deciding
  <1> QED
    BY <1>1, <1>3, <1>4, <1>5 DEF Working, Deciding

\* The tasks of a phase leave the rounds alone, and the phase of the record but
\* for the step from EDITING to FINAL_REVIEW.
LEMMA TasksStep ==
  ASSUME IInv, PhaseTasks
  PROVE  /\ pc \in Working /\ pc' = After /\ Rounds(db') = Rounds(db)
         /\ db'.phase \in {db.phase, "final_review"}
         /\ pc # "editing" => db'.phase = db.phase
  BY PhaseTasksFacts DEF PhaseTasks, Continue, Rounds

-----------------------------------------------------------------------------
(* The loop's copy of the record *)

LEMMA InitCInv == Init => CInv
  BY DEF Init, CInv, Lacks, Fresh, Sweeping, Sweep

\* What the copy lacks, and where it lacks nothing, is kept by every step.
LEMMA StepCInv == IInv /\ CInv /\ [Next]_vars => CInv'
  <1> SUFFICES ASSUME IInv, CInv, [Next]_vars PROVE CInv'
    OBVIOUS
  <1>1. ASSUME run' = db', db' \in RunStates,
               pc' \in Sweep => db'.phase = "collect_planning"
        PROVE  CInv'
    BY <1>1 DEF CInv, Lacks, Fresh, Sweeping, RunStates
  <1>2. db' \in RunStates
    BY StepIInv DEF IInv, TypeOK
  <1>3. CASE Invoke \/ Crash
    BY <1>1, <1>2, <1>3, InvocationStep DEF Sweep
  <1>4. CASE TransitionFollowup \/ StartCollectRound
    BY <1>1, <1>2, <1>4, SweepStep
  <1>5. CASE CollectExhausted \/ CollectGate
    BY <1>1, <1>2, <1>5, CollectGateStep DEF Sweep
  <1>6. CASE StartWritingRound
    BY <1>1, <1>2, <1>6, WritingRoundStep DEF Sweep
  <1>7. CASE WritingExhausted \/ WritingGate
    BY <1>1, <1>2, <1>7, WritingGateStep DEF Sweep
  <1>8. CASE PhaseRaises \/ Unloadable
    BY <1>1, <1>2, <1>8, RaisingStep DEF Sweep
  <1>9. CASE PhaseTasks
    <2>1. Lacks'
      <3>1. PICK calls \in Booked, tools \in ToolCalls :
              /\ calls \in Nat /\ tools \in Nat
              /\ db'.model_calls = db.model_calls + calls
              /\ db'.tool_calls = db.tool_calls + tools
              /\ run' = run \/ run' = db'
        BY <1>9, TasksBook
      <3> QED
        BY <1>2, <3>1 DEF CInv, Lacks, IInv, TypeOK, RunStates
    <2>2. /\ pc' \notin {"idle", "collect_top"}
          /\ pc' \in Sweep => pc \in Sweep /\ pc # "editing"
      BY <1>9, TasksStep DEF After, Working, Sweep
    <2>3. pc' \in Sweep => db'.phase = "collect_planning"
      BY <1>9, <2>2, TasksStep DEF CInv, Sweeping
    <2> QED
      BY <2>1, <2>2, <2>3 DEF CInv, Fresh, Sweeping
  <1>10. CASE UNCHANGED vars
    BY <1>10 DEF vars, CInv, Lacks, Fresh, Sweeping
  <1> QED
    BY <1>3, <1>4, <1>5, <1>6, <1>7, <1>8, <1>9, <1>10 DEF Next, Step

LEMMA Copies == Spec => []CInv
  BY InitCInv, StepCInv, Invariance, PTL DEF Spec

\* Calls that were booked are lost at the start of a writing round only.
THEOREM BookedCallsKept == Spec => BookedCallsStay
  <1>1. ASSUME IInv, CInv, Next, db'.writing_rounds = db.writing_rounds
        PROVE  db'.model_calls >= db.model_calls /\ db'.tool_calls >= db.tool_calls
    <2>1. db.model_calls \in Nat /\ db.tool_calls \in Nat /\ db.writing_rounds \in Nat
      BY <1>1 DEF IInv, TypeOK, RunStates
    <2>2. SameCalls \/ PhaseTasks
      BY <1>1, <2>1, InvocationStep, SweepStep, CollectGateStep, WritingRoundStep,
         WritingGateStep, RaisingStep DEF Next, Step
    <2>3. CASE PhaseTasks
      BY <1>1, <2>1, <2>3, TasksBook
    <2> QED
      BY <2>1, <2>2, <2>3 DEF SameCalls
  <1>2. IInv /\ CInv /\ [Next]_vars =>
          [db'.writing_rounds = db.writing_rounds =>
             /\ db'.model_calls >= db.model_calls
             /\ db'.tool_calls >= db.tool_calls]_vars
    BY <1>1
  <1> QED
    BY <1>2, Invariance, Copies, PTL DEF Spec, BookedCallsStay

-----------------------------------------------------------------------------
(* Every call is paid for by a round *)

Prices == [TaskPhases -> Nat]

\* A round more is a sweep, or a sweep and a writing round, more.
LEMMA OneMore ==
  ASSUME NEW n \in Nat, NEW w \in Nat, NEW s \in Nat, NEW r \in Nat
  PROVE  /\ n * s \in Nat /\ (n + 1) * s = n * s + s
         /\ n * s + w * r \in Nat
         /\ (n + 1) * s + w * r = (n * s + w * r) + s
         /\ (n + 1) * s + (w + 1) * r = (n * s + w * r) + s + r
  <1>1. /\ n * s \in Nat /\ (n + 1) * s = n * s + s
        /\ w * r \in Nat /\ (w + 1) * r = w * r + r
    OBVIOUS
  <1> QED
    BY <1>1

LEMMA PricesType ==
  ASSUME NEW price \in Prices
  PROVE  /\ SweepPrice(price) \in Nat /\ RoundPrice(price) \in Nat
         /\ \A t \in TaskPhases : price[t] \in Nat
  BY DEF Prices, TaskPhases, SweepPrice, RoundPrice

\* What a record earns by one round more.
LEMMA EarnedMore ==
  ASSUME NEW r \in RunStates, NEW s \in RunStates, NEW price \in Prices
  PROVE  /\ Earned(r, price) \in Nat
         /\ Rounds(s) = Rounds(r) => Earned(s, price) = Earned(r, price)
         /\ /\ s.collect_rounds + s.followup_rounds
                  = (r.collect_rounds + r.followup_rounds) + 1
            /\ s.writing_rounds = r.writing_rounds
            => Earned(s, price) = Earned(r, price) + SweepPrice(price)
         /\ /\ s.collect_rounds + s.followup_rounds
                  = r.collect_rounds + r.followup_rounds
            /\ s.writing_rounds = r.writing_rounds + 1
            => Earned(s, price)
                 = Earned(r, price) + SweepPrice(price) + RoundPrice(price)
  <1> DEFINE n == r.collect_rounds + r.followup_rounds + r.writing_rounds
             m == s.collect_rounds + s.followup_rounds + s.writing_rounds
             w == r.writing_rounds
             S == SweepPrice(price)
             R == RoundPrice(price)
  <1>1. n \in Nat /\ w \in Nat /\ S \in Nat /\ R \in Nat
    BY PricesType DEF RunStates
  <1>2. /\ Earned(r, price) = n * S + w * R
        /\ Earned(s, price) = m * S + s.writing_rounds * R
    BY DEF Earned
  <1>3. Rounds(s) = Rounds(r) => m = n /\ s.writing_rounds = w
    BY DEF Rounds
  <1>4. ASSUME s.collect_rounds + s.followup_rounds
                 = (r.collect_rounds + r.followup_rounds) + 1,
               s.writing_rounds = r.writing_rounds
        PROVE  m = n + 1 /\ s.writing_rounds = w
    BY <1>4 DEF RunStates
  <1>5. ASSUME s.collect_rounds + s.followup_rounds = r.collect_rounds + r.followup_rounds,
               s.writing_rounds = r.writing_rounds + 1
        PROVE  m = n + 1 /\ s.writing_rounds = w + 1
    BY <1>5 DEF RunStates
  <1>6. /\ n * S + w * R \in Nat
        /\ (n + 1) * S + w * R = (n * S + w * R) + S
        /\ (n + 1) * S + (w + 1) * R = (n * S + w * R) + S + R
    <2> HIDE DEF n, w, S, R
    <2> QED
      BY <1>1, OneMore
  <1> HIDE DEF n, m, w, S, R
  <1>7. /\ Earned(r, price) \in Nat
        /\ Rounds(s) = Rounds(r) => Earned(s, price) = Earned(r, price)
    BY <1>2, <1>3, <1>6
  <1> QED
    BY <1>2, <1>4, <1>5, <1>6, <1>7 DEF S, R

LEMMA OwedType ==
  ASSUME IInv, NEW price \in Prices
  PROVE  Owed(price) \in Nat
  BY PricesType DEF Owed, IInv, TypeOK, Working, Deciding, TaskPhases

\* The tasks of a phase book no more than is owed for it.
LEMMA TasksOwed ==
  ASSUME IInv, CInv, PhaseTasks, NEW price \in Prices
  PROVE  /\ Here(price) \in Nat /\ Owed(price)' \in Nat
         /\ Owed(price)' + Here(price) <= Owed(price)
  <1>1. \A t \in TaskPhases : price[t] \in Nat
    BY PricesType
  <1>2. /\ pc' = After /\ pc \in Working
        /\ pc' \notin {"idle", "collect_top"}
    BY TasksStep DEF After, Working
  <1> QED
    BY <1>1, <1>2 DEF Owed, Here, After, Working, TaskPhases, SweepPrice, RoundPrice

\* The heart of the argument: what is booked and what is owed never exceeds what
\* the rounds earn, when a phase books no more than its price.
LEMMA PaidStep ==
  ASSUME IInv, CInv, Next, NEW price \in Prices,
         NEW old \in Nat, old + Owed(price) <= Earned(db, price),
         NEW new \in Nat, new <= IF PhaseTasks THEN old + Here(price) ELSE old
  PROVE  new + Owed(price)' <= Earned(db, price)'
  <1> DEFINE S == SweepPrice(price)
             R == RoundPrice(price)
             E == Earned(db, price)
             E2 == Earned(db', price)
  <1>1. /\ S \in Nat /\ R \in Nat
        /\ \A t \in TaskPhases : price[t] \in Nat
    BY PricesType
  <1>2. db \in RunStates /\ db' \in RunStates
    BY StepIInv DEF IInv, TypeOK
  <1>3. /\ E \in Nat /\ old + Owed(price) <= E
        /\ Rounds(db') = Rounds(db) => E2 = E
        /\ /\ db'.collect_rounds + db'.followup_rounds
                 = (db.collect_rounds + db.followup_rounds) + 1
           /\ db'.writing_rounds = db.writing_rounds
           => E2 = E + S
        /\ /\ db'.collect_rounds + db'.followup_rounds
                 = db.collect_rounds + db.followup_rounds
           /\ db'.writing_rounds = db.writing_rounds + 1
           => E2 = E + S + R
    BY <1>2, EarnedMore
  <1>4. Owed(price) \in Nat
    BY OwedType
  <1>5. Earned(db, price)' = E2
    OBVIOUS
  <1>6. SUFFICES new + Owed(price)' <= E2
    BY <1>5
  <1> HIDE DEF E, E2
  <1>7. CASE PhaseTasks
    <2>1. E2 = E
      BY <1>3, <1>7, TasksStep
    <2>2. new <= old + Here(price)
      BY <1>7
    <2>3. /\ Here(price) \in Nat /\ Owed(price)' \in Nat
          /\ Owed(price)' + Here(price) <= Owed(price)
      BY <1>7, TasksOwed
    <2> QED
      BY <1>3, <1>4, <2>1, <2>2, <2>3
  <1> SUFFICES ASSUME ~PhaseTasks PROVE new + Owed(price)' <= E2
    BY <1>7
  <1>8. CASE Invoke \/ Crash
    <2>1. E2 = E
      BY <1>3, <1>8, InvocationStep
    <2>2. Owed(price)' = IF db'.phase = "followup" /\ pc' # "writing_top" THEN S ELSE 0
      BY <1>8, InvocationStep DEF Owed
    <2>3. db.phase = "followup" => Owed(price) = S
      <3>1. pc \in {"idle", "collect_top"} \/ db.phase # "followup"
        BY DEF IInv, CInv, TypeOK, Located, InWriting, Working, Deciding, WritingPhases,
           Sweeping, Sweep
      <3> QED
        BY <3>1 DEF Owed
    <2> QED
      BY <1>1, <1>3, <1>4, <1>8, <2>1, <2>2, <2>3, InvocationStep
  <1>9. CASE TransitionFollowup \/ StartCollectRound
    <2>1. pc = "collect_top" /\ Owed(price)' = S
      BY <1>9, SweepStep DEF Owed
    <2>2. \/ E2 = E /\ Owed(price) = S
          \/ E2 = E + S
      BY <1>2, <1>3, <1>9, <2>1, SweepStep DEF Owed, Rounds, RunStates
    <2> QED
      BY <1>1, <1>3, <1>4, <2>1, <2>2
  <1>10. CASE CollectExhausted \/ CollectGate
    <2>1. Owed(price)' = IF db'.phase = "followup" /\ pc' # "writing_top" THEN S ELSE 0
      BY <1>10, CollectGateStep DEF Owed
    <2>2. \/ E2 = E /\ db'.phase # "followup"
          \/ E2 = E + S
      BY <1>2, <1>3, <1>10, CollectGateStep DEF Rounds, RunStates
    <2> QED
      BY <1>1, <1>3, <1>4, <2>1, <2>2
  <1>11. CASE StartWritingRound
    <2>1. Owed(price)' \in Nat /\ Owed(price)' <= S + R
      BY <1>1, <1>11, WritingRoundStep DEF Owed, SweepPrice, RoundPrice, TaskPhases
    <2>2. E2 = E + S + R
      BY <1>2, <1>3, <1>11, WritingRoundStep DEF RunStates
    <2> QED
      BY <1>1, <1>3, <1>4, <2>1, <2>2
  <1>12. CASE WritingExhausted \/ WritingGate
    <2>1. E2 = E
      BY <1>3, <1>12, WritingGateStep
    <2>2. Owed(price)' \in Nat /\ Owed(price)' <= Owed(price)
      BY <1>1, <1>12, WritingGateStep DEF Owed, TaskPhases
    <2> QED
      BY <1>3, <1>4, <2>1, <2>2
  <1>13. CASE PhaseRaises \/ Unloadable
    <2>1. E2 = E
      BY <1>3, <1>13, RaisingStep
    <2>2. Owed(price)' = 0
      BY <1>13, RaisingStep DEF Owed
    <2> QED
      BY <1>3, <1>4, <2>1, <2>2
  <1> QED
    BY <1>7, <1>8, <1>9, <1>10, <1>11, <1>12, <1>13 DEF Next, Step

\* The calls booked and owed by every invocation, tool calls at most most a phase.
Paid == db.model_calls + Owed(Tasks) <= Earned(db, Tasks)
PaidTools(most) ==
  LET price == [t \in TaskPhases |-> most]
  IN  db.tool_calls + Owed(price) <= Earned(db, price)

\* A phase books its tasks, or as many as scouts succeeded.
LEMMA BookedHere ==
  ASSUME pc \in Working
  PROVE  Tasks \in Prices /\ \A calls \in Booked : calls <= Here(Tasks)
  <1>1. Tasks \in Prices /\ \A t \in TaskPhases : Tasks[t] \in Nat
    BY HarnessAssumption DEF Prices, TaskPhases
  <1>2. CASE pc = "scouting"
    BY <1>1, <1>2, HarnessAssumption DEF Booked, Here, TaskPhases
  <1>3. CASE pc # "scouting"
    BY <1>1, <1>3 DEF Booked, Here, TaskPhases, Working
  <1> QED
    BY <1>1, <1>2, <1>3

\* The initial record has booked nothing and owes nothing.
LEMMA InitPaid ==
  ASSUME Init, NEW price \in Prices
  PROVE  0 + Owed(price) <= Earned(db, price)
  <1>1. IInv /\ db \in RunStates
    BY InitIInv DEF IInv, TypeOK
  <1>2. Earned(db, price) \in Nat
    BY <1>1, EarnedMore
  <1> QED
    BY <1>2 DEF Init, Owed

\* The model calls of a record are paid for.
LEMMA ModelCallsPaid == Spec => []Paid
  <1>1. Tasks \in Prices
    BY HarnessAssumption DEF Prices, TaskPhases
  <1>2. Init => Paid
    BY <1>1, InitPaid DEF Init, Paid
  <1>3. IInv /\ CInv /\ Paid /\ [Next]_vars => Paid'
    <2> SUFFICES ASSUME IInv, CInv, Paid, [Next]_vars PROVE Paid'
      OBVIOUS
    <2>1. CASE UNCHANGED vars
      BY <2>1 DEF vars, Paid, Owed, Earned
    <2>2. CASE Next
      <3>1. db.model_calls \in Nat /\ db'.model_calls \in Nat
        BY StepIInv DEF IInv, TypeOK, RunStates
      <3>2. db'.model_calls <= IF PhaseTasks THEN db.model_calls + Here(Tasks)
                               ELSE db.model_calls
        <4>1. CASE PhaseTasks
          BY <3>1, <4>1, TasksBook, BookedHere, TasksStep, TasksOwed
        <4>2. CASE ~PhaseTasks
          BY <2>2, <3>1, <4>2, InvocationStep, SweepStep, CollectGateStep,
             WritingRoundStep, WritingGateStep, RaisingStep
          DEF Next, Step, SameCalls, CInv, Lacks
        <4> QED
          BY <4>1, <4>2
      <3> QED
        BY <1>1, <2>2, <3>1, <3>2, PaidStep DEF Paid
    <2> QED
      BY <2>1, <2>2
  <1> QED
    BY <1>2, <1>3, Invariance, Copies, PTL DEF Spec

\* So are the tool calls, at the most that a phase can make.
LEMMA ToolCallsPaid ==
  ASSUME NEW most \in Nat, \A tools \in ToolCalls : tools <= most
  PROVE  Spec => []PaidTools(most)
  <1> DEFINE price == [t \in TaskPhases |-> most]
  <1>1. price \in Prices
    BY DEF Prices
  <1>2. Init => PaidTools(most)
    <2> SUFFICES ASSUME Init PROVE PaidTools(most)
      OBVIOUS
    <2>1. 0 + Owed(price) <= Earned(db, price)
      <3> HIDE DEF price
      <3> QED
        BY <1>1, InitPaid
    <2>2. db.tool_calls = 0
      BY DEF Init
    <2> QED
      BY <2>1, <2>2 DEF PaidTools
  <1>3. IInv /\ CInv /\ PaidTools(most) /\ [Next]_vars => PaidTools(most)'
    <2> SUFFICES ASSUME IInv, CInv, PaidTools(most), [Next]_vars
                 PROVE  PaidTools(most)'
      OBVIOUS
    <2>1. CASE UNCHANGED vars
      BY <2>1 DEF vars, PaidTools, Owed, Earned
    <2>2. CASE Next
      <3>1. db.tool_calls \in Nat /\ db'.tool_calls \in Nat
        BY StepIInv DEF IInv, TypeOK, RunStates
      <3>2. db'.tool_calls <= IF PhaseTasks THEN db.tool_calls + Here(price)
                              ELSE db.tool_calls
        <4>1. CASE PhaseTasks
          <5>1. Here(price) = most
            BY <4>1, TasksStep DEF Here, Working, TaskPhases
          <5> QED
            BY <3>1, <4>1, <5>1, TasksBook
        <4>2. CASE ~PhaseTasks
          BY <2>2, <3>1, <4>2, InvocationStep, SweepStep, CollectGateStep,
             WritingRoundStep, WritingGateStep, RaisingStep
          DEF Next, Step, SameCalls, CInv, Lacks
        <4> QED
          BY <4>1, <4>2
      <3>3. db.tool_calls + Owed(price) <= Earned(db, price)
        BY DEF PaidTools
      <3>4. db'.tool_calls + Owed(price)' <= Earned(db, price)'
        <4> HIDE DEF price
        <4> QED
          BY <1>1, <2>2, <3>1, <3>2, <3>3, PaidStep
      <3> QED
        BY <3>4 DEF PaidTools
    <2> QED
      BY <2>1, <2>2
  <1> QED
    BY <1>2, <1>3, Invariance, Copies, PTL DEF Spec

\* The model calls of a run are bounded by the rounds it has started, whatever
\* is crashed and resumed.
THEOREM CallsArePaid == Spec => []CallsPaidByRounds
  <1>1. IInv /\ Paid => CallsPaidByRounds
    <2> SUFFICES ASSUME IInv, Paid PROVE CallsPaidByRounds
      OBVIOUS
    <2>1. Tasks \in Prices /\ db \in RunStates
      BY HarnessAssumption DEF Prices, TaskPhases, IInv, TypeOK
    <2>2. Owed(Tasks) \in Nat /\ Earned(db, Tasks) \in Nat /\ db.model_calls \in Nat
      BY <2>1, OwedType, EarnedMore DEF RunStates
    <2>3. db.model_calls <= Earned(db, Tasks)
      BY <2>2 DEF Paid
    <2> QED
      BY <2>3 DEF CallsPaidByRounds, Earned, SweepCalls, RoundCalls, SweepPrice, RoundPrice
  <1> QED
    BY <1>1, Invariance, ModelCallsPaid, PTL

\* What all the rounds of the budgets earn.
AllRounds(price) ==
  (MaxCollectRounds + MaxFollowupRounds + MaxWritingRounds) * SweepPrice(price)
    + MaxWritingRounds * RoundPrice(price)

LEMMA TimesMonotonic ==
  ASSUME NEW a \in Nat, NEW b \in Nat, NEW s \in Nat, a <= b
  PROVE  a * s <= b * s
  <1>1. PICK d \in Nat : b = a + d
    <2>1. b - a \in Nat /\ b = a + (b - a)
      OBVIOUS
    <2> QED
      BY <2>1
  <1>2. b * s = a * s + d * s /\ a * s \in Nat /\ d * s \in Nat
    BY <1>1
  <1> QED
    BY <1>2

LEMMA EarnedAtMost ==
  ASSUME IInv, NEW price \in Prices
  PROVE  Earned(db, price) <= AllRounds(price) /\ AllRounds(price) \in Nat
  <1> DEFINE n == db.collect_rounds + db.followup_rounds + db.writing_rounds
             m == MaxCollectRounds + MaxFollowupRounds + MaxWritingRounds
             w == db.writing_rounds
             S == SweepPrice(price)
             R == RoundPrice(price)
  <1>1. n \in Nat /\ m \in Nat /\ n <= m /\ w \in Nat /\ w <= MaxWritingRounds
        /\ MaxWritingRounds \in Nat /\ S \in Nat /\ R \in Nat
    BY PricesType, GateAssumption, HarnessAssumption
    DEF IInv, Budgeted, TypeOK, RunStates
  <1>2. Earned(db, price) = n * S + w * R /\ AllRounds(price) = m * S + MaxWritingRounds * R
    BY DEF Earned, AllRounds
  <1> HIDE DEF n, m, w, S, R
  <1>3. n * S <= m * S /\ w * R <= MaxWritingRounds * R
    BY <1>1, TimesMonotonic
  <1>4. /\ n * S \in Nat /\ m * S \in Nat
        /\ w * R \in Nat /\ MaxWritingRounds * R \in Nat
    BY <1>1
  <1> QED
    BY <1>2, <1>3, <1>4

\* With budgets of calls that cover what the budgets of rounds allow, every record
\* of a run can be loaded.
THEOREM AmpleBudgetsLoad ==
  ASSUME NEW most \in Nat, \A tools \in ToolCalls : tools <= most,
         MaxModelCalls >= AllRounds(Tasks),
         MaxToolCalls >= AllRounds([t \in TaskPhases |-> most])
  PROVE  Spec => []Loadable
  <1> DEFINE price == [t \in TaskPhases |-> most]
  <1>1. Tasks \in Prices /\ price \in Prices
    BY HarnessAssumption DEF Prices, TaskPhases
  <1>2. IInv /\ CompletedIsReviewed /\ Paid /\ PaidTools(most) => Loadable
    <2> SUFFICES ASSUME IInv, CompletedIsReviewed, Paid, PaidTools(most) PROVE Loadable
      OBVIOUS
    <2>1. /\ db \in RunStates /\ db.model_calls \in Nat /\ db.tool_calls \in Nat
      BY DEF IInv, TypeOK, RunStates
    <2>2. /\ db.model_calls + Owed(Tasks) <= Earned(db, Tasks)
          /\ db.tool_calls + Owed(price) <= Earned(db, price)
          /\ MaxToolCalls >= AllRounds(price)
      BY DEF Paid, PaidTools
    <2> HIDE DEF price
    <2>3. /\ Owed(Tasks) \in Nat /\ Earned(db, Tasks) \in Nat
          /\ Owed(price) \in Nat /\ Earned(db, price) \in Nat
          /\ Earned(db, Tasks) <= AllRounds(Tasks) /\ AllRounds(Tasks) \in Nat
          /\ Earned(db, price) <= AllRounds(price) /\ AllRounds(price) \in Nat
      BY <1>1, <2>1, OwedType, EarnedMore, EarnedAtMost
    <2>4. db.model_calls <= MaxModelCalls /\ db.tool_calls <= MaxToolCalls
      BY <2>1, <2>2, <2>3, HarnessAssumption
    <2>5. db.status = "completed" => db.phase = "finalized"
      BY DEF CompletedIsReviewed
    <2> QED
      BY <2>4, <2>5 DEF Loadable, Valid, IInv, Budgeted
  <1> QED
    BY <1>2, Invariance, CompletedWasReviewed, ModelCallsPaid, ToolCallsPaid, PTL

-----------------------------------------------------------------------------
(* Every step uses up some of the rank *)

\* What is left of the rounds and crashes is a number, and one round or crash
\* takes one of it.
LEMMA LeftFacts ==
  ASSUME IInv, IInv'
  PROVE  /\ Left \in Nat /\ Left' \in Nat
         /\ Rounds(db') = Rounds(db) /\ crashes' = crashes => Left' = Left
         /\ /\ crashes' = crashes
            /\ db'.collect_rounds + db'.followup_rounds + db'.writing_rounds
                 = db.collect_rounds + db.followup_rounds + db.writing_rounds + 1
            => Left' = Left - 1
         /\ Rounds(db') = Rounds(db) /\ crashes' = crashes + 1 => Left' = Left - 1
  BY GateAssumption, HarnessAssumption
  DEF Left, IInv, Budgeted, TypeOK, RunStates, Rounds

\* Place by place, now and in the next state.
LEMMA PlaceFacts ==
  ASSUME TypeOK, TypeOK'
  PROVE  /\ Place \in 0..14 /\ Place' \in 0..14
         /\ pc # "idle" => Place >= 1
         /\ pc' = "idle" => Place' <= 9
  <1>1. Resting \in {0, 2, 3, 9} /\ Resting' \in {0, 2, 3, 9}
    BY DEF Resting
  <1>2. Place \in 0..14 /\ (pc # "idle" => Place >= 1)
    BY <1>1 DEF Place, TypeOK, Working, Deciding
  <1>3. Place' \in 0..14 /\ (pc' = "idle" => Place' <= 9)
    BY <1>1 DEF Place, TypeOK, Working, Deciding
  <1> QED
    BY <1>2, <1>3

\* Within a round each phase is nearer to the end of the round than the last.
LEMMA TasksShrink ==
  ASSUME IInv, PhaseTasks
  PROVE  Place' < Place
  BY TasksStep DEF Place, After, Working

LEMMA RankArithmetic ==
  ASSUME NEW l \in Nat, NEW m \in Nat, NEW p \in 0..14, NEW q \in 0..14,
         \/ m = l /\ q < p
         \/ m = l - 1 /\ q < p + 14
  PROVE  14 * m + q \in 0..((14 * l + p) - 1)
  OBVIOUS

\* A step that uses up no round and no crash moves on within one.
LEMMA RankShrinks ==
  ASSUME IInv, CInv, Next, pc' # pc \/ db' # db
  PROVE  Rank' \in 0..(Rank - 1)
  <1>1. IInv' /\ TypeOK /\ TypeOK'
    BY StepIInv DEF IInv
  <1>2. /\ Place \in 0..14 /\ Place' \in 0..14
        /\ pc # "idle" => Place >= 1
        /\ pc' = "idle" => Place' <= 9
    BY <1>1, PlaceFacts
  <1>3. /\ Left \in Nat /\ Left' \in Nat
        /\ Rounds(db') = Rounds(db) /\ crashes' = crashes => Left' = Left
        /\ /\ crashes' = crashes
           /\ db'.collect_rounds + db'.followup_rounds + db'.writing_rounds
                = db.collect_rounds + db.followup_rounds + db.writing_rounds + 1
           => Left' = Left - 1
        /\ Rounds(db') = Rounds(db) /\ crashes' = crashes + 1 => Left' = Left - 1
    BY <1>1, LeftFacts
  <1>4. SUFFICES \/ Left' = Left /\ Place' < Place
                 \/ Left' = Left - 1 /\ Place' < Place + 14
    <2>1. Rank = 14 * Left + Place /\ Rank' = 14 * Left' + Place'
      BY DEF Rank
    <2>2. /\ Left' = Left /\ Place' < Place => Rank' \in 0..(Rank - 1)
          /\ Left' = Left - 1 /\ Place' < Place + 14 => Rank' \in 0..(Rank - 1)
      BY <1>2, <1>3, <2>1, RankArithmetic
    <2> QED
      BY <2>2
  <1>5. db \in RunStates /\ db' \in RunStates
    BY <1>1 DEF TypeOK
  <1>6. CASE Invoke
    <2>1. Left' = Left
      BY <1>3, <1>6, InvocationStep DEF Invoke, Start, Resume, ResumeInVain
    <2>2. CASE Start
      <3>1. Place' = 2
        BY <2>2 DEF Start, Persist, Enter, Place, IInv, TypeOK, RunStates
      <3>2. Place \in {9, 3}
        BY <2>2 DEF Start, Place, Resting
      <3> QED
        BY <1>2, <2>1, <3>1, <3>2
    <2>3. CASE Resume
      BY <1>2, <2>1, <2>3
      DEF Resume, Enter, Place, Resting, CollectPhases, WritingPhases
    <2>4. CASE ResumeInVain
      BY <2>4 DEF ResumeInVain, Return
    <2> QED
      BY <1>6, <2>2, <2>3, <2>4 DEF Invoke
  <1>7. CASE Crash
    <2>1. Left' = Left - 1
      BY <1>3, <1>7, InvocationStep DEF Crash
    <2> QED
      BY <1>2, <1>7, <2>1 DEF Crash, Return
  <1>8. CASE TransitionFollowup \/ StartCollectRound
    <2>1. Place' = 7 /\ crashes' = crashes
      BY <1>8, SweepStep DEF Place, TransitionFollowup, StartCollectRound
    <2>2. \/ Left' = Left /\ Place = 8
          \/ Left' = Left - 1
      BY <1>3, <1>5, <1>8, <2>1, SweepStep DEF Place, Rounds, RunStates
    <2> QED
      BY <1>2, <2>1, <2>2
  <1>9. CASE CollectExhausted \/ CollectGate
    <2>1. crashes' = crashes
      BY <1>9 DEF CollectExhausted, CollectGate
    <2>2. CASE db'.phase = "followup"
      <3>1. Left' = Left - 1
        BY <1>3, <1>5, <1>9, <2>1, <2>2, CollectGateStep DEF RunStates
      <3>2. Place' <= 9
        BY <1>9, CollectGateStep, <1>2 DEF Place
      <3> QED
        BY <1>2, <3>1, <3>2
    <2>3. CASE db'.phase # "followup"
      <3>1. Left' = Left
        BY <1>3, <1>5, <1>9, <2>1, <2>3, CollectGateStep DEF Rounds
      <3>2. Place = IF pc = "collect_gate" THEN 3 ELSE 2
        BY <1>9, CollectGateStep DEF Place
      <3>3. /\ pc' = "idle" => Place' = 0
            /\ pc' = "writing_top" => Place' = 1
            /\ pc' = "collect_top" => Place' = 2 /\ Place = 3
        BY <1>9, <2>3, <3>2, CollectGateStep DEF Place, Resting
      <3> QED
        BY <1>9, <3>1, <3>2, <3>3, CollectGateStep
    <2> QED
      BY <2>2, <2>3
  <1>10. CASE StartWritingRound
    <2>1. Left' = Left - 1
      BY <1>3, <1>5, <1>10, WritingRoundStep DEF StartWritingRound, RunStates
    <2> QED
      BY <1>2, <1>10, <2>1, WritingRoundStep DEF Place
  <1>11. CASE WritingExhausted \/ WritingGate
    <2>1. Left' = Left
      BY <1>3, <1>11, WritingGateStep DEF WritingExhausted, WritingGate
    <2>2. Place = IF pc = "writing_gate" THEN 12 ELSE 1
      BY <1>11, WritingGateStep DEF Place
    <2>3. \/ pc' = "idle" /\ Place' = 0
          \/ pc = "writing_gate" /\ pc' = "idle" /\ Place' <= 9
          \/ pc = "writing_gate" /\ Place' \in {1, 10, 11}
      <3>1. CASE pc' = "idle"
        BY <1>2, <1>5, <1>11, <3>1, WritingGateStep DEF Place, Resting
      <3>2. CASE pc' # "idle"
        BY <1>11, <3>2, WritingGateStep DEF Place
      <3> QED
        BY <3>1, <3>2
    <2> QED
      BY <1>2, <1>11, <2>1, <2>2, <2>3, WritingGateStep
  <1>12. CASE PhaseTasks
    <2>1. Left' = Left
      BY <1>3, <1>12, TasksStep DEF PhaseTasks
    <2> QED
      BY <1>12, <2>1, TasksShrink
  <1>13. CASE PhaseRaises \/ Unloadable
    <2>1. Left' = Left
      BY <1>3, <1>13, RaisingStep
    <2>2. CASE db'.status = "failed" \/ ~Valid(db')
      <3>1. Place' = 0
        BY <1>13, <2>2, RaisingStep DEF Place, Resting, Valid
      <3> QED
        BY <1>2, <1>13, <2>1, <3>1, RaisingStep
    <2>3. CASE db'.status # "failed" /\ Valid(db')
      <3>1. pc \in Working /\ db'.phase # "followup" /\ pc' = "idle"
        BY <1>13, <2>3, RaisingStep
      <3>2. Place >= 4
        BY <3>1 DEF Place, Working
      <3>3. Place' <= 3
        BY <3>1 DEF Place, Resting
      <3> QED
        BY <1>2, <2>1, <3>2, <3>3
    <2> QED
      BY <2>2, <2>3
  <1> QED
    BY <1>6, <1>7, <1>8, <1>9, <1>10, <1>11, <1>12, <1>13 DEF Next, Step

\* The rank is a number that every step of the harness lowers.
THEOREM StepsAreBounded == Spec => Shrinks
  <1>1. IInv /\ CInv /\ [Next]_vars =>
          [pc' # pc \/ db' # db => Rank' \in 0..(Rank - 1)]_vars
    BY RankShrinks
  <1> QED
    BY <1>1, Invariance, Copies, PTL DEF Spec, Shrinks
=============================================================================
