--------------------------- MODULE TraceSequence ---------------------------
(***************************************************************************)
(* The scouts of one sweep and the sequence numbers of the trace:          *)
(* CollectLoopHarness._execute_scout_tasks_parallel (collect.py), what     *)
(* each scout's AgentRunner.run does to the trace, and                     *)
(* TraceService.record_event with the lock of its run (tracing.py).        *)
(*                                                                         *)
(* On PostgreSQL each scout has a thread and a database session of its     *)
(* own, committed when the scout has ended.  On SQLite, and with           *)
(* parallelize_scouts off, the scouts run one after the other on the main  *)
(* session.  An event is recorded in three steps: take the process's lock  *)
(* for the run, read the highest sequence number the session can see,      *)
(* insert the event with the next one.  The unique index on (run_id, seq)  *)
(* makes an insert wait for another open transaction that holds the same   *)
(* number, and fail once that transaction has committed.                   *)
(***************************************************************************)
EXTENDS Integers, FiniteSets

CONSTANTS
  Scouts,           \* the scouting tasks of the sweep
  ContinueOnError,  \* HarnessConfig.continue_on_scout_agent_error
  Before,           \* events of the run when the sweep starts
  MaxEvents         \* bound: events one scout records

ASSUME TraceAssumption ==
  /\ ContinueOnError \in BOOLEAN
  /\ IsFiniteSet(Scouts) /\ "main" \notin Scouts /\ "free" \notin Scouts
  /\ Before \in Nat /\ MaxEvents \in Nat \ {0, 1}

VARIABLES
  parallel,   \* a thread per scout, or one scout after the other
  pc,         \* where each scout is
  events,     \* how many events each scout has recorded
  seq,        \* the number each scout is about to insert
  rows,       \* the numbers each open transaction has inserted
  committed,  \* the numbers in the database
  lock,       \* the scout that holds the sequence lock of the run, or "free"
  main        \* "sweeping", then "swept" or "raised"

vars == <<parallel, pc, events, seq, rows, committed, lock, main>>

Sessions == Scouts \union {"main"}

SessionOf(s) == IF parallel THEN s ELSE "main"

Ended == {"done", "skipped", "raised"}

TypeOK ==
  /\ parallel \in BOOLEAN
  /\ pc \in [Scouts -> {"ready", "reading", "inserting"} \union Ended]
  /\ events \in [Scouts -> 0..MaxEvents]
  /\ seq \in [Scouts -> Nat]
  /\ rows \in [Sessions -> SUBSET Nat]
  /\ committed \in SUBSET Nat
  /\ lock \in Scouts \union {"free"}
  /\ main \in {"sweeping", "swept", "raised"}

\* The main session has committed before the scouts start.
Init ==
  /\ parallel \in BOOLEAN
  /\ pc = [s \in Scouts |-> "ready"]
  /\ events = [s \in Scouts |-> 0]
  /\ seq = [s \in Scouts |-> 0]
  /\ rows = [t \in Sessions |-> {}]
  /\ committed = 0..(Before - 1)
  /\ lock = "free"
  /\ main = "sweeping"

\* The number after the highest one in S.
NextSeq(S) ==
  IF S = {} THEN 0 ELSE 1 + (CHOOSE n \in S : \A m \in S : m <= n)

-----------------------------------------------------------------------------
(* One event of a scout *)

\* In serial mode a scout starts when the scouts before it have ended, and
\* none starts after one has raised.
Turn(s) ==
  parallel \/ \A t \in Scouts \ {s} :
                \/ events[t] = 0 /\ pc[t] = "ready"
                \/ pc[t] \in {"done", "skipped"}

Acquire(s) ==
  /\ pc[s] = "ready" /\ events[s] < MaxEvents /\ Turn(s)
  /\ lock = "free"
  /\ lock' = s
  /\ pc' = [pc EXCEPT ![s] = "reading"]
  /\ UNCHANGED <<parallel, events, seq, rows, committed, main>>

\* Faulty variant: the numbers come from one counter of the database that all
\* transactions see.
ReadCounter(s) ==
  /\ pc[s] = "reading"
  /\ seq' = [seq EXCEPT ![s] = NextSeq(committed \union UNION {rows[t] : t \in Sessions})]
  /\ pc' = [pc EXCEPT ![s] = "inserting"]
  /\ UNCHANGED <<parallel, events, rows, committed, lock, main>>

\* A transaction sees what is committed and what it inserted itself.
Read(s) ==
  /\ pc[s] = "reading"
  /\ seq' = [seq EXCEPT ![s] = NextSeq(committed \union rows[SessionOf(s)])]
  /\ pc' = [pc EXCEPT ![s] = "inserting"]
  /\ UNCHANGED <<parallel, events, rows, committed, lock, main>>

\* Another open transaction holds the number.
Blocked(s) == \E t \in Sessions \ {SessionOf(s)} : seq[s] \in rows[t]

\* Faulty variants: no unique index; the lock is not released.
InsertUnconstrained(s) ==
  /\ pc[s] = "inserting"
  /\ rows' = [rows EXCEPT ![SessionOf(s)] = @ \union {seq[s]}]
  /\ events' = [events EXCEPT ![s] = @ + 1]
  /\ pc' = [pc EXCEPT ![s] = "ready"] /\ lock' = "free"
  /\ UNCHANGED <<parallel, seq, committed, main>>

InsertKeepsLock(s) ==
  /\ pc[s] = "inserting" /\ seq[s] \notin committed /\ ~Blocked(s)
  /\ rows' = [rows EXCEPT ![SessionOf(s)] = @ \union {seq[s]}]
  /\ events' = [events EXCEPT ![s] = @ + 1]
  /\ pc' = [pc EXCEPT ![s] = "ready"]
  /\ UNCHANGED <<parallel, seq, committed, lock, main>>

Insert(s) ==
  /\ pc[s] = "inserting"
  /\ seq[s] \notin committed /\ ~Blocked(s)
  /\ rows' = [rows EXCEPT ![SessionOf(s)] = @ \union {seq[s]}]
  /\ events' = [events EXCEPT ![s] = @ + 1]
  /\ pc' = [pc EXCEPT ![s] = "ready"]
  /\ lock' = "free"
  /\ UNCHANGED <<parallel, seq, committed, main>>

\* The number is taken: the transaction is rolled back, and the error ends the
\* scout, and with it the sweep.  The first event is recorded outside of
\* AgentRunner's exception handler; a later one (CollisionFollowsFinish says there
\* is none) would reach it, and the failure it records in turn would be refused
\* by the broken session.
Collide(s) ==
  /\ pc[s] = "inserting"
  /\ seq[s] \in committed
  /\ rows' = [rows EXCEPT ![SessionOf(s)] = {}]
  /\ pc' = [pc EXCEPT ![s] = "raised"]
  /\ lock' = "free"
  /\ UNCHANGED <<parallel, events, seq, committed, main>>

-----------------------------------------------------------------------------
(* The end of a scout, after a first and a last event at least *)

Succeed(s) ==
  /\ pc[s] = "ready" /\ events[s] >= 2
  /\ pc' = [pc EXCEPT ![s] = "done"]
  /\ IF parallel
     THEN /\ committed' = committed \union rows[s]
          /\ rows' = [rows EXCEPT ![s] = {}]
     ELSE UNCHANGED <<rows, committed>>
  /\ UNCHANGED <<parallel, events, seq, lock, main>>

\* An AgentScope error.  A parallel scout is rolled back with all its events;
\* a serial one is followed by an event that says it was skipped, and a commit.
FailAgent(s) ==
  /\ pc[s] = "ready" /\ events[s] >= 2
  /\ pc' = [pc EXCEPT ![s] = IF ContinueOnError THEN "skipped" ELSE "raised"]
  /\ IF parallel
     THEN rows' = [rows EXCEPT ![s] = {}] /\ UNCHANGED committed
     ELSE IF ContinueOnError
     THEN LET seen == committed \union rows["main"]
          IN  /\ committed' = seen \union {NextSeq(seen)}
              /\ rows' = [rows EXCEPT !["main"] = {}]
     ELSE UNCHANGED <<rows, committed>>
  /\ UNCHANGED <<parallel, events, seq, lock, main>>

Raised == \E s \in Scouts : pc[s] = "raised"

\* The thread pool waits for all its threads, also when one has raised.
ScoutsEnded ==
  \/ \A s \in Scouts : pc[s] \in Ended
  \/ ~parallel /\ Raised

\* What the main session adds: the failure of the run, or an event for every
\* parallel scout it skips and the completion of the phase.
Finish ==
  /\ main = "sweeping" /\ ScoutsEnded
  /\ main' = IF Raised THEN "raised" ELSE "swept"
  /\ LET seen == committed \union rows["main"]
         skips == IF parallel /\ ~Raised
                  THEN Cardinality({s \in Scouts : pc[s] = "skipped"}) ELSE 0
     IN  committed' = seen \union NextSeq(seen)..(NextSeq(seen) + skips)
  /\ rows' = [rows EXCEPT !["main"] = {}]
  /\ UNCHANGED <<parallel, pc, events, seq, lock>>

ScoutStep(s) == \/ Acquire(s) \/ Read(s) \/ Insert(s) \/ Collide(s)
                \/ Succeed(s) \/ FailAgent(s)

Next == Finish \/ \E s \in Scouts : ScoutStep(s)

Spec == Init /\ [][Next]_vars

\* A thread that can go on does; agents are bounded by their timeouts.
FairSpec == Spec /\ WF_vars(Finish) /\ \A s \in Scouts : WF_vars(ScoutStep(s))

-----------------------------------------------------------------------------
(* Safety *)

\* At most one open transaction holds events of the run: the unique index and
\* the lock together make the scouts' transactions exclude each other.
OneWriter ==
  \A t, u \in Sessions : rows[t] # {} /\ rows[u] # {} => t = u

\* The committed timeline has no gap, whatever was rolled back.
Gapless == \E n \in 0..(1 + Cardinality(committed)) : committed = 0..(n - 1)

\* A number is taken from under a scout only by a scout that has finished, and
\* before its own first event.  The collision is no AgentScope error: it fails the
\* sweep, so that what it costs is the work of others.  The result of the scout
\* that finished is not materialized, although what it recorded is committed.
CollisionFollowsFinish ==
  \A s \in Scouts : pc[s] = "inserting" /\ seq[s] \in committed =>
    events[s] = 0 /\ \E t \in Scouts : pc[t] = "done"

\* Every commit leaves the timeline without a gap and adds events behind those
\* committed before: a reader never finds one inserted before what it has read.
TimelineGrows ==
  [][/\ Gapless' /\ committed \subseteq committed'
     /\ \A new \in committed' \ committed, old \in committed : old < new]_vars

(* Liveness *)

\* A sweep of scouts that run one after the other ends, whichever of them fail.
SerialSweepEnds == ~parallel => <>(main # "sweeping")

(* What the documentation says and a run refutes *)

\* docs: the scouts of a parallel sweep run isolated, so the sweep ends.
SweepEnds == <>(main # "sweeping")
=============================================================================
