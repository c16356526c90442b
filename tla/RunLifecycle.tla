---------------------------- MODULE RunLifecycle ----------------------------
(***************************************************************************)
(* What the harness promises about one daily run, without phases, tasks,   *)
(* reports or memory: a run collects, writes, may be sent back to collect, *)
(* and is settled once and for all.  Every cycle of it is paid for from a  *)
(* budget that is never refilled, which is why a run cannot loop for ever. *)
(***************************************************************************)
EXTENDS Naturals

\* All three are natural numbers.
CONSTANTS Collects,   \* collect rounds a run may start
          Followups,  \* follow-up rounds a run may be granted
          Writings    \* writing rounds a run may start

VARIABLES stage,      \* where the run is
          collects, followups, writings  \* rounds spent

vars == <<stage, collects, followups, writings>>

Settled == {"completed", "paused", "failed"}

TypeOK ==
  /\ stage \in {"scheduled", "collecting", "writing"} \union Settled
  /\ collects \in 0..Collects
  /\ followups \in 0..Followups
  /\ writings \in 0..Writings

Init == stage = "scheduled" /\ collects = 0 /\ followups = 0 /\ writings = 0

Begin ==
  /\ stage = "scheduled"
  /\ stage' = "collecting"
  /\ UNCHANGED <<collects, followups, writings>>

CollectRound ==
  /\ stage = "collecting" /\ collects < Collects
  /\ collects' = collects + 1
  /\ UNCHANGED <<stage, followups, writings>>

GrantFollowup ==
  /\ stage = "collecting" /\ followups < Followups
  /\ followups' = followups + 1
  /\ UNCHANGED <<stage, collects, writings>>

\* Nothing is written before something was collected.
BeginWriting ==
  /\ stage = "collecting" /\ collects > 0
  /\ stage' = "writing"
  /\ UNCHANGED <<collects, followups, writings>>

WritingRound ==
  /\ stage = "writing" /\ writings < Writings
  /\ writings' = writings + 1
  /\ UNCHANGED <<stage, collects, followups>>

\* Collection is reopened only while a collect round is left, and only out of
\* a writing round.
Reopen ==
  /\ stage = "writing" /\ writings > 0 /\ collects < Collects
  /\ stage' = "collecting"
  /\ UNCHANGED <<collects, followups, writings>>

Complete ==
  /\ stage = "writing" /\ writings > 0
  /\ stage' = "completed"
  /\ UNCHANGED <<collects, followups, writings>>

\* A person must look at the run, or it failed.
Stop ==
  /\ stage \in {"collecting", "writing"}
  /\ stage' \in {"paused", "failed"}
  /\ UNCHANGED <<collects, followups, writings>>

Next == \/ Begin \/ CollectRound \/ GrantFollowup \/ BeginWriting
        \/ WritingRound \/ Reopen \/ Complete \/ Stop

Spec == Init /\ [][Next]_vars
=============================================================================
