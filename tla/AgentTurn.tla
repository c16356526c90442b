------------------------------ MODULE AgentTurn ------------------------------
(***************************************************************************)
(* One agent turn: AgentRunner.run_async (agents/runner.py), the bridge    *)
(* that runs its tools (agents/agentscope_tools.py) and ToolExecutor       *)
(* (tools/executor.py).                                                    *)
(*                                                                         *)
(* Two threads share the turn's database session.  "main" runs the event   *)
(* loop: it awaits the agent's replies under a timeout, parses them, has   *)
(* them repaired or replaced, and records the turn.  "tool" is the         *)
(* bridge's only worker: it holds the execution lock of the bridge from    *)
(* the budget check to the stored result.  A timeout cancels the reply     *)
(* but not a tool that has started.                                        *)
(*                                                                         *)
(* The agent and its model are external: a reply may call a tool, end with *)
(* any text, hit its iteration limit, raise, or never end.                 *)
(***************************************************************************)
EXTENDS Integers, Sequences, FiniteSets

CONSTANTS
  MaxToolCalls,  \* AgentExecutionConfig.max_tool_calls of a scout
  MaxRequests    \* bound: tool calls the agent asks for in one turn

ASSUME TurnAssumption == MaxToolCalls \in Nat /\ MaxRequests \in Nat

\* What tells the roles apart: a scout has tools; a composer (clusterer,
\* writer, editor) has a deterministic fallback; a judge has neither.
Roles == {"scout", "composer", "judge"}

Threads == {"main", "tool"}

\* Session work outside the sequence lock of the run: storing the request,
\* the response and the tool call; looking up the URLs of the run; adding
\* evidence; a flush.
Plain == {"store", "urls", "rows", "flush"}

\* Trace events, inserted under that lock.
Events == {"started", "call", "dedup", "evidence", "rejected", "limit",
           "finalized", "fallback", "repairing", "repaired", "error", "completed"}

VARIABLES
  role,      \* the role of the agent
  main,      \* where run_async is
  tool,      \* what the worker does
  pending,   \* the session work each thread has to do before it goes on
  inside,    \* the threads that are doing session work
  broken,    \* the session was used by two threads at once, and an error came of it
  trace,     \* the events recorded
  requests,  \* how many tool calls the agent has asked for
  results,   \* the length of executed_results
  returned,  \* the length of AgentRunResult.tool_results
  outcome    \* "none", then "returned" or "raised"

vars == <<role, main, tool, pending, inside, broken, trace, requests, results,
          returned, outcome>>

Replies == {"replying", "finalizing", "repairing"}

TypeOK ==
  /\ role \in Roles
  /\ main \in Replies \union
       {"parsing", "reparsing", "fallen", "timedout", "late", "failing",
        "raising", "completing", "returning", "closing", "over"}
  /\ tool \in {"idle", "queued", "fetching", "persisting", "rejecting"}
  /\ pending \in [Threads -> Seq(Events \union Plain)]
  /\ inside \in SUBSET Threads
  /\ broken \in BOOLEAN
  /\ trace \in Seq(Events)
  /\ requests \in 0..MaxRequests
  /\ results \in 0..MaxToolCalls /\ returned \in 0..MaxToolCalls
  /\ outcome \in {"none", "returned", "raised"}

Init ==
  /\ role \in Roles
  /\ main = "replying" /\ tool = "idle"
  /\ pending = [t \in Threads |-> IF t = "main" THEN <<"started">> ELSE <<>>]
  /\ inside = {} /\ broken = FALSE /\ trace = <<>>
  /\ requests = 0 /\ results = 0 /\ returned = 0
  /\ outcome = "none"

-----------------------------------------------------------------------------
(* Session work *)

SequenceLockFree == \A t \in inside : Head(pending[t]) \notin Events

Enter(t) ==
  /\ pending[t] # <<>> /\ t \notin inside
  /\ Head(pending[t]) \in Events => SequenceLockFree
  /\ inside' = inside \union {t}
  /\ UNCHANGED <<role, main, tool, pending, broken, trace, requests, results,
                 returned, outcome>>

Leave(t) ==
  /\ t \in inside
  /\ inside' = inside \ {t}
  /\ pending' = [pending EXCEPT ![t] = Tail(@)]
  /\ trace' = IF Head(pending[t]) \in Events
              THEN Append(trace, Head(pending[t])) ELSE trace
  /\ UNCHANGED <<role, main, tool, broken, requests, results, returned, outcome>>

\* A session is not made for two threads: while both are in it, or after that
\* has broken it, its work may raise.  The error leaves the handler of the
\* timeout, or leaves execute() before its result is stored.
Abort(t) ==
  /\ t \in inside
  /\ broken \/ inside = Threads
  /\ broken' = TRUE
  /\ inside' = inside \ {t}
  /\ pending' = [pending EXCEPT ![t] = <<>>]
  /\ \/ /\ t = "main"
        /\ main' = "closing" /\ outcome' = "raised"
        /\ UNCHANGED tool
     \/ /\ t = "tool"
        /\ tool' = "idle"
        /\ UNCHANGED <<main, outcome>>
  /\ UNCHANGED <<role, trace, requests, results, returned>>

-----------------------------------------------------------------------------
(* The worker *)

\* execute_connor_tool_sync holds the lock while it runs a tool.
ExecutionLockFree == tool \in {"idle", "queued"}

\* Faulty variant: one call too many.
StartToolOffByOne ==
  /\ tool = "queued" /\ results <= MaxToolCalls
  /\ tool' = "fetching"
  /\ UNCHANGED <<role, main, pending, inside, broken, trace, requests, results,
                 returned, outcome>>

StartTool ==
  /\ tool = "queued" /\ results < MaxToolCalls
  /\ tool' = "fetching"
  /\ UNCHANGED <<role, main, pending, inside, broken, trace, requests, results,
                 returned, outcome>>

RejectTool ==
  /\ tool = "queued" /\ results >= MaxToolCalls
  /\ tool' = "rejecting"
  /\ pending' = [pending EXCEPT !["tool"] = <<"rejected", "flush">>]
  /\ UNCHANGED <<role, main, inside, broken, trace, requests, results, returned,
                 outcome>>

\* What a call leaves to store: its record and event, also when it failed;
\* then, for the items it found, an event for those whose URL the run has
\* already, and the evidence and an event for the others.
Work == { <<"store", "call", "urls">>,
          <<"store", "call", "urls", "dedup">>,
          <<"store", "call", "urls", "rows", "evidence">>,
          <<"store", "call", "urls", "dedup", "rows", "evidence">> }

FetchEnds ==
  /\ tool = "fetching"
  /\ tool' = "persisting"
  /\ \E work \in Work : pending' = [pending EXCEPT !["tool"] = work]
  /\ UNCHANGED <<role, main, inside, broken, trace, requests, results, returned,
                 outcome>>

\* A request that may not be stored (its parameters have a forbidden key) is
\* refused after the tool ran: execute() raises and nothing is recorded.
FetchRefused ==
  /\ tool = "fetching"
  /\ tool' = "idle"
  /\ UNCHANGED <<role, main, pending, inside, broken, trace, requests, results,
                 returned, outcome>>

ToolWorked == tool \in {"persisting", "rejecting"} /\ pending["tool"] = <<>>

\* Faulty variant: a result without evidence is not kept.
ToolEndsWithEvidence ==
  /\ ToolWorked
  /\ results' = IF tool = "persisting" /\ trace[Len(trace)] = "evidence"
                THEN results + 1 ELSE results
  /\ tool' = "idle"
  /\ UNCHANGED <<role, main, pending, inside, broken, trace, requests, returned,
                 outcome>>

ToolEnds ==
  /\ ToolWorked
  /\ results' = IF tool = "persisting" THEN results + 1 ELSE results
  /\ tool' = "idle"
  /\ UNCHANGED <<role, main, pending, inside, broken, trace, requests, returned,
                 outcome>>

-----------------------------------------------------------------------------
(* Replies *)

At(place) == main = place /\ pending["main"] = <<>>

\* run_async goes on at a place, with session work to do there first.
Goto(place, work) ==
  /\ main' = place
  /\ pending' = [pending EXCEPT !["main"] = work]
  /\ UNCHANGED <<role, inside, broken, trace, requests, results, returned>>

\* Tools are not concurrency-safe, so the agent awaits one before the next.
CallTool ==
  /\ At("replying") /\ role = "scout" /\ tool = "idle"
  /\ requests < MaxRequests
  /\ requests' = requests + 1
  /\ tool' = "queued"
  /\ UNCHANGED <<role, main, pending, inside, broken, trace, results, returned,
                 outcome>>

\* An agent ends its reply when no tool of it is running; one with text goes
\* to the parser.
Answer ==
  /\ \/ At("replying") /\ tool = "idle" /\ Goto("parsing", <<>>)
     \/ At("finalizing") /\ Goto("parsing", <<"finalized">>)
     \/ At("repairing") /\ Goto("reparsing", <<"repaired">>)
  /\ UNCHANGED <<tool, outcome>>

\* At its iteration limit a scout's output is made from the evidence it has;
\* another agent is asked to answer without tools.
ReactLimit ==
  /\ At("replying") /\ tool = "idle"
  /\ IF role = "scout" THEN Goto("parsing", <<"fallback">>)
                       ELSE Goto("finalizing", <<"limit">>)
  /\ UNCHANGED <<tool, outcome>>

ReplyRaises ==
  /\ \E place \in Replies : At(place)
  /\ tool = "idle"
  /\ Goto("failing", <<"error", "flush">>)
  /\ UNCHANGED <<tool, outcome>>

\* Faulty variants: the repair is awaited without a timeout; the timeout is
\* not recorded.
TimeoutOfFirstReply ==
  /\ At("replying")
  /\ Goto("timedout", <<"error">>)
  /\ tool' = IF tool = "queued" THEN "idle" ELSE tool
  /\ UNCHANGED outcome

TimeoutUnrecorded ==
  /\ \E place \in Replies : At(place)
  /\ Goto("timedout", <<>>)
  /\ tool' = IF tool = "queued" THEN "idle" ELSE tool
  /\ UNCHANGED outcome

\* Each reply has a timeout of its own.  It cancels the call of a tool the
\* worker has not started.
Timeout ==
  /\ \E place \in Replies : At(place)
  /\ Goto("timedout", <<"error">>)
  /\ tool' = IF tool = "queued" THEN "idle" ELSE tool
  /\ UNCHANGED outcome

-----------------------------------------------------------------------------
(* Output *)

\* Faulty variant: scouts get a fallback, too.
HasFallbackOfScouts == role \in {"composer", "scout"}

\* Whether _deterministic_structured_fallback may have a payload: that also
\* depends on the context of the request.
HasFallback == role = "composer"

Accept ==
  /\ \E place \in {"parsing", "reparsing", "fallen", "late"} : At(place)
  /\ Goto("completing", <<>>)
  /\ UNCHANGED <<tool, outcome>>

\* A text that does not validate is repaired once, then replaced or given up.
Repair ==
  /\ At("parsing") /\ ExecutionLockFree
  /\ Goto("repairing", <<"repairing">>)
  /\ UNCHANGED <<tool, outcome>>

FallBack ==
  /\ HasFallback
  /\ \/ At("reparsing") /\ Goto("fallen", <<"fallback">>)
     \/ At("timedout") /\ Goto("late", <<"fallback">>)
  /\ UNCHANGED <<tool, outcome>>

GiveUp ==
  /\ \/ (At("reparsing") \/ At("fallen")) /\ Goto("failing", <<"error", "flush">>)
     \/ At("timedout") /\ Goto("raising", <<"flush">>)
  /\ UNCHANGED <<tool, outcome>>

\* A fallback that does not validate in the handler of the timeout leaves it.
Raise ==
  /\ At("failing") \/ At("raising") \/ At("late")
  /\ Goto("closing", <<>>)
  /\ outcome' = "raised"
  /\ UNCHANGED tool

\* The event tells the number of results, which is read under the lock.
Complete ==
  /\ At("completing") /\ ExecutionLockFree
  /\ Goto("returning", <<"completed">>)
  /\ UNCHANGED <<tool, outcome>>

Return ==
  /\ At("returning") /\ ExecutionLockFree
  /\ main' = "closing"
  /\ returned' = results
  /\ outcome' = "returned"
  /\ UNCHANGED <<role, tool, pending, inside, broken, trace, requests, results>>

\* Faulty variant: the worker is not waited for.
CloseAtOnce ==
  /\ At("closing")
  /\ Goto("over", <<>>)
  /\ UNCHANGED <<tool, outcome>>

\* aclose() waits until the worker is done with what it runs.
Close ==
  /\ At("closing") /\ tool = "idle"
  /\ Goto("over", <<>>)
  /\ UNCHANGED <<tool, outcome>>

-----------------------------------------------------------------------------
SessionStep(t) == Enter(t) \/ Leave(t) \/ Abort(t)

ToolStep == \/ StartTool \/ RejectTool \/ FetchEnds \/ FetchRefused \/ ToolEnds
            \/ SessionStep("tool")

AgentStep == CallTool \/ Answer \/ ReactLimit \/ ReplyRaises

MainStep == \/ Timeout \/ Accept \/ Repair \/ FallBack \/ GiveUp \/ Raise
            \/ Complete \/ Return \/ Close
            \/ SessionStep("main")

Next == ToolStep \/ AgentStep \/ MainStep

Spec == Init /\ [][Next]_vars

\* Nothing is assumed of the agent: it may never answer.  A source tool ends
\* (its requests have timeouts), the worker goes on, and timers fire.
FairSpec == Spec /\ WF_vars(ToolStep) /\ WF_vars(MainStep)

-----------------------------------------------------------------------------
(* Safety *)

Has(events, event) == \E i \in 1..Len(events) : events[i] = event

Calls == Cardinality({i \in 1..Len(trace) : trace[i] = "call"})

\* A tool runs, or its call is not yet recorded.
CallToRecord == tool = "fetching" \/ Has(pending["tool"], "call")

\* The budget: no more tool calls are recorded, or about to be, than allowed,
\* however late a call ends.
ToolBudget == Calls + (IF CallToRecord THEN 1 ELSE 0) <= MaxToolCalls

\* The event loop never waits for the execution lock: wherever run_async reads
\* the results of the tools, none is running.  (Waiting there would also stop
\* the timers of the loop.)
LoopNeverBlocks ==
  main \notin {"replying", "timedout", "raising", "closing"} => ExecutionLockFree

\* The result of a turn has every tool call of the turn, also when its output
\* was repaired or replaced.
ResultsComplete == outcome = "returned" => returned = Calls

\* A turn that returns is completed in the trace, as its last event; one that
\* raises has an error and no completion there, unless the session broke.
TurnIsTraced ==
  /\ outcome = "returned" => trace[Len(trace)] = "completed"
  /\ outcome = "raised" => /\ ~Has(trace, "completed")
                           /\ broken \/ Has(trace, "error")

\* Nothing is recorded on the session once the harness has it back.
QuietAfterTurn == [][main = "over" => UNCHANGED <<trace, results, inside>>]_vars

(* Liveness *)

\* The turn ends, whatever the agent does.
TurnEnds == <>(main = "over")

(* What the documentation says and a run refutes *)

\* docs: one worker thread preserves the sequential use of the database: the
\* two threads are never in the session at the same time.
OneThreadInSession == inside # Threads
=============================================================================
