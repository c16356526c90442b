-------------------------- MODULE AgentTurn_proofs --------------------------
(***************************************************************************)
(* Theorems about AgentTurn, for every budget of tool calls and every      *)
(* number of calls an agent asks for.  The inductive invariant has three   *)
(* parts: where a tool may still run while run_async is at a given place   *)
(* (Placed), what is recorded or about to be (Told), and how the recorded  *)
(* calls relate to the results the bridge keeps (Counted).  The last part  *)
(* is about what makes a turn end.                                         *)
(***************************************************************************)
EXTENDS AgentTurn, TLAPS, FiniteSetTheorems

\* Where run_async does not wait for a tool to end, or does so in Close.
MayRun == {"replying", "timedout", "raising", "closing"}

ToolEvents == {"call", "dedup", "evidence", "rejected"}

Placed ==
  /\ main \notin MayRun => tool = "idle"
  /\ role # "scout" => tool = "idle"
  /\ tool = "queued" => main = "replying"
  /\ main = "replying" /\ tool # "idle" => pending["main"] = <<>>
  /\ main \in {"closing", "over"} => pending["main"] = <<>>
  /\ main \in {"closing", "over"} <=> outcome # "none"
  /\ tool \in {"idle", "queued", "fetching"} => pending["tool"] = <<>>
  /\ tool \in {"fetching", "persisting"} => results < MaxToolCalls
  /\ pending["tool"] \in Seq(ToolEvents \union Plain)
  /\ \A t \in inside : pending[t] # <<>>
  /\ outcome = "returned" => tool = "idle"
  /\ broken => /\ role = "scout" /\ outcome # "returned"
               /\ main \in {"timedout", "raising", "closing", "over"}

EndsCompleted == trace # <<>> /\ trace[Len(trace)] = "completed"

Told ==
  /\ main \in {"failing", "timedout", "raising", "late"} =>
       Has(trace, "error") \/ Has(pending["main"], "error")
  /\ outcome = "raised" => broken \/ Has(trace, "error")
  /\ main # "returning" /\ outcome # "returned" =>
       ~Has(trace, "completed") /\ ~Has(pending["main"], "completed")
  /\ main = "returning" =>
       pending["main"] = <<"completed">> \/ (pending["main"] = <<>> /\ EndsCompleted)
  /\ outcome = "returned" => EndsCompleted
  /\ ~Has(pending["main"], "call")

Counted ==
  /\ tool # "persisting" => ~Has(pending["tool"], "call")
  /\ \A i, j \in 1..Len(pending["tool"]) :
       pending["tool"][i] = "call" /\ pending["tool"][j] = "call" => i = j
  /\ ~broken => Calls = results + (IF tool = "persisting" /\ ~Has(pending["tool"], "call")
                                   THEN 1 ELSE 0)
  /\ ToolBudget
  /\ ResultsComplete

IInv == TypeOK /\ Placed /\ Told /\ Counted

-----------------------------------------------------------------------------
(* Sequences of events *)

\* The calls of a trace are finitely many; an event more is a call more if it
\* is one.
LEMMA CallsOfAppend ==
  ASSUME NEW s \in Seq(Events), NEW e \in Events
  PROVE  LET C(q) == Cardinality({i \in 1..Len(q) : q[i] = "call"})
         IN  /\ C(s) \in Nat
             /\ C(Append(s, e)) = C(s) + (IF e = "call" THEN 1 ELSE 0)
<1> DEFINE n == Len(s)
           S == {i \in 1..n : s[i] = "call"}
           q == Append(s, e)
           T == {i \in 1..Len(q) : q[i] = "call"}
<1>1. n \in Nat /\ Len(q) = n + 1 /\ q[n + 1] = e /\ \A i \in 1..n : q[i] = s[i]
  OBVIOUS
<1>2. IsFiniteSet(S) /\ Cardinality(S) \in Nat /\ n + 1 \notin S
  <2>1. IsFiniteSet(1..n)
    BY <1>1, FS_Interval
  <2>2. S \subseteq 1..n
    OBVIOUS
  <2>3. IsFiniteSet(S)
    BY <2>1, <2>2, FS_Subset
  <2> QED
    BY <2>3, <1>1, FS_CardinalityType
<1>3. CASE e = "call"
  <2>1. T = S \union {n + 1}
    BY <1>1, <1>3
  <2>2. Cardinality(S \union {n + 1}) = Cardinality(S) + 1
    BY <1>2, FS_AddElement
  <2> QED
    BY <2>1, <2>2, <1>2, <1>3
<1>4. CASE e # "call"
  <2>1. T = S
    BY <1>1, <1>4
  <2>2. Cardinality(T) = Cardinality(S) + 0
    <3> HIDE DEF S, T
    <3> QED
      BY <2>1, <1>2
  <2> QED
    BY <2>2, <1>2, <1>4
<1> QED
  BY <1>3, <1>4

\* Taking the head of a sequence loses no other member.
LEMMA HasOfTail ==
  ASSUME NEW X, NEW s \in Seq(X), s # <<>>, NEW e
  PROVE  /\ Has(s, e) <=> Head(s) = e \/ Has(Tail(s), e)
         /\ Tail(s) \in Seq(X) /\ Head(s) \in X
<1>1. Tail(s) \in Seq(X) /\ Head(s) = s[1] /\ Head(s) \in X
      /\ Len(s) \in Nat /\ Len(s) > 0 /\ Len(Tail(s)) = Len(s) - 1
      /\ \A i \in 1..(Len(s) - 1) : Tail(s)[i] = s[i + 1]
  OBVIOUS
<1>2. ASSUME Has(s, e) PROVE Head(s) = e \/ Has(Tail(s), e)
  <2>1. PICK i \in 1..Len(s) : s[i] = e
    BY <1>2 DEF Has
  <2>2. CASE i = 1
    BY <1>1, <2>1, <2>2
  <2>3. CASE i > 1
    <3>1. i - 1 \in 1..(Len(s) - 1) /\ Tail(s)[i - 1] = e
      BY <1>1, <2>1, <2>3
    <3> QED
      BY <3>1, <1>1 DEF Has
  <2> QED
    BY <2>2, <2>3
<1>3. ASSUME Head(s) = e \/ Has(Tail(s), e) PROVE Has(s, e)
  BY <1>1, <1>3 DEF Has
<1> QED
  BY <1>1, <1>2, <1>3

LEMMA HasOfAppend ==
  ASSUME NEW s \in Seq(Events), NEW e \in Events, NEW x
  PROVE  /\ Has(Append(s, e), x) <=> Has(s, x) \/ x = e
         /\ Append(s, e) \in Seq(Events)
         /\ Append(s, e) # <<>>
         /\ Append(s, e)[Len(Append(s, e))] = e
<1>1. /\ Append(s, e) \in Seq(Events) /\ Append(s, e) # <<>>
      /\ Len(s) \in Nat /\ Len(Append(s, e)) = Len(s) + 1
      /\ Append(s, e)[Len(s) + 1] = e
      /\ \A i \in 1..Len(s) : Append(s, e)[i] = s[i]
  OBVIOUS
<1> QED
  BY <1>1 DEF Has

OneCall(q) == /\ Has(q, "call")
              /\ \A i, j \in 1..Len(q) : q[i] = "call" /\ q[j] = "call" => i = j

\* What a call leaves to store records it, and once.
LEMMA WorkHasOneCall == \A w \in Work : OneCall(w)
<1>1. OneCall(<<"store", "call", "urls">>)
  BY DEF OneCall, Has
<1>2. OneCall(<<"store", "call", "urls", "dedup">>)
  BY DEF OneCall, Has
<1>3. OneCall(<<"store", "call", "urls", "rows", "evidence">>)
  BY DEF OneCall, Has
<1>4. OneCall(<<"store", "call", "urls", "dedup", "rows", "evidence">>)
  BY DEF OneCall, Has
<1> QED
  BY <1>1, <1>2, <1>3, <1>4 DEF Work

\* The work the actions schedule is session work.
LEMMA WorkIsTyped ==
  /\ \A e \in Events : <<e>> \in Seq(Events \union Plain)
  /\ <<>> \in Seq(Events \union Plain) /\ <<"flush">> \in Seq(Events \union Plain)
  /\ <<"error", "flush">> \in Seq(Events \union Plain)
  /\ <<"rejected", "flush">> \in Seq(Events \union Plain)
  /\ Work \subseteq Seq(Events \union Plain)
  BY DEF Work, Events, Plain

-----------------------------------------------------------------------------
(* The invariant holds at first *)

LEMMA InitInv == Init => IInv
<1> SUFFICES ASSUME Init PROVE IInv
  OBVIOUS
<1>1. TypeOK
  <2>1. <<"started">> \in Seq(Events \union Plain) /\ <<>> \in Seq(Events \union Plain)
    BY WorkIsTyped DEF Events
  <2>2. pending \in [Threads -> Seq(Events \union Plain)]
    BY <2>1 DEF Init
  <2>3. trace \in Seq(Events) /\ inside \in SUBSET Threads
    BY DEF Init
  <2> QED
    <3>1. /\ main = "replying" /\ tool = "idle" /\ role \in Roles /\ broken = FALSE
          /\ requests = 0 /\ results = 0 /\ returned = 0 /\ outcome = "none"
      BY DEF Init
    <3>2. /\ requests \in 0..MaxRequests
          /\ results \in 0..MaxToolCalls /\ returned \in 0..MaxToolCalls
      BY <3>1, TurnAssumption DEF TurnAssumption
    <3>3. broken \in BOOLEAN
      BY <3>1
    <3> QED
      BY <2>2, <2>3, <3>1, <3>2, <3>3 DEF TypeOK, Replies
<1>2. pending["main"] = <<"started">> /\ pending["tool"] = <<>>
  BY DEF Init, Threads
<1>3. Placed
  <2>1. pending["tool"] \in Seq(ToolEvents \union Plain)
    BY <1>2
  <2> QED
    BY <1>2, <2>1 DEF Init, Placed, MayRun
<1>4. Told
  BY <1>2 DEF Init, Told, Has
<1>5. Calls = 0
  <2>1. {i \in 1..Len(trace) : trace[i] = "call"} = {}
    BY DEF Init
  <2> QED
    BY <2>1, FS_EmptySet DEF Calls
<1>6. Counted
  BY <1>2, <1>5, TurnAssumption
     DEF Init, Counted, Has, ToolBudget, CallToRecord, ResultsComplete
<1> QED
  BY <1>1, <1>3, <1>4, <1>6 DEF IInv

-----------------------------------------------------------------------------
(* Types *)

\* Every step keeps the types; what a thread leaves is the head of its work.
LEMMA TypeStep == TypeOK /\ Placed /\ [Next]_vars => TypeOK'
<1> SUFFICES ASSUME TypeOK, Placed, [Next]_vars PROVE TypeOK'
  OBVIOUS
<1> USE TurnAssumption DEF Threads
<1>1. ASSUME NEW t \in Threads, Enter(t) PROVE TypeOK'
  BY <1>1 DEF TypeOK, Enter
<1>2. ASSUME NEW t \in Threads, Leave(t) PROVE TypeOK'
  <2>1. pending[t] \in Seq(Events \union Plain) /\ pending[t] # <<>>
    BY <1>2 DEF TypeOK, Leave, Placed
  <2>2. Tail(pending[t]) \in Seq(Events \union Plain)
    BY <2>1, HasOfTail
  <2>3. trace' \in Seq(Events)
    BY <1>2, HasOfAppend DEF TypeOK, Leave
  <2> QED
    BY <1>2, <2>2, <2>3 DEF TypeOK, Leave
<1>3. ASSUME NEW t \in Threads, Abort(t) PROVE TypeOK'
  BY <1>3 DEF TypeOK, Abort
<1>4. CASE StartTool \/ RejectTool \/ FetchEnds \/ FetchRefused \/ ToolEnds \/ CallTool
  <2>1. tool' \in {"idle", "queued", "fetching", "persisting", "rejecting"}
        /\ requests' \in 0..MaxRequests /\ results' \in 0..MaxToolCalls
    BY <1>4 DEF TypeOK, Placed, StartTool, RejectTool, FetchEnds, FetchRefused, ToolEnds,
                CallTool, TurnAssumption
  <2>2. pending' \in [Threads -> Seq(Events \union Plain)]
    BY <1>4, WorkIsTyped
       DEF TypeOK, StartTool, RejectTool, FetchEnds, FetchRefused, ToolEnds, CallTool
  <2> QED
    BY <1>4, <2>1, <2>2
       DEF TypeOK, StartTool, RejectTool, FetchEnds, FetchRefused, ToolEnds, CallTool
<1>5. ASSUME NEW place \in Replies \union
               {"parsing", "reparsing", "fallen", "timedout", "late", "failing",
                "raising", "completing", "returning", "closing", "over"},
             NEW work \in Seq(Events \union Plain), Goto(place, work),
             tool' \in {"idle", tool}, outcome' \in {"raised", outcome}
      PROVE  TypeOK'
  BY <1>5 DEF TypeOK, Goto
<1>6. <<"finalized">> \in Seq(Events \union Plain) /\ <<"repaired">> \in Seq(Events \union Plain)
      /\ <<"fallback">> \in Seq(Events \union Plain) /\ <<"limit">> \in Seq(Events \union Plain)
      /\ <<"error">> \in Seq(Events \union Plain) /\ <<"repairing">> \in Seq(Events \union Plain)
      /\ <<"completed">> \in Seq(Events \union Plain)
  BY WorkIsTyped DEF Events
<1>7. CASE Answer \/ ReactLimit \/ ReplyRaises \/ Timeout
  <2>1. CASE Answer
    BY <1>5, <1>6, <2>1, WorkIsTyped DEF Answer
  <2>2. CASE ReactLimit
    BY <1>5, <1>6, <2>2 DEF ReactLimit, Replies
  <2>3. CASE ReplyRaises
    BY <1>5, <2>3, WorkIsTyped DEF ReplyRaises
  <2>4. CASE Timeout
    BY <1>5, <1>6, <2>4 DEF Timeout
  <2> QED
    BY <1>7, <2>1, <2>2, <2>3, <2>4
<1>8. CASE Accept \/ Repair \/ FallBack \/ GiveUp
  BY <1>5, <1>6, <1>8, WorkIsTyped DEF Accept, Repair, FallBack, GiveUp, Replies
<1>9. CASE Raise \/ Complete \/ Close
  BY <1>5, <1>6, <1>9, WorkIsTyped DEF Raise, Complete, Close
<1>11. CASE Return
  BY <1>11 DEF Return, TypeOK
<1>10. CASE UNCHANGED vars
  BY <1>10 DEF TypeOK, vars
<1> QED
  BY <1>1, <1>2, <1>3, <1>4, <1>5, <1>6, <1>7, <1>8, <1>9, <1>10, <1>11
     DEF Next, ToolStep, AgentStep, MainStep, SessionStep

-----------------------------------------------------------------------------
(* Where a tool may run *)

LEMMA PlacedStep == TypeOK /\ Placed /\ [Next]_vars => Placed'
<1> SUFFICES ASSUME TypeOK, Placed, [Next]_vars PROVE Placed'
  OBVIOUS
<1> USE DEF Threads
<1>1. ASSUME NEW t \in Threads, Enter(t) PROVE Placed'
  BY <1>1 DEF Placed, Enter
<1>2. ASSUME NEW t \in Threads, Leave(t) PROVE Placed'
  <2>1. pending[t] # <<>> /\ inside' = inside \ {t}
        /\ pending' = [pending EXCEPT ![t] = Tail(pending[t])]
    BY <1>2 DEF Leave, Placed
  <2>2. t = "main" => pending'["tool"] = pending["tool"]
    BY <2>1 DEF TypeOK
  <2>3. t = "tool" => /\ pending'["main"] = pending["main"]
                      /\ pending'["tool"] \in Seq(ToolEvents \union Plain)
    BY <2>1, HasOfTail DEF TypeOK, Placed
  <2>4. \A u \in inside' : pending'[u] # <<>>
    BY <2>1, <1>2 DEF TypeOK, Placed
  <2> QED
    BY <1>2, <2>1, <2>2, <2>3, <2>4 DEF TypeOK, Placed, Leave
<1>3. ASSUME NEW t \in Threads, Abort(t) PROVE Placed'
  <2>1. pending[t] # <<>> /\ (broken \/ pending["main"] # <<>>)
    BY <1>3 DEF Abort, Placed
  <2>2. pending["tool"] # <<>> => tool \in {"persisting", "rejecting"}
    BY DEF Placed, TypeOK
  <2>3. broken \/ pending["tool"] # <<>>
    BY <1>3 DEF Abort, Placed
  <2>4. role = "scout" /\ main \in {"timedout", "raising", "closing", "over"}
        /\ outcome # "returned"
    BY <2>1, <2>2, <2>3 DEF Placed, MayRun, TypeOK
  <2>5. CASE t = "main"
    BY <1>3, <2>1, <2>4, <2>5 DEF Abort, Placed, TypeOK, MayRun
  <2>6. CASE t = "tool"
    BY <1>3, <2>1, <2>4, <2>6 DEF Abort, Placed, TypeOK, MayRun
  <2> QED
    BY <2>5, <2>6
<1>4. CASE StartTool
  BY <1>4 DEF Placed, TypeOK, MayRun, StartTool
<1>5. CASE RejectTool
  BY <1>5 DEF Placed, TypeOK, MayRun, RejectTool, ToolEvents, Plain
<1>6. CASE FetchEnds
  <2>1. Work \subseteq Seq(ToolEvents \union Plain)
    BY DEF Work, ToolEvents, Plain
  <2> QED
    BY <1>6, <2>1 DEF Placed, TypeOK, MayRun, FetchEnds
<1>7. CASE FetchRefused
  BY <1>7 DEF Placed, TypeOK, MayRun, FetchRefused
<1>8. CASE ToolEnds
  BY <1>8 DEF Placed, TypeOK, MayRun, ToolEnds, ToolWorked
<1>9. CASE CallTool
  BY <1>9 DEF Placed, TypeOK, MayRun, CallTool, At
<1>10. CASE Answer
  <2>1. tool = "idle" /\ pending'["tool"] = pending["tool"]
    BY <1>10 DEF Placed, TypeOK, MayRun, Answer, Goto, At
  <2>2. /\ main \in {"replying", "finalizing", "repairing"} /\ main' \in {"parsing", "reparsing"}
        /\ pending["main"] = <<>>
        /\ UNCHANGED <<role, tool, inside, broken, outcome>>
    BY <1>10 DEF Answer, Goto, At
  <2>3. ~broken /\ outcome = "none"
    BY <2>2 DEF Placed, TypeOK
  <2>4. \A t \in inside' : pending'[t] # <<>>
    BY <2>1, <2>2 DEF Placed, TypeOK
  <2> QED
    BY <2>1, <2>2, <2>3, <2>4 DEF Placed, TypeOK, MayRun
<1>11. CASE ReactLimit
  BY <1>11 DEF Placed, TypeOK, MayRun, ReactLimit, Goto, At
<1>12. CASE ReplyRaises
  BY <1>12 DEF Placed, TypeOK, MayRun, ReplyRaises, Goto, At, Replies
<1>13. CASE Timeout
  BY <1>13 DEF Placed, TypeOK, MayRun, Timeout, Goto, At, Replies
<1>14. CASE Accept
  BY <1>14 DEF Placed, TypeOK, MayRun, Accept, Goto, At
<1>15. CASE Repair
  BY <1>15 DEF Placed, TypeOK, MayRun, Repair, Goto, At
<1>16. CASE FallBack
  <2>1. tool = "idle" /\ role = "composer" /\ pending'["tool"] = pending["tool"]
    BY <1>16 DEF Placed, TypeOK, FallBack, HasFallback, Goto
  <2>2. /\ main \in {"reparsing", "timedout"} /\ main' \in {"fallen", "late"}
        /\ pending["main"] = <<>>
        /\ UNCHANGED <<role, tool, inside, broken, outcome>>
    BY <1>16 DEF FallBack, Goto, At
  <2>3. ~broken /\ outcome = "none"
    BY <2>1, <2>2 DEF Placed, TypeOK
  <2>4. \A t \in inside' : pending'[t] # <<>>
    BY <2>1, <2>2 DEF Placed, TypeOK
  <2> QED
    BY <2>1, <2>2, <2>3, <2>4 DEF Placed, TypeOK, MayRun
<1>17. CASE GiveUp
  <2>1. /\ main \in {"reparsing", "fallen", "timedout"}
        /\ main' = (IF main = "timedout" THEN "raising" ELSE "failing")
        /\ pending["main"] = <<>>
        /\ UNCHANGED <<role, tool, results, inside, broken, outcome>>
    BY <1>17 DEF GiveUp, Goto, At
  <2>2. pending'["tool"] = pending["tool"] /\ \A t \in inside' : pending'[t] # <<>>
    BY <2>1, <1>17 DEF GiveUp, Goto, Placed, TypeOK
  <2>3. broken => main = "timedout"
    BY <2>1 DEF Placed
  <2> QED
    BY <2>1, <2>2, <2>3 DEF Placed, TypeOK, MayRun
<1>18. CASE Raise
  BY <1>18 DEF Placed, TypeOK, MayRun, Raise, Goto, At
<1>19. CASE Complete
  BY <1>19 DEF Placed, TypeOK, MayRun, Complete, Goto, At
<1>20. CASE Return
  BY <1>20 DEF Placed, TypeOK, MayRun, Return, At
<1>21. CASE Close
  BY <1>21 DEF Placed, TypeOK, MayRun, Close, Goto, At
<1>22. CASE UNCHANGED vars
  BY <1>22 DEF Placed, vars
<1> QED
  BY <1>1, <1>2, <1>3, <1>4, <1>5, <1>6, <1>7, <1>8, <1>9, <1>10, <1>11, <1>12,
     <1>13, <1>14, <1>15, <1>16, <1>17, <1>18, <1>19, <1>20, <1>21, <1>22
     DEF Next, ToolStep, AgentStep, MainStep, SessionStep

-----------------------------------------------------------------------------
(* What is recorded *)

\* A thread that leaves the session has recorded the head of its work, if that
\* is an event, and nothing else has changed.
LEMMA LeaveFacts ==
  ASSUME TypeOK, Placed, NEW t \in Threads, Leave(t)
  PROVE  LET head == Head(pending[t])
         IN  /\ \A x : Has(trace', x) <=> Has(trace, x) \/ (x = head /\ head \in Events)
             /\ \A x : Has(pending[t], x) <=> x = head \/ Has(pending'[t], x)
             /\ \A u \in Threads \ {t} : pending'[u] = pending[u]
             /\ pending'[t] = Tail(pending[t])
             /\ head \in Events => trace' = Append(trace, head)
             /\ head \notin Events => trace' = trace
             /\ pending[t] # <<>>
             /\ t = "tool" => head \in ToolEvents \union Plain
             /\ UNCHANGED <<role, main, tool, broken, requests, results, returned, outcome>>
<1>1. pending[t] \in Seq(Events \union Plain) /\ pending[t] # <<>> /\ trace \in Seq(Events)
  BY DEF TypeOK, Placed, Leave
<1>2. \A x : Has(pending[t], x) <=> x = Head(pending[t]) \/ Has(Tail(pending[t]), x)
  BY <1>1, HasOfTail
<1>3. pending'[t] = Tail(pending[t]) /\ \A u \in Threads \ {t} : pending'[u] = pending[u]
  BY DEF Leave, TypeOK
<1>4. t = "tool" => Head(pending[t]) \in ToolEvents \union Plain
  BY <1>1, HasOfTail DEF Placed
<1>5. CASE Head(pending[t]) \in Events
  <2>1. trace' = Append(trace, Head(pending[t]))
    BY <1>5 DEF Leave
  <2>2. \A x : Has(trace', x) <=> Has(trace, x) \/ x = Head(pending[t])
    BY <1>1, <1>5, <2>1, HasOfAppend
  <2> QED
    BY <1>1, <1>2, <1>3, <1>4, <1>5, <2>1, <2>2 DEF Leave
<1>6. CASE Head(pending[t]) \notin Events
  BY <1>1, <1>2, <1>3, <1>4, <1>6 DEF Leave
<1> QED
  BY <1>5, <1>6

\* An error of the session comes while a scout's timeout is handled.
LEMMA AbortFacts ==
  ASSUME TypeOK, Placed, NEW t \in Threads, Abort(t)
  PROVE  main \in {"timedout", "raising", "closing", "over"} /\ outcome # "returned"
<1>1. pending[t] # <<>> /\ (broken \/ (pending["main"] # <<>> /\ pending["tool"] # <<>>))
  BY DEF Abort, Placed, Threads
<1> QED
  BY <1>1 DEF Placed, MayRun, TypeOK

LEMMA ToldStep == TypeOK /\ Placed /\ Told /\ [Next]_vars => Told'
<1> SUFFICES ASSUME TypeOK, Placed, Told, [Next]_vars PROVE Told'
  OBVIOUS
<1> DEFINE Tools == \/ StartTool \/ RejectTool \/ FetchEnds \/ FetchRefused \/ ToolEnds
                    \/ CallTool \/ (\E t \in Threads : Enter(t)) \/ UNCHANGED vars
<1>1. ASSUME NEW t \in Threads, Leave(t) PROVE Told'
  <2> DEFINE head == Head(pending[t])
  <2>1. /\ \A x : Has(trace', x) <=> Has(trace, x) \/ (x = head /\ head \in Events)
        /\ \A x : Has(pending[t], x) <=> x = head \/ Has(pending'[t], x)
        /\ \A u \in Threads \ {t} : pending'[u] = pending[u]
        /\ pending[t] # <<>>
        /\ t = "tool" => head \in ToolEvents \union Plain
        /\ UNCHANGED <<role, main, tool, broken, requests, results, returned, outcome>>
    BY <1>1, LeaveFacts
  <2>2. "error" \in Events /\ "completed" \notin ToolEvents \union Plain
    BY DEF Events, ToolEvents, Plain
  <2>3. outcome # "returned"
    BY <2>1 DEF Placed, Threads
  <2>4. CASE main = "returning"
    <3>1. t = "main" /\ pending["main"] = <<"completed">>
      <4>1. pending["tool"] = <<>>
        BY <2>4 DEF Placed, MayRun
      <4>2. t = "main"
        BY <2>1, <4>1 DEF Threads
      <4> QED
        BY <2>1, <2>4, <4>2 DEF Told
    <3>2. pending'["main"] = <<>> /\ head = "completed" /\ trace' = Append(trace, "completed")
      <4>1. Tail(<<"completed">>) = <<>> /\ Head(<<"completed">>) = "completed"
            /\ "completed" \in Events
        BY DEF Events
      <4>2. pending'[t] = Tail(pending[t]) /\ (head \in Events => trace' = Append(trace, head))
        BY <1>1, LeaveFacts
      <4>3. pending[t] = <<"completed">>
        BY <3>1
      <4>4. head = "completed" /\ pending'[t] = <<>>
        BY <4>1, <4>2, <4>3
      <4> QED
        BY <3>1, <4>1, <4>2, <4>4
    <3>3. EndsCompleted'
      BY <3>2, HasOfAppend DEF EndsCompleted, Events, TypeOK
    <3>4. ~Has(pending'["main"], "call")
      BY <3>2 DEF Has
    <3> QED
      BY <2>1, <2>3, <2>4, <3>2, <3>3, <3>4 DEF Told, Placed
  <2>5. CASE main # "returning"
    <3>1. ~Has(trace, "completed") /\ ~Has(pending["main"], "completed") /\ head # "completed"
      BY <2>1, <2>2, <2>3, <2>5 DEF Told, Threads
    <3>2. ~Has(trace', "completed") /\ ~Has(pending'["main"], "completed")
      BY <2>1, <3>1 DEF Threads
    <3>3. Has(trace, "error") \/ Has(pending["main"], "error")
            => Has(trace', "error") \/ Has(pending'["main"], "error")
      BY <2>1, <2>2 DEF Threads
    <3>4. ~Has(pending'["main"], "call")
      BY <2>1 DEF Told, Threads
    <3> QED
      BY <2>1, <2>3, <2>5, <3>2, <3>3, <3>4 DEF Told
  <2> QED
    BY <2>4, <2>5
<1>2. ASSUME NEW t \in Threads, Abort(t) PROVE Told'
  <2>1. main \in {"timedout", "raising", "closing", "over"} /\ outcome # "returned"
    BY <1>2, AbortFacts
  <2>2. /\ broken' /\ trace' = trace
        /\ t = "main" => main' = "closing" /\ outcome' = "raised" /\ pending'["main"] = <<>>
        /\ t = "tool" => UNCHANGED <<main, outcome>> /\ pending'["main"] = pending["main"]
    BY <1>2 DEF Abort, TypeOK
  <2>3. ~Has(<<>>, "completed") /\ ~Has(<<>>, "call")
    BY DEF Has
  <2> QED
    BY <2>1, <2>2, <2>3 DEF Told, Threads
<1>3. CASE Tools
  <2>1. UNCHANGED <<main, outcome, trace, broken>> /\ pending'["main"] = pending["main"]
    BY <1>3 DEF TypeOK, StartTool, RejectTool, FetchEnds, FetchRefused, ToolEnds, CallTool,
                Enter, vars, Threads
  <2> QED
    BY <2>1 DEF Told, EndsCompleted
<1>4. /\ ~Has(<<>>, "completed") /\ ~Has(<<>>, "error") /\ ~Has(<<>>, "call")
      /\ ~Has(<<"error">>, "call") /\ ~Has(<<"error", "flush">>, "call")
      /\ ~Has(<<"error">>, "completed") /\ Has(<<"error">>, "error")
      /\ ~Has(<<"error", "flush">>, "completed") /\ Has(<<"error", "flush">>, "error")
      /\ \A e \in {"finalized", "repaired", "fallback", "limit", "repairing", "flush"} :
           ~Has(<<e>>, "completed") /\ ~Has(<<e>>, "call")
      /\ ~Has(<<"completed">>, "call")
  BY DEF Has
<1>5. ASSUME NEW place, NEW work, Goto(place, work), UNCHANGED outcome,
             outcome = "none", main # "returning", place # "returning",
             ~Has(work, "completed"), ~Has(work, "call"),
             place \in {"failing", "timedout", "raising", "late"} =>
               Has(trace, "error") \/ Has(work, "error")
      PROVE  Told'
  <2>1. pending'["main"] = work /\ main' = place /\ UNCHANGED <<trace, broken, outcome>>
    BY <1>5 DEF Goto, TypeOK, Threads
  <2> QED
    BY <1>5, <2>1 DEF Told
<1>6. CASE Answer \/ ReactLimit \/ ReplyRaises \/ Timeout
  <2>1. main \in Replies /\ outcome = "none" /\ UNCHANGED outcome
    BY <1>6 DEF Answer, ReactLimit, ReplyRaises, Timeout, At, Replies, Placed, TypeOK
  <2>2. CASE Answer
    BY <1>4, <1>5, <2>1, <2>2 DEF Answer, Replies
  <2>3. CASE ReactLimit
    BY <1>4, <1>5, <2>1, <2>3 DEF ReactLimit, Replies
  <2>4. CASE ReplyRaises
    BY <1>4, <1>5, <2>1, <2>4 DEF ReplyRaises, Replies
  <2>5. CASE Timeout
    BY <1>4, <1>5, <2>1, <2>5 DEF Timeout, Replies
  <2> QED
    BY <1>6, <2>2, <2>3, <2>4, <2>5
<1>7. CASE Accept \/ Repair \/ FallBack \/ GiveUp
  <2>1. /\ main \in {"parsing", "reparsing", "fallen", "late", "timedout"}
        /\ outcome = "none" /\ UNCHANGED outcome
        /\ main \in {"late", "timedout"} => Has(trace, "error")
    BY <1>4, <1>7 DEF Accept, Repair, FallBack, GiveUp, At, Placed, TypeOK, Told
  <2>2. CASE Accept
    BY <1>4, <1>5, <2>1, <2>2 DEF Accept
  <2>3. CASE Repair
    BY <1>4, <1>5, <2>1, <2>3 DEF Repair
  <2>4. CASE FallBack
    BY <1>4, <1>5, <2>1, <2>4 DEF FallBack, At
  <2>5. CASE GiveUp
    BY <1>4, <1>5, <2>1, <2>5 DEF GiveUp, At
  <2> QED
    BY <1>7, <2>2, <2>3, <2>4, <2>5
<1>8. CASE Raise
  <2>1. /\ main \in {"failing", "raising", "late"} /\ pending["main"] = <<>>
        /\ outcome = "none" /\ outcome' = "raised" /\ main' = "closing"
        /\ pending'["main"] = <<>> /\ UNCHANGED <<trace, broken>>
    BY <1>8 DEF Raise, At, Goto, Placed, TypeOK, Threads
  <2> QED
    BY <1>4, <2>1 DEF Told
<1>9. CASE Complete
  <2>1. main' = "returning" /\ pending'["main"] = <<"completed">> /\ UNCHANGED outcome
        /\ outcome = "none"
    BY <1>9 DEF Complete, At, Goto, Placed, TypeOK, Threads
  <2> QED
    BY <1>4, <2>1 DEF Told
<1>10. CASE Return
  <2>1. main = "returning" /\ pending["main"] = <<>> /\ main' = "closing"
        /\ outcome' = "returned" /\ UNCHANGED <<trace, pending>>
    BY <1>10 DEF Return, At
  <2>2. EndsCompleted /\ EndsCompleted'
    BY <2>1 DEF Told, EndsCompleted
  <2> QED
    BY <2>1, <2>2 DEF Told
<1>11. CASE Close
  <2>1. main' = "over" /\ main = "closing" /\ pending["main"] = <<>> /\ pending'["main"] = <<>>
        /\ UNCHANGED <<trace, broken, outcome>>
    BY <1>11 DEF Close, At, Goto, TypeOK, Threads
  <2> QED
    BY <2>1 DEF Told, EndsCompleted
<1> QED
  BY <1>1, <1>2, <1>3, <1>6, <1>7, <1>8, <1>9, <1>10, <1>11
     DEF Next, ToolStep, AgentStep, MainStep, SessionStep, Threads

-----------------------------------------------------------------------------
(* Calls and results *)

LEMMA CountedStep == TypeOK /\ Placed /\ Told /\ Counted /\ [Next]_vars => Counted'
<1> SUFFICES ASSUME TypeOK, Placed, Told, Counted, [Next]_vars PROVE Counted'
  OBVIOUS
<1> DEFINE work == pending["tool"]
           Once(q) == \A i, j \in 1..Len(q) : q[i] = "call" /\ q[j] = "call" => i = j
<1>0. Calls \in Nat /\ results \in Nat /\ MaxToolCalls \in Nat
  <2>1. Calls \in Nat
    BY CallsOfAppend DEF Calls, TypeOK, Events
  <2> QED
    BY <2>1, TurnAssumption DEF TypeOK, TurnAssumption
\* Every step of run_async leaves the worker's side alone, but for a queued
\* call that a timeout cancels.
<1>1. ASSUME UNCHANGED <<trace, results>>, pending'["tool"] = work,
             tool' = tool \/ (tool = "queued" /\ tool' = "idle"),
             broken' = broken,
             outcome' = "returned" => \/ outcome = "returned" /\ returned' = returned
                                      \/ Calls = results /\ returned' = results
      PROVE  Counted'
  <2>1. Calls' = Calls
    BY <1>1 DEF Calls
  <2>2. CallToRecord' = CallToRecord
    BY <1>1 DEF CallToRecord
  <2>3. ToolBudget' /\ ResultsComplete'
    BY <1>1, <2>1, <2>2 DEF Counted, ToolBudget, ResultsComplete
  <2> QED
    BY <1>1, <2>1, <2>3 DEF Counted
<1>2. ASSUME NEW t \in Threads, Leave(t) PROVE Counted'
  <2> DEFINE head == Head(pending[t])
  <2>1. /\ \A x : Has(pending[t], x) <=> x = head \/ Has(pending'[t], x)
        /\ \A u \in Threads \ {t} : pending'[u] = pending[u]
        /\ pending'[t] = Tail(pending[t])
        /\ head \in Events => trace' = Append(trace, head)
        /\ head \notin Events => trace' = trace
        /\ pending[t] # <<>>
        /\ UNCHANGED <<main, tool, broken, results, returned, outcome>>
    BY <1>2, LeaveFacts
  <2>2. Calls' = Calls + (IF head = "call" THEN 1 ELSE 0)
    <3>1. CASE head \in Events
      BY <2>1, <3>1, CallsOfAppend DEF Calls, TypeOK
    <3>2. CASE head \notin Events
      <4>1. Calls' = Calls /\ head # "call"
        BY <2>1, <3>2 DEF Calls, Events
      <4> QED
        BY <4>1, <1>0
    <3> QED
      BY <3>1, <3>2
  <2>3. outcome # "returned"
    BY <2>1 DEF Placed, Threads
  <2>4. CASE t = "main"
    <3>1. pending'["tool"] = work
      BY <2>1, <2>4 DEF Threads
    <3>2. head # "call"
      BY <2>1, <2>4 DEF Told
    <3> QED
      BY <1>0, <2>1, <2>2, <2>3, <3>1, <3>2
         DEF Counted, ToolBudget, CallToRecord, ResultsComplete
  <2>5. CASE t = "tool"
    <3>1. tool \in {"persisting", "rejecting"}
      BY <2>1, <2>5 DEF Placed, TypeOK
    <3>2. Once(pending'["tool"]) /\ (head = "call" => ~Has(pending'["tool"], "call"))
      <4>1. work \in Seq(ToolEvents \union Plain) /\ work # <<>> /\ Once(work)
        BY <2>1, <2>5 DEF Placed, Counted
      <4>2. /\ Len(work) \in Nat /\ Len(Tail(work)) = Len(work) - 1 /\ Head(work) = work[1]
            /\ \A i \in 1..Len(Tail(work)) : Tail(work)[i] = work[i + 1]
        BY <4>1
      <4>3. \A i \in 1..Len(Tail(work)) : i + 1 \in 1..Len(work) /\ i + 1 # 1
        BY <4>2
      <4>4. 1 \in 1..Len(work)
        BY <4>1, <4>2
      <4>5. Once(Tail(work))
        BY <4>1, <4>2, <4>3
      <4>6. Head(work) = "call" => ~Has(Tail(work), "call")
        BY <4>1, <4>2, <4>3, <4>4 DEF Has
      <4>7. pending'["tool"] = Tail(work) /\ head = Head(work)
        BY <2>1, <2>5
      <4> QED
        BY <4>5, <4>6, <4>7
    <3>3. /\ Has(work, "call") <=> head = "call" \/ Has(pending'["tool"], "call")
          /\ tool # "persisting" => ~Has(work, "call")
      BY <2>1, <2>5 DEF Counted
    <3>4. Has(work, "call") => Calls' + (IF Has(pending'["tool"], "call") THEN 1 ELSE 0) = Calls + 1
      BY <1>0, <2>2, <3>2, <3>3
    <3>5. ~Has(work, "call") => Calls' = Calls /\ ~Has(pending'["tool"], "call")
      BY <1>0, <2>2, <3>3
    <3>6. Calls' \in Nat
      BY <1>0, <2>2
    <3>7. ~broken => Calls' = results + (IF tool = "persisting" /\ ~Has(pending'["tool"], "call")
                                         THEN 1 ELSE 0)
      <4>1. ~broken => Calls = results + (IF tool = "persisting" /\ ~Has(work, "call")
                                          THEN 1 ELSE 0)
        BY DEF Counted
      <4>2. CASE tool = "persisting" /\ Has(work, "call")
        <5>1. ~broken => Calls = results + 0
          BY <1>0, <4>1, <4>2
        <5>2. CASE Has(pending'["tool"], "call")
          BY <1>0, <3>4, <3>6, <4>2, <5>1, <5>2
        <5>3. CASE ~Has(pending'["tool"], "call")
          <6>1. Calls' = Calls + 1
            BY <1>0, <2>2, <3>3, <4>2, <5>3
          <6>2. ~broken => Calls = results
            BY <1>0, <5>1
          <6> QED
            BY <4>2, <5>3, <6>1, <6>2
        <5> QED
          BY <5>2, <5>3
      <4>3. CASE tool = "persisting" /\ ~Has(work, "call")
        BY <1>0, <3>5, <4>1, <4>3
      <4>4. CASE tool # "persisting"
        BY <1>0, <3>3, <3>5, <4>1, <4>4
      <4> QED
        BY <4>2, <4>3, <4>4
    <3>8. Calls' + (IF Has(pending'["tool"], "call") THEN 1 ELSE 0) <= MaxToolCalls
      <4>1. Calls + (IF Has(work, "call") THEN 1 ELSE 0) <= MaxToolCalls
        BY <3>1 DEF Counted, ToolBudget, CallToRecord
      <4> QED
        BY <1>0, <3>4, <3>5, <3>6, <4>1
    <3>9. ToolBudget'
      BY <2>1, <3>1, <3>8 DEF ToolBudget, CallToRecord
    <3> QED
      BY <2>1, <2>3, <3>2, <3>3, <3>7, <3>9 DEF Counted, ResultsComplete
  <2> QED
    BY <2>4, <2>5 DEF Threads
<1>3. ASSUME NEW t \in Threads, Abort(t) PROVE Counted'
  <2>1. outcome # "returned" /\ main # "replying"
    BY <1>3, AbortFacts
  <2>2. broken' /\ UNCHANGED <<trace, results, returned>> /\ outcome' # "returned"
    BY <1>3, <2>1 DEF Abort
  <2>3. Calls' = Calls
    BY <2>2 DEF Calls
  <2>4. CASE t = "main"
    <3>1. pending'["tool"] = work /\ tool' = tool
      BY <1>3, <2>4 DEF Abort, TypeOK, Threads
    <3> QED
      BY <2>2, <2>3, <3>1 DEF Counted, ToolBudget, CallToRecord, ResultsComplete
  <2>5. CASE t = "tool"
    <3>1. pending'["tool"] = <<>> /\ tool' = "idle"
      BY <1>3, <2>5 DEF Abort, TypeOK, Threads
    <3>2. ~Has(<<>>, "call") /\ Once(<<>>)
      BY DEF Has
    <3>3. Calls' + 0 <= MaxToolCalls
      BY <1>0, <2>3 DEF Counted, ToolBudget
    <3>4. ToolBudget'
      BY <3>1, <3>2, <3>3 DEF ToolBudget, CallToRecord
    <3> QED
      BY <2>2, <3>1, <3>2, <3>4 DEF Counted, ResultsComplete
  <2> QED
    BY <2>4, <2>5 DEF Threads
<1>4. CASE StartTool
  <2>1. /\ tool = "queued" /\ tool' = "fetching" /\ pending' = pending /\ results < MaxToolCalls
        /\ UNCHANGED <<trace, results, broken, outcome, returned>>
    BY <1>4 DEF StartTool
  <2>2. ~broken /\ outcome # "returned"
    BY <2>1 DEF Placed
  <2>3. Calls' = Calls /\ Calls = results /\ ~Has(work, "call")
    BY <1>0, <2>1, <2>2 DEF Counted, Calls
  <2>4. ToolBudget'
    BY <1>0, <2>1, <2>3 DEF ToolBudget, CallToRecord
  <2> QED
    BY <1>0, <2>1, <2>2, <2>3, <2>4 DEF Counted, ResultsComplete
<1>5. CASE RejectTool
  <2>1. /\ tool = "queued" /\ tool' = "rejecting" /\ pending'["tool"] = <<"rejected", "flush">>
        /\ UNCHANGED <<trace, results, broken, outcome, returned>>
    BY <1>5 DEF RejectTool, TypeOK, Threads
  <2>2. ~broken /\ outcome # "returned"
    BY <2>1 DEF Placed
  <2>3. Calls' = Calls /\ Calls = results /\ Calls + 0 <= MaxToolCalls
    BY <1>0, <2>1, <2>2 DEF Counted, Calls, ToolBudget
  <2>4. ~Has(<<"rejected", "flush">>, "call") /\ Once(<<"rejected", "flush">>)
    BY DEF Has
  <2>5. ToolBudget'
    BY <1>0, <2>1, <2>3, <2>4 DEF ToolBudget, CallToRecord
  <2> QED
    BY <1>0, <2>1, <2>2, <2>3, <2>4, <2>5 DEF Counted, ResultsComplete
<1>6. CASE FetchEnds
  <2>1. PICK w \in Work : pending' = [pending EXCEPT !["tool"] = w]
    BY <1>6 DEF FetchEnds
  <2>2. /\ tool = "fetching" /\ tool' = "persisting" /\ pending'["tool"] = w
        /\ UNCHANGED <<trace, results, broken, outcome, returned>>
    BY <1>6, <2>1 DEF FetchEnds, TypeOK, Threads
  <2>3. Has(w, "call") /\ Once(w)
    BY WorkHasOneCall DEF OneCall
  <2>4. outcome # "returned"
    BY <2>2 DEF Placed
  <2>5. Calls' = Calls /\ (~broken => Calls = results) /\ Calls + 1 <= MaxToolCalls
    BY <1>0, <2>2 DEF Counted, Calls, ToolBudget, CallToRecord
  <2>6. ToolBudget'
    BY <1>0, <2>2, <2>3, <2>5 DEF ToolBudget, CallToRecord
  <2> QED
    BY <1>0, <2>2, <2>3, <2>4, <2>5, <2>6 DEF Counted, ResultsComplete
<1>7. CASE FetchRefused
  <2>1. /\ tool = "fetching" /\ tool' = "idle" /\ pending' = pending
        /\ UNCHANGED <<trace, results, broken, outcome, returned>>
    BY <1>7 DEF FetchRefused
  <2>2. Calls' = Calls /\ ~Has(work, "call") /\ Calls + 0 <= MaxToolCalls
    BY <1>0, <2>1 DEF Counted, Calls, ToolBudget, CallToRecord
  <2>3. ToolBudget'
    BY <2>1, <2>2 DEF ToolBudget, CallToRecord
  <2> QED
    BY <1>0, <2>1, <2>2, <2>3 DEF Counted, ResultsComplete
<1>8. CASE ToolEnds
  <2>1. /\ tool \in {"persisting", "rejecting"} /\ tool' = "idle" /\ pending' = pending
        /\ work = <<>>
        /\ results' = (IF tool = "persisting" THEN results + 1 ELSE results)
        /\ UNCHANGED <<trace, broken, outcome, returned>>
    BY <1>8 DEF ToolEnds, ToolWorked
  <2>2. outcome # "returned" /\ ~Has(work, "call")
    BY <2>1 DEF Placed, Has
  <2>3. Calls' = Calls /\ (~broken => Calls = results') /\ Calls + 0 <= MaxToolCalls
    BY <1>0, <2>1, <2>2 DEF Counted, Calls, ToolBudget, CallToRecord
  <2>4. results' \in Nat
    BY <1>0, <2>1
  <2>5. ToolBudget'
    BY <2>1, <2>2, <2>3 DEF ToolBudget, CallToRecord
  <2> QED
    BY <1>0, <2>1, <2>2, <2>3, <2>4, <2>5 DEF Counted, ResultsComplete
<1>9. CASE CallTool
  <2>1. /\ tool = "idle" /\ tool' = "queued"
        /\ UNCHANGED <<trace, pending, results, broken, outcome, returned>>
    BY <1>9 DEF CallTool
  <2>2. Calls' = Calls /\ ~Has(work, "call") /\ Calls + 0 <= MaxToolCalls
    BY <1>0, <2>1 DEF Counted, Calls, ToolBudget
  <2>3. ToolBudget'
    BY <2>1, <2>2 DEF ToolBudget, CallToRecord
  <2> QED
    BY <1>0, <2>1, <2>2, <2>3 DEF Counted, ResultsComplete
<1>10. CASE (\E t \in Threads : Enter(t)) \/ UNCHANGED vars
  <2>1. UNCHANGED <<trace, pending, tool, results, broken, outcome, returned>>
    BY <1>10 DEF Enter, vars
  <2> QED
    BY <1>1, <2>1
<1>11. CASE Answer \/ ReactLimit \/ ReplyRaises \/ Timeout \/ Accept \/ Repair
            \/ FallBack \/ GiveUp \/ Raise \/ Complete \/ Close
  <2>1. ASSUME NEW place, NEW w, Goto(place, w)
        PROVE  UNCHANGED <<trace, results, broken, returned>> /\ pending'["tool"] = work
    BY <2>1 DEF Goto, TypeOK, Threads
  <2>2. UNCHANGED <<trace, results, broken, returned>> /\ pending'["tool"] = work
    BY <1>11, <2>1 DEF Answer, ReactLimit, ReplyRaises, Timeout, Accept, Repair, FallBack,
                       GiveUp, Raise, Complete, Close
  <2>3. /\ tool' = tool \/ (tool = "queued" /\ tool' = "idle")
        /\ outcome' = outcome \/ outcome' = "raised"
    BY <1>11 DEF Answer, ReactLimit, ReplyRaises, Timeout, Accept, Repair, FallBack,
                 GiveUp, Raise, Complete, Close
  <2> QED
    BY <1>1, <2>2, <2>3
<1>12. CASE Return
  <2>1. /\ main = "returning" /\ returned' = results
        /\ UNCHANGED <<trace, pending, tool, results, broken>>
    BY <1>12 DEF Return, At
  <2>2. tool = "idle" /\ ~broken
    BY <2>1 DEF Placed, MayRun
  <2>3. Calls = results
    BY <1>0, <2>2 DEF Counted
  <2> QED
    BY <1>1, <2>1, <2>3
<1> QED
  BY <1>2, <1>3, <1>4, <1>5, <1>6, <1>7, <1>8, <1>9, <1>10, <1>11, <1>12
     DEF Next, ToolStep, AgentStep, MainStep, SessionStep, Threads

-----------------------------------------------------------------------------
(* Theorems *)

LEMMA Invariant == Spec => []IInv
<1>1. IInv /\ [Next]_vars => IInv'
  BY TypeStep, PlacedStep, ToldStep, CountedStep DEF IInv
<1> QED
  BY <1>1, InitInv, PTL DEF Spec

\* Every variable of a turn keeps its type.
THEOREM TurnIsTyped == Spec => []TypeOK
  BY Invariant, PTL DEF IInv

\* However many calls an agent asks for and whenever its reply times out, no
\* more calls are recorded than execute_connor_tool_sync allows.
THEOREM BudgetHolds == Spec => []ToolBudget
<1>1. IInv => ToolBudget
  BY DEF IInv, Counted
<1> QED
  BY <1>1, Invariant, PTL

\* run_async never reads the results of the tools while the worker holds the
\* lock, so the event loop and its timers are never stopped by a tool.
THEOREM NeverBlocks == Spec => []LoopNeverBlocks
<1>1. IInv => LoopNeverBlocks
  BY DEF IInv, Placed, MayRun, LoopNeverBlocks, ExecutionLockFree
<1> QED
  BY <1>1, Invariant, PTL

\* The AgentRunResult of a turn has exactly the tool calls its trace has.
THEOREM NoResultLost == Spec => []ResultsComplete
<1>1. IInv => ResultsComplete
  BY DEF IInv, Counted
<1> QED
  BY <1>1, Invariant, PTL

\* A turn that returns ends its trace with its completion, and one that raises
\* has an error in it, unless its session broke.
THEOREM EndIsTraced == Spec => []TurnIsTraced
<1>1. IInv => TurnIsTraced
  <2> SUFFICES ASSUME IInv PROVE TurnIsTraced
    OBVIOUS
  <2>1. outcome = "raised" => main # "returning"
    BY DEF IInv, Placed
  <2> QED
    BY <2>1 DEF IInv, Told, TurnIsTraced, EndsCompleted
<1> QED
  BY <1>1, Invariant, PTL

\* Where the two threads of a turn can be in its session at once.
SharedAfterTimeout == inside = Threads => role = "scout" /\ main \in {"timedout", "raising"}

\* One worker keeps the session to one thread except in one case: the reply of a
\* scout timed out while a tool ran, and run_async records the timeout meanwhile.
THEOREM SharedOnlyAfterTimeout == Spec => []SharedAfterTimeout
<1>1. IInv => SharedAfterTimeout
  <2> SUFFICES ASSUME IInv, inside = Threads
               PROVE  role = "scout" /\ main \in {"timedout", "raising"}
    BY DEF SharedAfterTimeout
  <2>1. pending["main"] # <<>> /\ pending["tool"] # <<>>
    BY DEF IInv, Placed, Threads
  <2> QED
    BY <2>1 DEF IInv, Placed, MayRun
<1> QED
  BY <1>1, Invariant, PTL

\* When run_async has ended nothing more happens: the bridge was closed only
\* after its worker, so the harness has the session for itself.
THEOREM Quiet == Spec => QuietAfterTurn
<1>1. IInv /\ [Next]_vars => [main = "over" => UNCHANGED <<trace, results, inside>>]_vars
  <2> SUFFICES ASSUME IInv, Next, main = "over"
               PROVE  UNCHANGED <<trace, results, inside>>
    BY DEF vars
  <2>1. pending["main"] = <<>> /\ pending["tool"] = <<>> /\ tool = "idle" /\ inside = {}
    BY DEF IInv, Placed, MayRun, TypeOK, Threads
  <2>2. ~SessionStep("main") /\ ~SessionStep("tool")
    BY <2>1 DEF SessionStep, Enter, Leave, Abort
  <2>3. ~ToolStep
    BY <2>1, <2>2 DEF ToolStep, StartTool, RejectTool, FetchEnds, FetchRefused, ToolEnds, ToolWorked
  <2>4. ~AgentStep
    BY DEF AgentStep, CallTool, Answer, ReactLimit, ReplyRaises, At, Replies
  <2>5. ~MainStep
    BY <2>2 DEF MainStep, Timeout, Accept, Repair, FallBack, GiveUp, Raise, Complete, Return,
                Close, At, Replies
  <2> QED
    BY <2>3, <2>4, <2>5 DEF Next
<1> QED
  BY <1>1, Invariant, PTL DEF Spec, QuietAfterTurn

-----------------------------------------------------------------------------
(* What a sweep takes for granted of a scout's turn *)

\* The start of the turn is recorded before anything else can happen.
Opened ==
  IF trace = <<>> THEN /\ main = "replying" /\ tool = "idle" /\ ~broken
                       /\ pending["main"] = <<"started">>
                  ELSE trace[1] = "started"

LEMMA OpenedStep == IInv /\ Opened /\ [Next]_vars => Opened'
<1> SUFFICES ASSUME IInv, Opened, [Next]_vars PROVE Opened'
  OBVIOUS
<1> USE DEF IInv
<1>1. trace \in Seq(Events)
  BY DEF TypeOK
<1>2. trace' = trace \/ \E t \in Threads : Leave(t) /\ trace' = Append(trace, Head(pending[t]))
  BY DEF Next, ToolStep, AgentStep, MainStep, SessionStep, Enter, Leave, Abort, StartTool,
         RejectTool, FetchEnds, FetchRefused, ToolEnds, CallTool, Answer, ReactLimit, ReplyRaises,
         Timeout, Accept, Repair, FallBack, GiveUp, Raise, Complete, Return, Close, Goto, Threads,
         vars
<1>3. CASE trace # <<>>
  <2>1. trace[1] = "started"
    BY <1>3 DEF Opened
  <2>2. CASE trace' = trace
    BY <1>3, <2>1, <2>2 DEF Opened
  <2>3. ASSUME NEW e \in Events, trace' = Append(trace, e) PROVE Opened'
    <3>1. Len(trace) \in Nat \ {0}
      BY <1>1, <1>3
    <3>2. trace' # <<>> /\ trace'[1] = trace[1]
      BY <1>1, <2>3, <3>1
    <3> QED
      BY <2>1, <3>2 DEF Opened
  <2>4. ASSUME NEW t \in Threads, Leave(t) PROVE trace' = trace \/ Head(pending[t]) \in Events
    BY <2>4, LeaveFacts
  <2> QED
    BY <1>2, <2>2, <2>3, <2>4
<1>4. CASE trace = <<>>
  <2>1. /\ main = "replying" /\ tool = "idle" /\ ~broken
        /\ pending["main"] = <<"started">> /\ pending["tool"] = <<>>
    BY <1>4 DEF Opened, Placed
  <2>2. pending["main"] # <<>> /\ Head(pending["main"]) = "started" /\ "started" \in Events
    BY <2>1 DEF Events
  <2>3. "tool" \notin inside
    BY <2>1 DEF Placed
  <2>4. CASE Leave("main")
    <3>1. trace' = Append(<<>>, "started")
      BY <1>4, <2>2, <2>4 DEF Leave
    <3>2. trace' # <<>> /\ trace'[1] = "started"
      BY <3>1
    <3> QED
      BY <3>2 DEF Opened
  <2>5. CASE (\E t \in Threads : Enter(t)) \/ UNCHANGED vars
    <3>1. UNCHANGED <<main, tool, broken, pending, trace>>
      BY <2>5 DEF Enter, vars
    <3> QED
      BY <1>4, <2>1, <3>1 DEF Opened
  <2>6. ~Leave("tool") /\ ~Abort("tool") /\ ~Abort("main")
    BY <2>1, <2>3 DEF Leave, Abort, Threads
  <2>7. /\ ~StartTool /\ ~RejectTool /\ ~FetchEnds /\ ~FetchRefused /\ ~ToolEnds /\ ~AgentStep
        /\ ~Timeout /\ ~Accept /\ ~Repair /\ ~FallBack /\ ~GiveUp /\ ~Raise /\ ~Complete
        /\ ~Return /\ ~Close
    BY <2>1, <2>2
       DEF StartTool, RejectTool, FetchEnds, FetchRefused, ToolEnds, ToolWorked, AgentStep, CallTool,
       Answer, ReactLimit, ReplyRaises, Timeout, Accept, Repair, FallBack, GiveUp, Raise,
       Complete, Return, Close, At, Replies
  <2> QED
    BY <2>4, <2>5, <2>6, <2>7 DEF Next, ToolStep, MainStep, SessionStep, Threads
<1> QED
  BY <1>3, <1>4

\* The first event of a turn is its start, and a turn has another one when it ends,
\* unless its session broke: what Succeed and FailAgent of TraceSequence ask of a scout.
TwoEvents ==
  /\ trace # <<>> => trace[1] = "started"
  /\ outcome # "none" /\ ~broken => Len(trace) >= 2

\* Every turn leaves its start and its end in the trace, in that order, so that the
\* scouts of a sweep have two events each.
THEOREM TurnHasTwoEvents == Spec => []TwoEvents
<1>1. Init => Opened
  BY DEF Init, Opened, Threads
<1>2. Spec => []Opened
  BY <1>1, OpenedStep, Invariant, PTL DEF Spec
<1>3. IInv /\ Opened => TwoEvents
  <2> SUFFICES ASSUME IInv, Opened PROVE TwoEvents
    OBVIOUS
  <2>1. trace \in Seq(Events) /\ outcome \in {"none", "returned", "raised"}
    BY DEF IInv, TypeOK
  <2>2. ASSUME outcome # "none", ~broken
        PROVE  \E i \in 1..Len(trace) : trace[i] \in {"completed", "error"}
    <3>1. CASE outcome = "returned"
      <4>1. trace # <<>> /\ trace[Len(trace)] = "completed"
        BY <3>1 DEF IInv, Told, EndsCompleted
      <4>2. Len(trace) \in 1..Len(trace)
        BY <2>1, <4>1
      <4> QED
        BY <4>1, <4>2
    <3>2. CASE outcome = "raised"
      BY <2>2, <3>2 DEF IInv, Told, Has
    <3> QED
      BY <2>1, <2>2, <3>1, <3>2
  <2>3. trace # <<>> => trace[1] = "started"
    BY DEF Opened
  <2>4. ASSUME NEW i \in 1..Len(trace), trace[i] \in {"completed", "error"}
        PROVE  Len(trace) >= 2
    <3>1. Len(trace) \in Nat /\ trace # <<>>
      BY <2>1
    <3>2. i # 1
      BY <2>3, <2>4, <3>1
    <3> QED
      BY <3>1, <3>2
  <2> QED
    BY <2>2, <2>3, <2>4 DEF TwoEvents
<1> QED
  BY Invariant, <1>2, <1>3, PTL

-----------------------------------------------------------------------------
(* Why a turn ends: what is left of it only ever shrinks, and until its end *)
(* the worker or run_async can go on.                                      *)

\* How far run_async still has to go from a place.
WayFrom(place) ==
  CASE place = "over" -> 0
    [] place = "closing" -> 1
    [] place \in {"returning", "raising", "failing"} -> 2
    [] place = "completing" -> 3
    [] place \in {"late", "fallen"} -> 4
    [] place \in {"timedout", "reparsing"} -> 5
    [] place = "repairing" -> 6
    [] place = "parsing" -> 7
    [] place = "finalizing" -> 8
    [] place = "replying" -> 9

\* The session work a thread still has to do; what it is doing counts half.
Chores(t) == 2 * Len(pending[t]) - (IF t \in inside THEN 1 ELSE 0)

MainLeft == 5 * WayFrom(main) + Chores("main")

ToolLeft ==
  (CASE tool = "idle" -> 0 [] tool \in {"persisting", "rejecting"} -> 1
     [] tool = "fetching" -> 14 [] tool = "queued" -> 15) + Chores("tool")

Rank == 16 * (MaxRequests - requests) + ToolLeft + MainLeft

\* Every step of a turn, of the agent too, uses up a number that the calls it may
\* ask for bound.
TurnShrinks == [][Rank' \in 0..(Rank - 1)]_vars

\* A guard of the worker's steps or of run_async's holds.
SessionGoes(t) ==
  \/ t \in inside
  \/ /\ pending[t] # <<>>
     /\ Head(pending[t]) \in Events => SequenceLockFree

ToolGoes ==
  tool \in {"queued", "fetching"} \/ ToolWorked \/ SessionGoes("tool")

MainGoes ==
  \/ \E place \in Replies \union {"parsing", "reparsing", "fallen", "late", "timedout", "failing",
                                  "raising"} : At(place)
  \/ At("completing") /\ ExecutionLockFree
  \/ At("returning") /\ ExecutionLockFree
  \/ At("closing") /\ tool = "idle"
  \/ SessionGoes("main")

TurnGoesOn == main # "over" => ToolGoes \/ MainGoes

Places == Replies \union {"parsing", "reparsing", "fallen", "timedout", "late", "failing",
                          "raising", "completing", "returning", "closing", "over"}

LEMMA Ways ==
  /\ WayFrom("over") = 0 /\ WayFrom("closing") = 1
  /\ WayFrom("returning") = 2 /\ WayFrom("raising") = 2 /\ WayFrom("failing") = 2
  /\ WayFrom("completing") = 3 /\ WayFrom("late") = 4 /\ WayFrom("fallen") = 4
  /\ WayFrom("timedout") = 5 /\ WayFrom("reparsing") = 5 /\ WayFrom("repairing") = 6
  /\ WayFrom("parsing") = 7 /\ WayFrom("finalizing") = 8 /\ WayFrom("replying") = 9
  BY DEF WayFrom

LEMMA Measures ==
  ASSUME TypeOK, Placed
  PROVE  /\ main \in Places /\ WayFrom(main) \in 0..9
         /\ \A t \in Threads : /\ Len(pending[t]) \in Nat /\ Chores(t) \in Nat
                               /\ pending[t] = <<>> => t \notin inside /\ Chores(t) = 0
                               /\ t \in inside => Len(pending[t]) > 0
         /\ MainLeft \in Nat /\ ToolLeft \in Nat /\ MaxRequests - requests \in Nat
<1>1. main \in Places /\ WayFrom(main) \in 0..9
  BY Ways DEF TypeOK, Places, Replies
<1>2. ASSUME NEW t \in Threads
      PROVE  /\ Len(pending[t]) \in Nat /\ Chores(t) \in Nat
             /\ pending[t] = <<>> => t \notin inside /\ Chores(t) = 0
             /\ t \in inside => Len(pending[t]) > 0
  <2>1. pending[t] \in Seq(Events \union Plain)
    BY DEF TypeOK
  <2>2. /\ Len(pending[t]) \in Nat
        /\ pending[t] = <<>> => Len(pending[t]) = 0
        /\ pending[t] # <<>> => Len(pending[t]) > 0
    BY <2>1
  <2>3. t \in inside => pending[t] # <<>>
    BY DEF Placed
  <2> QED
    BY <2>2, <2>3 DEF Chores
<1>3. MainLeft \in Nat
  BY <1>1, <1>2 DEF MainLeft, Threads
<1>4. ToolLeft \in Nat
  <2>1. Chores("tool") \in Nat
    BY <1>2 DEF Threads
  <2> QED
    BY <2>1 DEF ToolLeft, TypeOK
<1>5. MaxRequests - requests \in Nat
  BY TurnAssumption DEF TypeOK
<1> QED
  BY <1>1, <1>2, <1>3, <1>4, <1>5

\* One of the three summands of the rank shrinks by more than the others grow.
LEMMA RankOf ==
  ASSUME NEW a \in Nat, NEW b \in Nat, NEW c \in Nat, NEW x \in Nat, NEW y \in Nat, NEW z \in Nat,
         \/ x = a /\ y <= b /\ z < c
         \/ x = a /\ y < b /\ z = c
         \/ x = a - 1 /\ y < b + 16 /\ z = c
  PROVE  16 * x + y + z \in 0..((16 * a + b + c) - 1)
OBVIOUS

\* run_async moves on, with at most two things to do at its new place; a call that
\* waits for the worker may be cancelled.
LEMMA MainMoves ==
  ASSUME TypeOK, Placed, pending["main"] = <<>>,
         NEW work \in Seq(Events \union Plain), Len(work) <= 2,
         pending' = [pending EXCEPT !["main"] = work],
         UNCHANGED <<inside, requests>>,
         NEW w \in Nat, w = WayFrom(main'), w < WayFrom(main),
         tool' = tool \/ (tool = "queued" /\ tool' = "idle")
  PROVE  Rank' \in 0..(Rank - 1)
<1> DEFINE a == MaxRequests - requests
<1>1. /\ a \in Nat /\ ToolLeft \in Nat /\ MainLeft \in Nat /\ WayFrom(main) \in 0..9
      /\ "main" \notin inside /\ Chores("main") = 0 /\ Chores("tool") \in Nat
  BY Measures DEF Threads
<1>2. pending'["main"] = work /\ pending'["tool"] = pending["tool"]
  BY DEF TypeOK, Threads
<1>3. MainLeft' = 5 * w + 2 * Len(work)
  BY <1>1, <1>2 DEF MainLeft, Chores
<1>4. MainLeft' \in Nat /\ MainLeft' < MainLeft
  <2>1. WayFrom(main) \in Nat /\ Len(work) \in Nat
    BY <1>1
  <2>2. MainLeft = 5 * WayFrom(main)
    BY <1>1, <2>1 DEF MainLeft
  <2> QED
    BY <1>3, <2>1, <2>2
<1>5. Chores("tool")' = Chores("tool")
  BY <1>2 DEF Chores
<1>6. ToolLeft' \in Nat /\ ToolLeft' <= ToolLeft
  BY <1>1, <1>5 DEF ToolLeft, TypeOK
<1>7. Rank = 16 * a + ToolLeft + MainLeft /\ Rank' = 16 * a + ToolLeft' + MainLeft'
  BY DEF Rank
<1> HIDE DEF a
<1> QED
  BY <1>1, <1>4, <1>6, <1>7, RankOf

\* The worker moves on; run_async and its chores are as they were.
LEMMA ToolMoves ==
  ASSUME TypeOK, Placed, UNCHANGED <<main, inside, requests>>,
         pending'["main"] = pending["main"],
         ToolLeft' \in 0..(ToolLeft - 1)
  PROVE  Rank' \in 0..(Rank - 1)
<1> DEFINE a == MaxRequests - requests
<1>1. a \in Nat /\ ToolLeft \in Nat /\ MainLeft \in Nat
  BY Measures
<1>2. MainLeft' = MainLeft /\ ToolLeft' \in Nat /\ ToolLeft' < ToolLeft
  BY <1>1 DEF MainLeft, Chores
<1>3. Rank = 16 * a + ToolLeft + MainLeft /\ Rank' = 16 * a + ToolLeft' + MainLeft'
  BY DEF Rank
<1> HIDE DEF a
<1> QED
  BY <1>1, <1>2, <1>3, RankOf

LEMMA WorkLength == \A w \in Work : Len(w) \in Nat /\ Len(w) <= 6
<1> SUFFICES ASSUME NEW w \in Work PROVE Len(w) \in Nat /\ Len(w) <= 6
  OBVIOUS
<1>1. CASE w = <<"store", "call", "urls">>
  BY <1>1
<1>2. CASE w = <<"store", "call", "urls", "dedup">>
  BY <1>2
<1>3. CASE w = <<"store", "call", "urls", "rows", "evidence">>
  BY <1>3
<1>4. CASE w = <<"store", "call", "urls", "dedup", "rows", "evidence">>
  BY <1>4
<1> QED
  BY <1>1, <1>2, <1>3, <1>4 DEF Work

LEMMA ToolShrinks ==
  ASSUME IInv, StartTool \/ RejectTool \/ FetchEnds \/ FetchRefused \/ ToolEnds
  PROVE  Rank' \in 0..(Rank - 1)
<1> USE DEF IInv
<1>1. UNCHANGED <<main, inside, requests>> /\ pending'["main"] = pending["main"]
  BY DEF StartTool, RejectTool, FetchEnds, FetchRefused, ToolEnds, TypeOK, Threads
<1>2. /\ Chores("tool") \in Nat
      /\ pending["tool"] = <<>> => "tool" \notin inside /\ Chores("tool") = 0
      /\ "tool" \in Threads /\ pending \in [Threads -> Seq(Events \union Plain)]
  BY Measures DEF Threads, TypeOK
<1>3. pending["tool"] = <<>>
  BY DEF StartTool, RejectTool, FetchEnds, FetchRefused, ToolEnds, ToolWorked, Placed
<1>4. ASSUME StartTool PROVE ToolLeft' \in 0..(ToolLeft - 1)
  BY <1>2, <1>3, <1>4 DEF StartTool, ToolLeft, Chores
<1>5. ASSUME RejectTool PROVE ToolLeft' \in 0..(ToolLeft - 1)
  <2>1. pending'["tool"] = <<"rejected", "flush">> /\ tool = "queued" /\ tool' = "rejecting"
        /\ inside' = inside
    BY <1>2, <1>5 DEF RejectTool
  <2>2. Len(pending'["tool"]) = 2
    BY <2>1
  <2> QED
    BY <1>2, <1>3, <2>1, <2>2 DEF ToolLeft, Chores
<1>6. ASSUME FetchEnds PROVE ToolLeft' \in 0..(ToolLeft - 1)
  <2>4. /\ pending'["tool"] \in Work
        /\ tool = "fetching" /\ tool' = "persisting" /\ inside' = inside
    BY <1>2, <1>6 DEF FetchEnds
  <2>1. Len(pending'["tool"]) \in Nat /\ Len(pending'["tool"]) <= 6
    BY <2>4, WorkLength
  <2>2. Chores("tool")' = 2 * Len(pending'["tool"])
    BY <1>2, <1>3, <2>1, <2>4 DEF Chores
  <2>3. ToolLeft = 14 /\ ToolLeft' = 1 + 2 * Len(pending'["tool"])
    BY <1>2, <1>3, <2>2, <2>4 DEF ToolLeft
  <2> QED
    BY <2>1, <2>3
<1>7. ASSUME FetchRefused \/ ToolEnds PROVE ToolLeft' \in 0..(ToolLeft - 1)
  <2>1. /\ UNCHANGED <<pending, inside>>
        /\ tool \in {"fetching", "persisting", "rejecting"} /\ tool' = "idle"
    BY <1>7 DEF FetchRefused, ToolEnds, ToolWorked
  <2>2. Chores("tool")' = 0
    BY <1>2, <1>3, <2>1 DEF Chores
  <2>3. ToolLeft \in {1, 14} /\ ToolLeft' = 0
    BY <1>2, <1>3, <2>1, <2>2 DEF ToolLeft
  <2> QED
    BY <2>3
<1> QED
  BY <1>1, <1>4, <1>5, <1>6, <1>7, ToolMoves

\* A request is one request less, and worth more than the call it becomes.
LEMMA CallShrinks ==
  ASSUME IInv, CallTool PROVE Rank' \in 0..(Rank - 1)
<1> DEFINE a == MaxRequests - requests
<1>1. /\ a \in Nat /\ ToolLeft \in Nat /\ MainLeft \in Nat /\ Chores("tool") \in Nat
  BY Measures DEF IInv, Threads
<1>2. /\ tool = "idle" /\ tool' = "queued" /\ requests < MaxRequests /\ requests' = requests + 1
      /\ UNCHANGED <<main, pending, inside>>
  BY DEF CallTool
<1>3. MainLeft' = MainLeft /\ ToolLeft' = ToolLeft + 15
  BY <1>1, <1>2 DEF MainLeft, ToolLeft, Chores
<1>4. a - 1 \in Nat /\ MaxRequests - requests' = a - 1
  BY <1>2, TurnAssumption DEF IInv, TypeOK
<1>5. Rank = 16 * a + ToolLeft + MainLeft /\ Rank' = 16 * (a - 1) + ToolLeft' + MainLeft'
  BY <1>4 DEF Rank
<1> HIDE DEF a
<1> QED
  BY <1>1, <1>3, <1>4, <1>5, RankOf

LEMMA ShortWork ==
  /\ \A e \in Events \union Plain : <<e>> \in Seq(Events \union Plain) /\ Len(<<e>>) <= 2
  /\ \A e, f \in Events \union Plain :
       <<e, f>> \in Seq(Events \union Plain) /\ Len(<<e, f>>) <= 2
  /\ <<>> \in Seq(Events \union Plain) /\ Len(<<>>) <= 2
  OBVIOUS

\* Where run_async goes, it does not come back from.
LEMMA MainShrinks ==
  ASSUME IInv,
         \/ Answer \/ ReactLimit \/ ReplyRaises \/ Timeout \/ Accept \/ Repair \/ FallBack
         \/ GiveUp \/ Raise \/ Complete \/ Return \/ Close
  PROVE  Rank' \in 0..(Rank - 1)
<1>1. /\ pending["main"] = <<>> /\ UNCHANGED <<inside, requests>>
      /\ tool' = tool \/ (tool = "queued" /\ tool' = "idle")
  BY DEF Answer, ReactLimit, ReplyRaises, Timeout, Accept, Repair, FallBack, GiveUp, Raise,
         Complete, Return, Close, Goto, At
<1>2. pending' = [pending EXCEPT !["main"] = pending'["main"]]
      /\ pending'["main"] \in Seq(Events \union Plain) /\ Len(pending'["main"]) <= 2
  <2>1. ASSUME NEW place, NEW work, Goto(place, work), work \in Seq(Events \union Plain),
               Len(work) <= 2
        PROVE  /\ pending' = [pending EXCEPT !["main"] = pending'["main"]]
               /\ pending'["main"] \in Seq(Events \union Plain) /\ Len(pending'["main"]) <= 2
    BY <2>1 DEF Goto, IInv, TypeOK, Threads
  <2>2. ASSUME Return
        PROVE  /\ pending' = [pending EXCEPT !["main"] = pending'["main"]]
               /\ pending'["main"] \in Seq(Events \union Plain) /\ Len(pending'["main"]) <= 2
    BY <1>1, <2>2, ShortWork DEF Return, IInv, TypeOK, Threads
  <2>3. \/ Return
        \/ \E place \in Places, work \in {<<>>, <<"finalized">>, <<"repaired">>, <<"fallback">>,
                                          <<"limit">>, <<"error">>, <<"error", "flush">>,
                                          <<"repairing">>, <<"flush">>, <<"completed">>} :
             Goto(place, work)
    BY DEF Answer, ReactLimit, ReplyRaises, Timeout, Accept, Repair, FallBack, GiveUp, Raise,
           Complete, Close, Places, Replies
  <2>4. \A work \in {<<>>, <<"finalized">>, <<"repaired">>, <<"fallback">>, <<"limit">>,
                     <<"error">>, <<"error", "flush">>, <<"repairing">>, <<"flush">>, <<"completed">>} :
          work \in Seq(Events \union Plain) /\ Len(work) <= 2
    BY ShortWork DEF Events, Plain
  <2> QED
    BY <2>1, <2>2, <2>3, <2>4
<1>3. WayFrom(main') \in Nat /\ WayFrom(main') < WayFrom(main)
  <2>1. CASE Answer \/ ReactLimit
    <3>1. \/ main = "replying" /\ main' \in {"parsing", "finalizing"}
          \/ main = "finalizing" /\ main' = "parsing"
          \/ main = "repairing" /\ main' = "reparsing"
      BY <2>1 DEF Answer, ReactLimit, Goto, At
    <3> QED
      BY <3>1, Ways
  <2>2. CASE ReplyRaises \/ Timeout
    <3>1. main \in Replies /\ main' \in {"failing", "timedout"}
      BY <2>2 DEF ReplyRaises, Timeout, Goto, At
    <3> QED
      BY <3>1, Ways DEF Replies
  <2>3. CASE Accept \/ Repair
    <3>1. \/ main \in {"parsing", "reparsing", "fallen", "late"} /\ main' = "completing"
          \/ main = "parsing" /\ main' = "repairing"
      BY <2>3 DEF Accept, Repair, Goto, At
    <3> QED
      BY <3>1, Ways
  <2>4. CASE FallBack \/ GiveUp
    <3>1. \/ main = "reparsing" /\ main' = "fallen"
          \/ main = "timedout" /\ main' \in {"late", "raising"}
          \/ main \in {"reparsing", "fallen"} /\ main' = "failing"
      BY <2>4 DEF FallBack, GiveUp, Goto, At
    <3> QED
      BY <3>1, Ways
  <2>5. CASE Raise \/ Complete
    <3>1. \/ main \in {"failing", "raising", "late"} /\ main' = "closing"
          \/ main = "completing" /\ main' = "returning"
      BY <2>5 DEF Raise, Complete, Goto, At
    <3> QED
      BY <3>1, Ways
  <2>6. CASE Return \/ Close
    <3>1. \/ main = "returning" /\ main' = "closing"
          \/ main = "closing" /\ main' = "over"
      BY <2>6 DEF Return, Close, Goto, At
    <3> QED
      BY <3>1, Ways
  <2> QED
    BY <2>1, <2>2, <2>3, <2>4, <2>5, <2>6
<1> QED
  BY <1>1, <1>2, <1>3, MainMoves DEF IInv

\* A chore begun is half done, one ended or given up is done.
LEMMA SessionShrinks ==
  ASSUME IInv, NEW t \in Threads, SessionStep(t)
  PROVE  Rank' \in 0..(Rank - 1)
<1> DEFINE a == MaxRequests - requests
<1> USE DEF IInv
<1>1. /\ a \in Nat /\ ToolLeft \in Nat /\ MainLeft \in Nat
      /\ WayFrom(main) \in 0..9 /\ main \in Places
      /\ \A u \in Threads : /\ Len(pending[u]) \in Nat /\ Chores(u) \in Nat
                            /\ u \in inside => Len(pending[u]) > 0
  BY Measures
<1>2. pending \in [Threads -> Seq(Events \union Plain)] /\ inside \subseteq Threads
  BY DEF TypeOK
<1>3. requests' = requests
  BY DEF SessionStep, Enter, Leave, Abort
<1>4. /\ Chores(t)' \in 0..(Chores(t) - 1)
      /\ \A u \in Threads \ {t} : Chores(u)' = Chores(u)
  <2>1. CASE Enter(t)
    <3>1. Len(pending[t]) > 0
      BY <1>2, <2>1 DEF Enter
    <3>2. UNCHANGED pending /\ t \notin inside /\ inside' = inside \union {t}
      BY <2>1 DEF Enter
    <3>3. Chores(t) = 2 * Len(pending[t]) /\ Chores(t)' = 2 * Len(pending[t]) - 1
      BY <3>2 DEF Chores
    <3>4. \A u \in Threads \ {t} : Chores(u)' = Chores(u)
      BY <3>2 DEF Chores
    <3> QED
      BY <1>1, <3>1, <3>3, <3>4
  <2>2. CASE Leave(t)
    <3>1. pending[t] # <<>> /\ Len(Tail(pending[t])) = Len(pending[t]) - 1
      BY <1>1, <1>2, <2>2 DEF Leave
    <3>2. pending'[t] = Tail(pending[t]) /\ \A u \in Threads \ {t} : pending'[u] = pending[u]
      BY <1>2, <2>2 DEF Leave
    <3>3. t \in inside /\ inside' = inside \ {t}
      BY <2>2 DEF Leave
    <3>4. Chores(t) = 2 * Len(pending[t]) - 1 /\ Chores(t)' = 2 * (Len(pending[t]) - 1)
      BY <1>1, <3>1, <3>2, <3>3 DEF Chores
    <3>5. \A u \in Threads \ {t} : Chores(u)' = Chores(u)
      BY <3>2, <3>3 DEF Chores
    <3> QED
      BY <1>1, <3>3, <3>4, <3>5
  <2>3. CASE Abort(t)
    <3>1. pending'[t] = <<>> /\ \A u \in Threads \ {t} : pending'[u] = pending[u]
      BY <1>2, <2>3 DEF Abort
    <3>2. Len(pending'[t]) = 0
      BY <3>1
    <3>3. t \in inside /\ inside' = inside \ {t}
      BY <2>3 DEF Abort
    <3>4. Chores(t) = 2 * Len(pending[t]) - 1 /\ Chores(t)' = 0
      BY <1>1, <3>1, <3>2, <3>3 DEF Chores
    <3>5. \A u \in Threads \ {t} : Chores(u)' = Chores(u)
      BY <3>1, <3>3 DEF Chores
    <3> QED
      BY <1>1, <3>3, <3>4, <3>5
  <2> QED
    BY <2>1, <2>2, <2>3 DEF SessionStep
<1>5. CASE t = "main"
  <2>1. /\ tool' = tool
        /\ main' = main \/ (main' = "closing" /\ main # "over")
    <3>1. CASE Enter(t) \/ Leave(t)
      BY <3>1 DEF Enter, Leave
    <3>2. CASE Abort(t)
      BY <1>5, <3>2 DEF Abort, Placed
    <3> QED
      BY <3>1, <3>2 DEF SessionStep
  <2>2. WayFrom(main') \in Nat /\ WayFrom(main') <= WayFrom(main)
    <3>1. CASE main' = main
      BY <1>1, <3>1
    <3>2. CASE main' = "closing" /\ main # "over"
      BY <1>1, <3>2, Ways DEF Places, Replies
    <3> QED
      BY <2>1, <3>1, <3>2
  <2>3. ToolLeft' = ToolLeft
    BY <1>4, <1>5, <2>1 DEF ToolLeft, Threads
  <2>4. MainLeft' \in Nat /\ MainLeft' < MainLeft
    <3>1. /\ WayFrom(main) \in Nat /\ Chores(t) \in Nat
          /\ Chores(t)' \in Nat /\ Chores(t)' < Chores(t)
      BY <1>1, <1>4
    <3>2. MainLeft = 5 * WayFrom(main) + Chores(t) /\ MainLeft' = 5 * WayFrom(main') + Chores(t)'
      BY <1>5 DEF MainLeft
    <3> QED
      BY <2>2, <3>1, <3>2
  <2>5. Rank = 16 * a + ToolLeft + MainLeft /\ Rank' = 16 * a + ToolLeft' + MainLeft'
    BY <1>3 DEF Rank
  <2>6. a \in Nat
    BY <1>1
  <2>7. ToolLeft' \in Nat /\ ToolLeft' <= ToolLeft
    BY <1>1, <2>3
  <2> HIDE DEF a
  <2> QED
    BY <1>1, <2>4, <2>5, <2>6, <2>7, RankOf
<1>6. CASE t = "tool"
  <2>1. main' = main /\ tool' \in {tool, "idle"}
    <3>1. CASE Enter(t) \/ Leave(t)
      BY <3>1 DEF Enter, Leave
    <3>2. CASE Abort(t)
      BY <1>6, <3>2 DEF Abort
    <3> QED
      BY <3>1, <3>2 DEF SessionStep
  <2>2. MainLeft' = MainLeft
    BY <1>4, <1>6, <2>1 DEF MainLeft, Threads
  <2>3. ToolLeft' \in Nat /\ ToolLeft' < ToolLeft
    <3>1. Chores(t) \in Nat /\ Chores(t)' \in Nat /\ Chores(t)' < Chores(t)
      BY <1>1, <1>4
    <3> QED
      BY <3>1, <1>6, <2>1 DEF ToolLeft, TypeOK
  <2>4. Rank = 16 * a + ToolLeft + MainLeft /\ Rank' = 16 * a + ToolLeft' + MainLeft'
    BY <1>3 DEF Rank
  <2>5. a \in Nat
    BY <1>1
  <2> HIDE DEF a
  <2> QED
    BY <1>1, <2>2, <2>3, <2>4, <2>5, RankOf
<1> QED
  BY <1>5, <1>6 DEF Threads

LEMMA GoesOn == IInv => TurnGoesOn
<1> SUFFICES ASSUME IInv, main # "over", ~ToolGoes PROVE MainGoes
  BY DEF TurnGoesOn
<1> USE DEF IInv
<1>1. main \in Places /\ tool \in {"idle", "queued", "fetching", "persisting", "rejecting"}
      /\ inside \subseteq {"main", "tool"}
  BY Measures DEF TypeOK, Threads
<1>2. "tool" \notin inside
  BY DEF ToolGoes, SessionGoes
<1>3. CASE "main" \in inside
  BY <1>3 DEF MainGoes, SessionGoes
<1>4. CASE "main" \notin inside
  <2>1. inside = {}
    BY <1>1, <1>2, <1>4
  <2>2. SequenceLockFree
    BY <2>1 DEF SequenceLockFree
  <2>3. pending["tool"] = <<>>
    BY <2>2 DEF ToolGoes, SessionGoes
  <2>4. tool = "idle"
    BY <1>1, <2>3 DEF ToolGoes, ToolWorked
  <2>5. CASE pending["main"] # <<>>
    BY <2>2, <2>5 DEF MainGoes, SessionGoes
  <2>6. CASE pending["main"] = <<>>
    BY <1>1, <2>4, <2>6 DEF MainGoes, At, Places, Replies, ExecutionLockFree
  <2> QED
    BY <2>5, <2>6
<1> QED
  BY <1>3, <1>4

\* A turn takes no more steps than the calls its agent may ask for allow, whatever the
\* agent answers and whenever its replies time out: no repair, fallback or late tool
\* sends run_async back to where it was.
THEOREM TurnIsBounded == Spec => TurnShrinks
<1>1. IInv /\ [Next]_vars => [Rank' \in 0..(Rank - 1)]_vars
  <2> SUFFICES ASSUME IInv, Next PROVE Rank' \in 0..(Rank - 1)
    OBVIOUS
  <2>1. CASE \E t \in Threads : SessionStep(t)
    BY <2>1, SessionShrinks
  <2>2. CASE ToolStep
    BY <2>1, <2>2, ToolShrinks DEF ToolStep, Threads
  <2>3. CASE AgentStep
    BY <2>3, CallShrinks, MainShrinks DEF AgentStep
  <2>4. CASE MainStep
    BY <2>1, <2>4, MainShrinks DEF MainStep, Threads
  <2> QED
    BY <2>2, <2>3, <2>4 DEF Next
<1> QED
  BY <1>1, Invariant, PTL DEF Spec, TurnShrinks

\* Until the turn is over, the worker or run_async can go on without the agent: they never
\* wait for each other, nor for a reply without a timeout.
THEOREM TurnNeverHangs == Spec => []TurnGoesOn
  BY Invariant, GoesOn, PTL
=============================================================================
