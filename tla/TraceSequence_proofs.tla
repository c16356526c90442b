------------------------ MODULE TraceSequence_proofs ------------------------
(***************************************************************************)
(* Safety of TraceSequence, for every set of scouts and both modes.        *)
(*                                                                         *)
(* The inductive invariant describes the layout of the sequence numbers:   *)
(* the committed ones are 0..(n-1), and what an open transaction has       *)
(* inserted starts at n.  Two open transactions with events would both     *)
(* hold n, which the unique index forbids, so there is at most one, and a  *)
(* commit extends the timeline at its end.  The last part says when a      *)
(* sweep can hang.                                                         *)
(***************************************************************************)
EXTENDS TraceSequence, TLAPS, FiniteSetTheorems

\* The numbers of the open transactions continue the committed ones.
Layout ==
  \E n \in Nat : /\ committed = 0..(n - 1)
                 /\ \A t \in Sessions : \E k \in Nat : rows[t] = n..((n + k) - 1)

\* Only the sessions that are in use have rows, and none whose scout is out.
Idle ==
  /\ parallel => rows["main"] = {}
  /\ \A s \in Scouts : ~parallel \/ pc[s] \in Ended => rows[s] = {}

\* A scout between its read and its insert holds the lock; the number it read
\* is the next one, or has been committed by another since.
Prepared ==
  \A s \in Scouts :
    /\ pc[s] \in {"reading", "inserting"} => lock = s /\ events[s] < MaxEvents
    /\ pc[s] = "inserting" =>
         seq[s] \in committed \/ seq[s] = NextSeq(committed \union rows[SessionOf(s)])

IInv == TypeOK /\ Layout /\ OneWriter /\ Idle /\ Prepared

-----------------------------------------------------------------------------
(* Sequence numbers *)

\* The number after 0..(n-1) is n.
LEMMA NextOfInterval ==
  ASSUME NEW n \in Nat
  PROVE  NextSeq(0..(n - 1)) = n
<1>1. CASE n = 0
  BY <1>1 DEF NextSeq
<1>2. CASE n # 0
  <2> DEFINE P(m) == m \in 0..(n - 1) /\ \A i \in 0..(n - 1) : i <= m
  <2>1. P(n - 1)
    BY <1>2
  <2>2. \A m : P(m) => m = n - 1
    BY <1>2
  <2>3. (CHOOSE m \in 0..(n - 1) : \A i \in 0..(n - 1) : i <= m) = n - 1
    BY <2>1, <2>2
  <2>4. 0..(n - 1) # {}
    BY <2>1
  <2> QED
    BY <2>3, <2>4 DEF NextSeq
<1> QED
  BY <1>1, <1>2

\* What follows an interval extends it.
LEMMA Joined ==
  ASSUME NEW n \in Nat, NEW k \in Nat
  PROVE  /\ (0..(n - 1)) \union (n..((n + k) - 1)) = 0..((n + k) - 1)
         /\ NextSeq((0..(n - 1)) \union (n..((n + k) - 1))) = n + k
<1>1. (0..(n - 1)) \union (n..((n + k) - 1)) = 0..((n + k) - 1)
  OBVIOUS
<1>2. NextSeq(0..((n + k) - 1)) = n + k
  BY NextOfInterval
<1> QED
  BY <1>1, <1>2, Zenon

\* Every session sees the committed numbers and, behind them, its own.
LEMMA Shape ==
  ASSUME Layout, NEW n, n = NextSeq(committed)
  PROVE  /\ n \in Nat /\ committed = 0..(n - 1)
         /\ \A t \in Sessions :
              \E k \in Nat : /\ rows[t] = n..((n + k) - 1)
                             /\ committed \union rows[t] = 0..((n + k) - 1)
                             /\ NextSeq(committed \union rows[t]) = n + k
<1>1. PICK i \in Nat : /\ committed = 0..(i - 1)
                       /\ \A u \in Sessions : \E k \in Nat : rows[u] = i..((i + k) - 1)
  BY DEF Layout
<1>2. n = i
  BY <1>1, NextOfInterval
<1>3. ASSUME NEW t \in Sessions
      PROVE  \E k \in Nat : /\ rows[t] = n..((n + k) - 1)
                            /\ committed \union rows[t] = 0..((n + k) - 1)
                            /\ NextSeq(committed \union rows[t]) = n + k
  <2>1. PICK k \in Nat : rows[t] = i..((i + k) - 1)
    BY <1>1
  <2>2. rows[t] = n..((n + k) - 1) /\ committed = 0..(n - 1) /\ n \in Nat
    BY <1>1, <1>2, <2>1
  <2>3. /\ committed \union rows[t] = 0..((n + k) - 1)
        /\ NextSeq(committed \union rows[t]) = n + k
    BY <2>2, Joined, Zenon
  <2> QED
    BY <2>2, <2>3, Zenon
<1> QED
  BY <1>1, <1>2, <1>3

\* Every scout works on a session.
LEMMA SessionType ==
  ASSUME NEW s \in Scouts
  PROVE  SessionOf(s) \in Sessions /\ s \in Sessions /\ "main" \in Sessions
BY DEF SessionOf, Sessions

-----------------------------------------------------------------------------
(* The steps *)

LEMMA InitInvariant == Init => IInv
<1> SUFFICES ASSUME Init PROVE IInv
  OBVIOUS
<1> USE TraceAssumption
<1>1. TypeOK
  BY DEF Init, TypeOK, Sessions, Ended
<1>2. Layout
  <2>1. ASSUME NEW t \in Sessions
        PROVE  rows[t] = Before..((Before + 0) - 1)
    BY DEF Init
  <2>2. committed = 0..(Before - 1) /\ Before \in Nat
    BY DEF Init
  <2> QED
    BY <2>1, <2>2, Zenon DEF Layout
<1>3. OneWriter /\ Idle /\ Prepared
  BY DEF Init, OneWriter, Idle, Prepared, Sessions
<1> QED
  BY <1>1, <1>2, <1>3 DEF IInv

LEMMA AcquireInvariant ==
  ASSUME IInv, NEW s \in Scouts, Acquire(s)
  PROVE  IInv'
<1> USE TraceAssumption DEF IInv, Acquire
<1>1. TypeOK'
  BY DEF TypeOK, Ended
<1>2. Layout' /\ OneWriter'
  BY DEF Layout, OneWriter
<1>3. Idle'
  BY DEF Idle, TypeOK, Ended
<1>4. Prepared'
  <2> SUFFICES ASSUME NEW t \in Scouts, pc'[t] \in {"reading", "inserting"}
               PROVE  t = s /\ pc'[t] # "inserting"
    BY DEF Prepared, TypeOK
  <2> QED
    BY DEF Prepared, TypeOK
<1> QED
  BY <1>1, <1>2, <1>3, <1>4

LEMMA ReadInvariant ==
  ASSUME IInv, NEW s \in Scouts, Read(s)
  PROVE  IInv'
<1> USE TraceAssumption DEF IInv, Read
<1>1. NextSeq(committed \union rows[SessionOf(s)]) \in Nat
  <2>1. PICK k \in Nat : NextSeq(committed \union rows[SessionOf(s)]) = NextSeq(committed) + k
    BY Shape, SessionType
  <2> QED
    BY <2>1, Shape
<1>2. TypeOK'
  BY <1>1 DEF TypeOK, Ended
<1>3. Layout' /\ OneWriter'
  BY DEF Layout, OneWriter
<1>4. Idle'
  BY DEF Idle, TypeOK, Ended
<1>5. Prepared'
  BY DEF Prepared, TypeOK, SessionOf
<1> QED
  BY <1>2, <1>3, <1>4, <1>5

\* An interval without its first number is empty.
LEMMA NoFirst ==
  ASSUME NEW n \in Nat, NEW j \in Nat, n \notin n..((n + j) - 1)
  PROVE  n..((n + j) - 1) = {}
<1>1. j = 0
  OBVIOUS
<1> QED
  BY <1>1

\* Another transaction with events would hold n, and so would this one.
LEMMA InsertExcludes ==
  ASSUME IInv, NEW s \in Scouts, Insert(s), NEW t \in Sessions \ {SessionOf(s)}
  PROVE  rows[t] = {}
<1>1. PICK n \in Nat : n = NextSeq(committed) /\ committed = 0..(n - 1)
  BY Shape DEF IInv
<1>2. PICK k \in Nat : /\ rows[SessionOf(s)] = n..((n + k) - 1)
                       /\ NextSeq(committed \union rows[SessionOf(s)]) = n + k
  BY <1>1, SessionType, Shape DEF IInv
<1>3. seq[s] = n + k /\ seq[s] \notin rows[t]
  BY <1>2 DEF IInv, Prepared, Insert, Blocked
<1>4. CASE k = 0
  <2>1. PICK j \in Nat : /\ rows[t] = n..((n + j) - 1)
                         /\ NextSeq(committed \union rows[t]) = n + j
    BY <1>1, Shape DEF IInv
  <2>2. n \notin rows[t]
    BY <1>3, <1>4
  <2> QED
    BY <2>1, <2>2, NoFirst
<1>5. CASE k # 0
  <2>1. rows[SessionOf(s)] # {}
    <3>1. n \in rows[SessionOf(s)]
      BY <1>2, <1>5
    <3> QED
      BY <3>1
  <2> QED
    BY <2>1, SessionType DEF IInv, OneWriter
<1> QED
  BY <1>4, <1>5

LEMMA InsertInvariant ==
  ASSUME IInv, NEW s \in Scouts, Insert(s)
  PROVE  IInv'
<1> USE TraceAssumption
<1>1. PICK n \in Nat : n = NextSeq(committed) /\ committed = 0..(n - 1)
  BY Shape DEF IInv
<1>2. PICK T \in Sessions : T = SessionOf(s)
  BY SessionType
<1>3. PICK k \in Nat : /\ rows[T] = n..((n + k) - 1)
                       /\ NextSeq(committed \union rows[T]) = n + k
  BY <1>1, <1>2, Shape DEF IInv
<1>4. seq[s] = n + k
  BY <1>2, <1>3 DEF IInv, Prepared, Insert
<1>5. \A t \in Sessions : t # T => rows[t] = {}
  BY <1>2, InsertExcludes
<1>6. rows \in [Sessions -> SUBSET Nat]
  BY DEF IInv, TypeOK
<1>7. rows' = [rows EXCEPT ![T] = n..((n + (k + 1)) - 1)]
  <2>1. (n..((n + k) - 1)) \union {n + k} = n..((n + (k + 1)) - 1)
    OBVIOUS
  <2> QED
    BY <1>2, <1>3, <1>4, <1>6, <2>1 DEF Insert
<1>8. \A t \in Sessions : rows'[t] = IF t = T THEN n..((n + (k + 1)) - 1) ELSE {}
  BY <1>5, <1>6, <1>7
<1>9. TypeOK'
  <2>1. rows' \in [Sessions -> SUBSET Nat]
    BY <1>6, <1>7
  <2>2. events' \in [Scouts -> 0..MaxEvents]
    <3>1. events[s] + 1 \in 0..MaxEvents
      <4>1. events[s] \in 0..MaxEvents
        BY DEF IInv, TypeOK
      <4>2. events[s] < MaxEvents
        BY DEF IInv, Prepared, Insert
      <4> QED
        BY <4>1, <4>2
    <3> QED
      BY <3>1 DEF IInv, TypeOK, Insert
  <2>3. pc' \in [Scouts -> {"ready", "reading", "inserting"} \union Ended]
    BY DEF IInv, TypeOK, Insert
  <2> QED
    BY <2>1, <2>2, <2>3 DEF IInv, TypeOK, Insert
<1>10. Layout'
  <2>1. {} = n..((n + 0) - 1)
    OBVIOUS
  <2>2. ASSUME NEW t \in Sessions
        PROVE  \E j \in Nat : rows'[t] = n..((n + j) - 1)
    <3>1. CASE t = T
      <4>1. k + 1 \in Nat /\ rows'[t] = n..((n + (k + 1)) - 1)
        BY <1>8, <3>1
      <4> QED
        BY <4>1, Zenon
    <3>2. CASE t # T
      <4>1. rows'[t] = n..((n + 0) - 1)
        BY <1>8, <2>1, <3>2
      <4> QED
        BY <4>1, Zenon
    <3> QED
      BY <3>1, <3>2
  <2>3. committed' = 0..(n - 1)
    BY <1>1 DEF Insert
  <2> QED
    BY <2>2, <2>3, Zenon DEF Layout
<1>11. OneWriter'
  BY <1>8 DEF OneWriter
<1>12. Idle'
  BY <1>2, <1>8 DEF IInv, TypeOK, Insert, Idle, Ended, SessionOf, Sessions
<1>13. Prepared'
  BY DEF IInv, TypeOK, Insert, Prepared
<1> QED
  BY <1>9, <1>10, <1>11, <1>12, <1>13 DEF IInv

\* The rows of a session are discarded.
LEMMA RollbackKeepsLayout ==
  ASSUME IInv, NEW t \in Sessions,
         rows' = [rows EXCEPT ![t] = {}], committed' = committed
  PROVE  Layout' /\ OneWriter'
<1>1. PICK n \in Nat : n = NextSeq(committed) /\ committed = 0..(n - 1)
  BY Shape DEF IInv
<1>2. {} = n..((n + 0) - 1)
  OBVIOUS
<1>3. \A u \in Sessions : rows'[u] = IF u = t THEN {} ELSE rows[u]
  BY DEF IInv, TypeOK
<1>4. ASSUME NEW u \in Sessions
      PROVE  \E j \in Nat : rows'[u] = n..((n + j) - 1)
  <2>1. CASE u = t
    BY <1>2, <1>3, <2>1, Zenon
  <2>2. CASE u # t
    <3>1. PICK j \in Nat : /\ rows[u] = n..((n + j) - 1)
                           /\ NextSeq(committed \union rows[u]) = n + j
      BY <1>1, Shape DEF IInv
    <3> QED
      BY <1>3, <2>2, <3>1, Zenon
  <2> QED
    BY <2>1, <2>2
<1>5. Layout'
  BY <1>1, <1>4, Zenon DEF Layout
<1>6. OneWriter'
  BY <1>3 DEF IInv, OneWriter
<1> QED
  BY <1>5, <1>6

LEMMA CollideInvariant ==
  ASSUME IInv, NEW s \in Scouts, Collide(s)
  PROVE  IInv'
<1>1. TypeOK'
  BY DEF IInv, TypeOK, Collide, Ended
<1>2. Layout' /\ OneWriter'
  BY SessionType, RollbackKeepsLayout DEF Collide
<1>3. Idle'
  BY DEF IInv, TypeOK, Collide, Idle, Ended, SessionOf, Sessions
<1>4. Prepared'
  BY DEF IInv, TypeOK, Collide, Prepared
<1> QED
  BY <1>1, <1>2, <1>3, <1>4 DEF IInv

\* Session t commits its rows and j more events.  The timeline is extended at
\* its end, and a number read before is the next one still or is taken now.
LEMMA CommitExtends ==
  ASSUME IInv, NEW t \in Sessions, NEW j \in Nat, NEW m,
         m = NextSeq(committed \union rows[t]),
         committed' = (committed \union rows[t]) \union (m..((m + j) - 1)),
         rows' = [rows EXCEPT ![t] = {}],
         j = 0 \/ \A u \in Sessions \ {t} : rows[u] = {}
  PROVE  /\ Layout' /\ OneWriter' /\ committed' \in SUBSET Nat
         /\ \A u \in Sessions : \/ NextSeq(committed \union rows[u]) \in committed'
                                \/ NextSeq(committed \union rows[u])
                                     = NextSeq(committed' \union rows'[u])
         /\ committed \subseteq committed'
         /\ \A new \in committed' \ committed, old \in committed : old < new
<1>1. PICK n \in Nat : n = NextSeq(committed) /\ committed = 0..(n - 1)
  BY Shape DEF IInv
<1>1a. committed = 0..(n - 1)
  BY <1>1
<1>2. PICK k \in Nat : /\ rows[t] = n..((n + k) - 1)
                       /\ committed \union rows[t] = 0..((n + k) - 1)
                       /\ NextSeq(committed \union rows[t]) = n + k
  BY <1>1, Shape DEF IInv
<1>3. m = n + k /\ m \in Nat /\ m + j \in Nat /\ n <= m /\ m <= m + j
  BY <1>2
<1>4. committed' = 0..((m + j) - 1) /\ NextSeq(committed') = m + j
  <2>1. committed' = (0..(m - 1)) \union (m..((m + j) - 1))
    BY <1>2, <1>3
  <2>2. m \in Nat
    BY <1>3
  <2> QED
    BY <2>1, <2>2, Joined, Zenon
<1>5. \A u \in Sessions : rows'[u] = IF u = t THEN {} ELSE rows[u]
  BY DEF IInv, TypeOK
<1>6. /\ committed' \in SUBSET Nat /\ committed \subseteq committed'
      /\ \A new \in committed' \ committed, old \in committed : old < new
  <2>1. committed' \in SUBSET Nat
    BY <1>3, <1>4
  <2>2. committed \subseteq committed'
    OBVIOUS
  <2>3. ASSUME NEW new \in committed', new \notin committed
        PROVE  new \in Nat /\ n <= new
    BY <1>1a, <1>3, <1>4, <2>3
  <2>4. \A old \in committed : old \in Nat /\ old < n
    BY <1>1a
  <2>5. ASSUME NEW new \in committed' \ committed, NEW old \in committed
        PROVE  old < new
    BY <2>3, <2>4
  <2> QED
    BY <2>1, <2>2, <2>5
<1>7. OneWriter'
  BY <1>5 DEF IInv, OneWriter
<1>8. CASE m + j = n
  <2>1. j = 0 /\ k = 0
    BY <1>3, <1>8
  <2>2. rows[t] = {}
    BY <1>2, <2>1
  <2>3. committed' = committed
    BY <1>1, <1>4, <1>8
  <2>4. \A u \in Sessions : rows'[u] = rows[u]
    BY <1>5, <2>2
  <2>5. Layout'
    <3>1. PICK i \in Nat : /\ committed = 0..(i - 1)
                           /\ \A u \in Sessions : \E l \in Nat : rows[u] = i..((i + l) - 1)
      BY DEF IInv, Layout
    <3>2. \A u \in Sessions : \E l \in Nat : rows'[u] = i..((i + l) - 1)
      BY <2>4, <3>1, Zenon
    <3> QED
      BY <2>3, <3>1, <3>2, Zenon DEF Layout
  <2> QED
    BY <1>6, <1>7, <2>3, <2>4, <2>5
<1>9. CASE m + j # n
  <2>1. ASSUME NEW u \in Sessions, u # t
        PROVE  rows[u] = {}
    <3>1. CASE j = 0
      <4>1. n \in rows[t]
        BY <1>2, <1>3, <1>9, <3>1
      <4> QED
        BY <2>1, <4>1 DEF IInv, OneWriter
    <3> QED
      BY <2>1, <3>1
  <2>2. \A u \in Sessions : rows'[u] = {}
    BY <1>5, <2>1
  <2>3. Layout'
    <3>1. {} = (m + j)..(((m + j) + 0) - 1)
      BY <1>3
    <3> QED
      BY <1>3, <1>4, <2>2, <3>1, Zenon DEF Layout
  <2>4. ASSUME NEW u \in Sessions
        PROVE  \/ NextSeq(committed \union rows[u]) \in committed'
               \/ NextSeq(committed \union rows[u]) = NextSeq(committed' \union rows'[u])
    <3>1. CASE u # t
      <4>1. NextSeq(committed \union rows[u]) = n
        BY <1>1, <2>1, <3>1
      <4>2. n \in 0..((m + j) - 1)
        BY <1>3, <1>9
      <4> QED
        BY <1>4, <4>1, <4>2, Zenon
    <3>2. CASE u = t /\ j # 0
      <4>1. m \in 0..((m + j) - 1)
        BY <1>3, <3>2
      <4> QED
        BY <1>4, <3>2, <4>1
    <3>3. CASE u = t /\ j = 0
      <4>1. committed' \union rows'[u] = committed'
        BY <2>2
      <4>2. NextSeq(committed \union rows[u]) = m /\ m = m + j
        BY <1>3, <3>3
      <4> QED
        BY <1>4, <4>1, <4>2
    <3> QED
      BY <3>1, <3>2, <3>3
  <2> QED
    BY <1>6, <1>7, <2>3, <2>4
<1> QED
  BY <1>8, <1>9

\* After a commit, the numbers read before it are the next ones or taken.
LEMMA CommitKeepsPrepared ==
  ASSUME IInv, NEW t \in Sessions, NEW s \in Scouts, pc[s] # "inserting",
         NEW p, p \notin {"reading", "inserting"},
         pc' = [pc EXCEPT ![s] = p], UNCHANGED <<parallel, events, seq, lock>>,
         committed \subseteq committed',
         \A u \in Sessions : \/ NextSeq(committed \union rows[u]) \in committed'
                             \/ NextSeq(committed \union rows[u])
                                  = NextSeq(committed' \union rows'[u])
  PROVE  Prepared'
<1> SUFFICES ASSUME NEW r \in Scouts
             PROVE  /\ pc'[r] \in {"reading", "inserting"}
                         => lock' = r /\ events'[r] < MaxEvents
                    /\ pc'[r] = "inserting" =>
                         \/ seq'[r] \in committed'
                         \/ seq'[r] = NextSeq(committed' \union rows'[SessionOf(r)])
  BY DEF Prepared, SessionOf
<1>1. pc'[r] \in {"reading", "inserting"} => pc'[r] = pc[r]
  BY DEF IInv, TypeOK
<1>2. pc'[r] \in {"reading", "inserting"} => lock' = r /\ events'[r] < MaxEvents
  BY <1>1 DEF IInv, Prepared
<1>3. ASSUME pc'[r] = "inserting"
      PROVE  \/ seq'[r] \in committed'
             \/ seq'[r] = NextSeq(committed' \union rows'[SessionOf(r)])
  <2>1. seq'[r] = seq[r] /\ SessionOf(r) \in Sessions
    BY SessionType
  <2>2. seq[r] \in committed \/ seq[r] = NextSeq(committed \union rows[SessionOf(r)])
    BY <1>1, <1>3 DEF IInv, Prepared
  <2> QED
    BY <2>1, <2>2, Zenon
<1> QED
  BY <1>2, <1>3

\* In parallel mode only scouts that are going on have rows, and the main
\* session has none; in serial mode only the main session has any.
LEMMA SucceedFacts ==
  ASSUME IInv, NEW s \in Scouts, Succeed(s)
  PROVE  /\ IInv'
         /\ committed \subseteq committed'
         /\ \A new \in committed' \ committed, old \in committed : old < new
<1>1. CASE parallel
  <2>1. PICK m : m = NextSeq(committed \union rows[s])
    OBVIOUS
  <2>2. committed' = (committed \union rows[s]) \union (m..((m + 0) - 1))
    <3>1. m \in Nat
      BY <2>1, Shape, SessionType DEF IInv
    <3>2. m..((m + 0) - 1) = {}
      BY <3>1
    <3> QED
      BY <1>1, <3>2 DEF Succeed
  <2>3. rows' = [rows EXCEPT ![s] = {}]
    BY <1>1 DEF Succeed
  <2>4. /\ Layout' /\ OneWriter' /\ committed' \in SUBSET Nat
        /\ \A u \in Sessions : \/ NextSeq(committed \union rows[u]) \in committed'
                               \/ NextSeq(committed \union rows[u])
                                    = NextSeq(committed' \union rows'[u])
        /\ committed \subseteq committed'
        /\ \A new \in committed' \ committed, old \in committed : old < new
    BY <2>1, <2>2, <2>3, SessionType, CommitExtends
  <2>5. TypeOK'
    BY <2>3, <2>4 DEF IInv, TypeOK, Succeed, Ended
  <2>6. Idle'
    BY <1>1, <2>3 DEF IInv, TypeOK, Succeed, Idle, Sessions
  <2>7. Prepared'
    BY <2>4, SessionType, CommitKeepsPrepared DEF Succeed
  <2> QED
    BY <2>4, <2>5, <2>6, <2>7 DEF IInv
<1>2. CASE ~parallel
  <2>1. UNCHANGED <<rows, committed>>
    BY <1>2 DEF Succeed
  <2>2. TypeOK'
    BY <2>1 DEF IInv, TypeOK, Succeed, Ended
  <2>3. Layout' /\ OneWriter'
    BY <2>1 DEF IInv, Layout, OneWriter
  <2>4. Idle'
    BY <1>2, <2>1 DEF IInv, TypeOK, Succeed, Idle, Sessions
  <2>5. Prepared'
    BY <2>1 DEF IInv, TypeOK, Succeed, Prepared, SessionOf
  <2> QED
    BY <2>1, <2>2, <2>3, <2>4, <2>5 DEF IInv
<1> QED
  BY <1>1, <1>2

LEMMA FailAgentFacts ==
  ASSUME IInv, NEW s \in Scouts, FailAgent(s)
  PROVE  /\ IInv'
         /\ committed \subseteq committed'
         /\ \A new \in committed' \ committed, old \in committed : old < new
<1>1. CASE parallel
  <2>1. rows' = [rows EXCEPT ![s] = {}] /\ committed' = committed
    BY <1>1 DEF FailAgent
  <2>2. Layout' /\ OneWriter'
    BY <2>1, SessionType, RollbackKeepsLayout
  <2>3. TypeOK'
    BY <2>1 DEF IInv, TypeOK, FailAgent, Ended
  <2>4. Idle'
    BY <1>1, <2>1 DEF IInv, TypeOK, FailAgent, Idle, Sessions
  <2>5. Prepared'
    BY <1>1, <2>1 DEF IInv, TypeOK, FailAgent, Prepared, SessionOf, Sessions
  <2> QED
    BY <2>1, <2>2, <2>3, <2>4, <2>5 DEF IInv
<1>2. CASE ~parallel /\ ContinueOnError
  <2>1. PICK m : m = NextSeq(committed \union rows["main"])
    OBVIOUS
  <2>2. committed' = (committed \union rows["main"]) \union (m..((m + 1) - 1))
    <3>1. m \in Nat
      BY <2>1, Shape, SessionType DEF IInv
    <3>2. m..((m + 1) - 1) = {m}
      BY <3>1
    <3> QED
      BY <1>2, <2>1, <3>2 DEF FailAgent
  <2>3. rows' = [rows EXCEPT !["main"] = {}]
    BY <1>2 DEF FailAgent
  <2>4. \A u \in Sessions \ {"main"} : rows[u] = {}
    BY <1>2 DEF IInv, Idle, Sessions
  <2>5. /\ Layout' /\ OneWriter' /\ committed' \in SUBSET Nat
        /\ \A u \in Sessions : \/ NextSeq(committed \union rows[u]) \in committed'
                               \/ NextSeq(committed \union rows[u])
                                    = NextSeq(committed' \union rows'[u])
        /\ committed \subseteq committed'
        /\ \A new \in committed' \ committed, old \in committed : old < new
    BY <2>1, <2>2, <2>3, <2>4, SessionType, CommitExtends
  <2>6. TypeOK'
    BY <2>3, <2>5 DEF IInv, TypeOK, FailAgent, Ended
  <2>7. Idle'
    BY <1>2, <2>3 DEF IInv, TypeOK, FailAgent, Idle, Sessions
  <2>8. Prepared'
    BY <2>5, SessionType, CommitKeepsPrepared DEF FailAgent
  <2> QED
    BY <2>5, <2>6, <2>7, <2>8 DEF IInv
<1>3. CASE ~parallel /\ ~ContinueOnError
  <2>1. UNCHANGED <<rows, committed>>
    BY <1>3 DEF FailAgent
  <2>2. TypeOK'
    BY <2>1 DEF IInv, TypeOK, FailAgent, Ended
  <2>3. Layout' /\ OneWriter'
    BY <2>1 DEF IInv, Layout, OneWriter
  <2>4. Idle'
    BY <1>3, <2>1 DEF IInv, TypeOK, FailAgent, Idle, Sessions
  <2>5. Prepared'
    BY <2>1 DEF IInv, TypeOK, FailAgent, Prepared, SessionOf
  <2> QED
    BY <2>1, <2>2, <2>3, <2>4, <2>5 DEF IInv
<1> QED
  BY <1>1, <1>2, <1>3

LEMMA FinishFacts ==
  ASSUME IInv, Finish
  PROVE  /\ IInv'
         /\ committed \subseteq committed'
         /\ \A new \in committed' \ committed, old \in committed : old < new
<1>1. PICK m : m = NextSeq(committed \union rows["main"])
  OBVIOUS
<1>2. m \in Nat
  <2>1. "main" \in Sessions
    BY DEF Sessions
  <2>2. NextSeq(committed) \in Nat
    BY Shape DEF IInv
  <2>3. PICK k \in Nat : m = NextSeq(committed) + k
    BY <1>1, <2>1, Shape DEF IInv
  <2> QED
    BY <2>2, <2>3
<1>3. PICK skips \in Nat : committed' = (committed \union rows["main"]) \union (m..(m + skips))
  <2>1. Cardinality({s \in Scouts : pc[s] = "skipped"}) \in Nat
    BY FS_Subset, FS_CardinalityType, TraceAssumption
  <2> QED
    BY <1>1, <2>1 DEF Finish
<1>4. committed' = (committed \union rows["main"]) \union (m..((m + (skips + 1)) - 1))
  <2>1. m + skips = (m + (skips + 1)) - 1
    BY <1>2
  <2> QED
    BY <1>3, <2>1
<1>5. rows' = [rows EXCEPT !["main"] = {}]
  BY DEF Finish
<1>6. \A u \in Sessions \ {"main"} : rows[u] = {}
  BY DEF IInv, Idle, Sessions, Finish, ScoutsEnded
<1>7. /\ Layout' /\ OneWriter' /\ committed' \in SUBSET Nat
      /\ \A u \in Sessions : \/ NextSeq(committed \union rows[u]) \in committed'
                             \/ NextSeq(committed \union rows[u])
                                  = NextSeq(committed' \union rows'[u])
      /\ committed \subseteq committed'
      /\ \A new \in committed' \ committed, old \in committed : old < new
  <2>1. skips + 1 \in Nat
    OBVIOUS
  <2>2. "main" \in Sessions
    BY DEF Sessions
  <2> QED
    BY <1>1, <1>4, <1>5, <1>6, <2>1, <2>2, CommitExtends
<1>8. TypeOK'
  BY <1>5, <1>7 DEF IInv, TypeOK, Finish
<1>9. Idle'
  BY <1>5 DEF IInv, TypeOK, Finish, Idle, Sessions
<1>10. Prepared'
  <2> SUFFICES ASSUME NEW s \in Scouts, pc[s] = "inserting"
               PROVE  \/ seq[s] \in committed'
                      \/ seq[s] = NextSeq(committed' \union rows'[SessionOf(s)])
    BY DEF IInv, Prepared, Finish, SessionOf
  <2>1. SessionOf(s) \in Sessions
    BY SessionType
  <2>2. seq[s] \in committed \/ seq[s] = NextSeq(committed \union rows[SessionOf(s)])
    BY DEF IInv, Prepared
  <2> QED
    BY <1>7, <2>1, <2>2, Zenon
<1> QED
  BY <1>7, <1>8, <1>9, <1>10 DEF IInv

-----------------------------------------------------------------------------
(* The theorems *)

\* Every step keeps the layout and lets the timeline only grow at its end.
LEMMA StepFacts ==
  ASSUME IInv, [Next]_vars
  PROVE  /\ IInv'
         /\ committed \subseteq committed'
         /\ \A new \in committed' \ committed, old \in committed : old < new
<1>1. CASE Finish
  BY <1>1, FinishFacts
<1>2. ASSUME NEW s \in Scouts, ScoutStep(s)
      PROVE  /\ IInv'
             /\ committed \subseteq committed'
             /\ \A new \in committed' \ committed, old \in committed : old < new
  <2>1. CASE Acquire(s)
    BY <2>1, AcquireInvariant DEF Acquire
  <2>2. CASE Read(s)
    BY <2>2, ReadInvariant DEF Read
  <2>3. CASE Insert(s)
    BY <2>3, InsertInvariant DEF Insert
  <2>4. CASE Collide(s)
    BY <2>4, CollideInvariant DEF Collide
  <2>5. CASE Succeed(s)
    BY <2>5, SucceedFacts
  <2>6. CASE FailAgent(s)
    BY <2>6, FailAgentFacts
  <2> QED
    BY <1>2, <2>1, <2>2, <2>3, <2>4, <2>5, <2>6 DEF ScoutStep
<1>3. CASE UNCHANGED vars
  <2>1. TypeOK' /\ OneWriter' /\ Idle'
    BY <1>3 DEF vars, IInv, TypeOK, OneWriter, Idle
  <2>2. Layout'
    BY <1>3 DEF vars, IInv, Layout
  <2>3. Prepared'
    BY <1>3 DEF vars, IInv, Prepared, SessionOf
  <2> QED
    BY <1>3, <2>1, <2>2, <2>3 DEF vars, IInv
<1> QED
  BY <1>1, <1>2, <1>3 DEF Next

\* The layout of the numbers is an invariant, for any number of scouts.
THEOREM Invariance == Spec => []IInv
<1>1. IInv /\ [Next]_vars => IInv'
  BY StepFacts
<1> QED
  BY InitInvariant, <1>1, PTL DEF Spec

\* The state keeps its types, however many scouts there are.
THEOREM TypeCorrect == Spec => []TypeOK
<1>1. IInv => TypeOK
  BY DEF IInv
<1> QED
  BY Invariance, <1>1, PTL

\* Two scouts never have events in open transactions at the same time, so the
\* trace of a sweep is written by one scout at a time.
THEOREM SingleWriter == Spec => []OneWriter
<1>1. IInv => OneWriter
  BY DEF IInv
<1> QED
  BY Invariance, <1>1, PTL

\* The committed numbers of a run are 0..(n-1), whatever was rolled back.
THEOREM NoGaps == Spec => []Gapless
<1>1. ASSUME IInv PROVE Gapless
  <2>1. PICK n \in Nat : committed = 0..(n - 1)
    BY <1>1 DEF IInv, Layout
  <2>2. Cardinality(committed) = n
    <3>1. CASE n = 0
      BY <2>1, <3>1, FS_EmptySet
    <3>2. CASE n # 0
      BY <2>1, <3>2, FS_Interval
    <3> QED
      BY <3>1, <3>2
  <2>3. n \in 0..(1 + Cardinality(committed))
    BY <2>2
  <2> QED
    BY <2>1, <2>3 DEF Gapless
<1> QED
  BY Invariance, <1>1, PTL

\* A commit leaves no gap and adds numbers above every number committed before it.
THEOREM CommitsInOrder == Spec => TimelineGrows
<1>1. IInv /\ [Next]_vars =>
        [/\ committed \subseteq committed'
         /\ \A new \in committed' \ committed, old \in committed : old < new]_vars
  BY StepFacts
<1> QED
  BY Invariance, <1>1, NoGaps, PTL DEF Spec, TimelineGrows

-----------------------------------------------------------------------------
(* Collisions *)

\* A scout that is at work, or has raised.
Begun(s) == ~(pc[s] = "ready" /\ events[s] = 0) /\ pc[s] \notin {"done", "skipped"}

\* Serial scouts work one at a time; a parallel scout with events keeps their
\* rows open; and a number is taken by a finished scout and before the first event
\* only.
Undisturbed ==
  /\ ~parallel => \A s, t \in Scouts : Begun(s) /\ Begun(t) => s = t
  /\ \A s \in Scouts : parallel /\ events[s] > 0 /\ pc[s] \notin Ended => rows[s] # {}
  /\ \A s \in Scouts :
       pc[s] = "inserting" /\ seq[s] \in committed =>
         parallel /\ events[s] = 0 /\ \E t \in Scouts : pc[t] = "done"

\* The mode of a sweep does not change.
LEMMA ModeFixed ==
  ASSUME NEW s \in Scouts, ScoutStep(s)
  PROVE  parallel' = parallel
BY DEF ScoutStep, Acquire, Read, Insert, Collide, Succeed, FailAgent

LEMMA InitUndisturbed == Init => Undisturbed
BY DEF Init, Undisturbed, Begun

\* No step makes a second serial scout begin, or takes the rows of a scout
\* that goes on.
LEMMA UndisturbedStep ==
  ASSUME IInv, Undisturbed, NEW s \in Scouts, ScoutStep(s)
  PROVE  /\ (~parallel => \A r, t \in Scouts : Begun(r) /\ Begun(t) => r = t)'
         /\ (\A r \in Scouts : parallel /\ events[r] > 0 /\ pc[r] \notin Ended
                                 => rows[r] # {})'
<1>1. \A r \in Scouts : r # s => pc'[r] = pc[r] /\ events'[r] = events[r]
  BY DEF IInv, TypeOK, ScoutStep, Acquire, Read, Insert, Collide, Succeed, FailAgent
<1>2. ASSUME ~parallel, NEW r \in Scouts, NEW t \in Scouts, Begun(r)', Begun(t)', r # t
      PROVE  FALSE
  <2>1. ~Acquire(s) => (Begun(s)' => Begun(s))
    BY DEF IInv, TypeOK, ScoutStep, Read, Insert, Collide, Succeed, FailAgent, Begun
  <2>2. \A u \in Scouts \ {s} : Begun(u)' => Begun(u)
    BY <1>1 DEF Begun
  <2>3. Acquire(s) => \A u \in Scouts \ {s} : ~Begun(u)
    BY <1>2 DEF Acquire, Turn, Begun
  <2> QED
    BY <1>2, <2>1, <2>2, <2>3 DEF Undisturbed
<1>3. ASSUME parallel, NEW r \in Scouts, events'[r] > 0, pc'[r] \notin Ended
      PROVE  rows'[r] # {}
  <2>1. CASE r = s
    <3>1. CASE Acquire(s) \/ Read(s)
      BY <1>3, <2>1, <3>1 DEF IInv, TypeOK, Acquire, Read, Undisturbed, Ended
    <3>2. CASE Insert(s)
      <4>1. seq[s] \in rows'[s]
        BY <1>3, <3>2 DEF IInv, TypeOK, Insert, SessionOf, Sessions
      <4> QED
        BY <2>1, <4>1
    <3>3. CASE Collide(s) \/ Succeed(s) \/ FailAgent(s)
      BY <1>3, <2>1, <3>3 DEF IInv, TypeOK, Collide, Succeed, FailAgent, Ended
    <3> QED
      BY <3>1, <3>2, <3>3 DEF ScoutStep
  <2>2. CASE r # s
    <3>1. rows'[r] = rows[r]
      BY <1>3, <2>2 DEF IInv, TypeOK, ScoutStep, Acquire, Read, Insert, Collide,
                        Succeed, FailAgent, SessionOf, Sessions
    <3> QED
      BY <1>1, <1>3, <2>2, <3>1 DEF Undisturbed
  <2> QED
    BY <2>1, <2>2
<1> QED
  BY <1>2, <1>3, ModeFixed

\* A commit takes the number of a waiting scout only if that one has no rows:
\* with rows it would be a second writer.  And the commit is that of a success.
LEMMA NumbersTakenFirst ==
  ASSUME IInv, Undisturbed, NEW s \in Scouts, ScoutStep(s),
         NEW r \in Scouts, pc'[r] = "inserting", seq'[r] \in committed'
  PROVE  parallel /\ events'[r] = 0 /\ \E t \in Scouts : pc'[t] = "done"
<1>0. ASSUME NEW t \in Scouts, pc[t] = "done" PROVE pc'[t] = "done"
  BY <1>0 DEF IInv, TypeOK, ScoutStep, Acquire, Read, Insert, Collide, Succeed, FailAgent
<1>1. CASE Read(s)
  <2>1. CASE r = s
    <3>1. PICK n \in Nat : n = NextSeq(committed) /\ committed = 0..(n - 1)
      BY Shape DEF IInv
    <3>2. PICK k \in Nat : NextSeq(committed \union rows[SessionOf(s)]) = n + k
      BY <3>1, SessionType, Shape DEF IInv
    <3>3. n + k \notin 0..(n - 1)
      OBVIOUS
    <3>4. seq'[s] = n + k /\ committed' = committed
      BY <1>1, <3>2 DEF IInv, TypeOK, Read
    <3> QED
      BY <2>1, <3>1, <3>3, <3>4
  <2>2. CASE r # s
    BY <1>0, <1>1, <2>2 DEF IInv, TypeOK, Read, Undisturbed
  <2> QED
    BY <2>1, <2>2
<1>2. CASE Acquire(s) \/ Insert(s) \/ Collide(s)
  BY <1>0, <1>2 DEF IInv, TypeOK, Acquire, Insert, Collide, Undisturbed
<1>3. CASE Succeed(s) \/ FailAgent(s)
  <2>1. r # s /\ pc[r] = "inserting" /\ seq'[r] = seq[r] /\ events'[r] = events[r]
    BY <1>3 DEF IInv, TypeOK, Succeed, FailAgent
  <2>2. CASE seq[r] \in committed
    BY <1>0, <2>1, <2>2 DEF Undisturbed
  <2>3. CASE seq[r] \notin committed /\ parallel
    <3>1. committed' = committed \union rows[s]
      <4>1. CASE Succeed(s)
        BY <2>3, <4>1 DEF Succeed
      <4>2. CASE FailAgent(s)
        BY <2>1, <2>3, <4>2 DEF FailAgent
      <4> QED
        BY <1>3, <4>1, <4>2
    <3>2. rows[s] # {}
      BY <2>1, <2>3, <3>1
    <3>3. rows[r] = {}
      BY <2>1, <3>2 DEF IInv, OneWriter, Sessions
    <3>4. ~(events[r] > 0)
      BY <2>1, <2>3, <3>3 DEF Undisturbed, Ended
    <3>5. events[r] \in Nat
      BY TraceAssumption DEF IInv, TypeOK
    <3>6. committed' # committed
      BY <2>1, <2>3
    <3>7. ~FailAgent(s)
      BY <2>3, <3>6 DEF FailAgent
    <3>8. pc'[s] = "done"
      BY <1>3, <3>7 DEF Succeed, IInv, TypeOK
    <3> QED
      BY <2>1, <2>3, <3>4, <3>5, <3>8
  <2>4. CASE ~parallel
    <3>1. Begun(s)
      BY <1>3 DEF IInv, TypeOK, Succeed, FailAgent, Begun
    <3>2. Begun(r)
      BY <2>1 DEF Begun
    <3> QED
      BY <2>1, <2>4, <3>1, <3>2 DEF Undisturbed
  <2> QED
    BY <2>2, <2>3, <2>4
<1> QED
  BY <1>1, <1>2, <1>3 DEF ScoutStep

LEMMA UndisturbedInvariant ==
  ASSUME IInv, Undisturbed, [Next]_vars
  PROVE  Undisturbed'
<1>1. ASSUME NEW s \in Scouts, ScoutStep(s) PROVE Undisturbed'
  BY <1>1, UndisturbedStep, NumbersTakenFirst, ModeFixed DEF Undisturbed
<1>2. CASE Finish
  <2>1. UNCHANGED <<parallel, pc, events, seq>>
    BY <1>2 DEF Finish
  <2>2. \A s \in Scouts : rows'[s] = rows[s]
    BY <1>2, TraceAssumption DEF IInv, TypeOK, Finish, Sessions
  <2>3. ASSUME NEW s \in Scouts, pc[s] = "inserting" PROVE FALSE
    <3>1. ~parallel /\ Raised
      BY <1>2, <2>3 DEF Finish, ScoutsEnded, Ended
    <3>2. PICK t \in Scouts : pc[t] = "raised"
      BY <3>1 DEF Raised
    <3>3. Begun(s) /\ Begun(t)
      BY <2>3, <3>2 DEF Begun
    <3> QED
      BY <2>3, <3>1, <3>2, <3>3 DEF Undisturbed
  <2> QED
    BY <2>1, <2>2, <2>3 DEF Undisturbed, Begun
<1>3. CASE UNCHANGED vars
  BY <1>3 DEF vars, Undisturbed, Begun
<1> QED
  BY <1>1, <1>2, <1>3 DEF Next

\* A scout collides only with one that has finished, and before its first event.
THEOREM CollisionsFollow == Spec => []CollisionFollowsFinish
<1>1. Undisturbed => CollisionFollowsFinish
  BY DEF Undisturbed, CollisionFollowsFinish
<1>2. Spec => []Undisturbed
  BY Invariance, InitUndisturbed, UndisturbedInvariant, PTL DEF Spec
<1> QED
  BY <1>1, <1>2, PTL

-----------------------------------------------------------------------------
(* Why a sweep ends, and how a parallel one hangs *)

\* What is left for a scout to do.
Left(s) ==
  IF pc[s] \in Ended THEN 0
  ELSE 3 * (MaxEvents - events[s]) +
       (CASE pc[s] = "ready" -> 3 [] pc[s] = "reading" -> 2 [] pc[s] = "inserting" -> 1)

\* Every step is the end of the sweep, or brings one scout nearer to its end.
SweepShrinks ==
  [][\/ main = "sweeping" /\ main' # "sweeping" /\ \A s \in Scouts : Left(s)' = Left(s)
     \/ /\ main' = main
        /\ \E s \in Scouts : /\ Left(s)' \in 0..(Left(s) - 1)
                             /\ \A t \in Scouts \ {s} : Left(t)' = Left(t)]_vars

\* A guard of a scout's steps holds.
ScoutGoes(s) ==
  \/ pc[s] = "ready" /\ events[s] < MaxEvents /\ Turn(s) /\ lock = "free"
  \/ pc[s] = "ready" /\ events[s] >= 2
  \/ pc[s] = "reading"
  \/ pc[s] = "inserting" /\ (seq[s] \in committed \/ ~Blocked(s))

\* A scout holds the lock and waits for a row of another, which has one event, and
\* waits for the lock to record its next.
Deadlocked ==
  \E s, t \in Scouts :
    /\ lock = s /\ pc[s] = "inserting" /\ seq[s] \in rows[t]
    /\ pc[t] = "ready" /\ events[t] = 1

SweepGoesOn ==
  main = "sweeping" =>
    (parallel /\ Deadlocked <=> ~ScoutsEnded /\ \A s \in Scouts : ~ScoutGoes(s))

\* The lock is held by a scout at work, and rows come with events.
Held ==
  /\ lock # "free" => pc[lock] \in {"reading", "inserting"}
  /\ \A s \in Scouts : rows[s] # {} => events[s] > 0

LEMMA InitHeld == Init => Held
  BY DEF Init, Held, Sessions

LEMMA HeldStep == IInv /\ Held /\ [Next]_vars => Held'
<1> SUFFICES ASSUME IInv, Held, [Next]_vars PROVE Held'
  OBVIOUS
<1> USE DEF IInv, TypeOK
<1>1. CASE Finish \/ UNCHANGED vars
  <2>1. UNCHANGED <<pc, events, lock>> /\ \A s \in Scouts : rows'[s] = rows[s]
    BY <1>1, TraceAssumption DEF Finish, vars, Sessions
  <2> QED
    BY <2>1 DEF Held
<1>2. ASSUME NEW s \in Scouts, ScoutStep(s) PROVE Held'
  <2>1. lock' # "free" => pc'[lock'] \in {"reading", "inserting"}
    BY <1>2 DEF Held, ScoutStep, Acquire, Read, Insert, Collide, Succeed, FailAgent
  <2>2. ASSUME NEW t \in Scouts, rows'[t] # {} PROVE events'[t] > 0
    <3>1. events[t] \in Nat /\ t \in Sessions /\ t # "main" /\ "main" \in Sessions
      BY TraceAssumption DEF Sessions
    <3>2. CASE Insert(s)
      <4>1. t = s => events'[t] = events[t] + 1
        BY <3>2 DEF Insert
      <4>2. t # s => events'[t] = events[t] /\ rows'[t] = rows[t]
        BY <3>1, <3>2 DEF Insert, SessionOf
      <4> QED
        BY <2>2, <3>1, <4>1, <4>2 DEF Held
    <3>3. CASE ~Insert(s)
      <4>1. events'[t] = events[t] /\ rows'[t] \in {rows[t], {}}
        BY <1>2, <3>1, <3>3 DEF ScoutStep, Acquire, Read, Collide, Succeed, FailAgent, SessionOf
      <4> QED
        BY <2>2, <4>1 DEF Held
    <3> QED
      BY <3>2, <3>3
  <2> QED
    BY <2>1, <2>2 DEF Held
<1> QED
  BY <1>1, <1>2 DEF Next

LEMMA ScoutShrinks ==
  ASSUME IInv, NEW s \in Scouts, ScoutStep(s)
  PROVE  /\ main' = main
         /\ Left(s)' \in 0..(Left(s) - 1)
         /\ \A t \in Scouts \ {s} : Left(t)' = Left(t)
<1> USE DEF IInv, TypeOK
<1>1. main' = main /\ \A t \in Scouts \ {s} : pc'[t] = pc[t] /\ events'[t] = events[t]
  BY DEF ScoutStep, Acquire, Read, Insert, Collide, Succeed, FailAgent
<1>2. \A t \in Scouts \ {s} : Left(t)' = Left(t)
  BY <1>1 DEF Left
<1>3. MaxEvents \in Nat /\ events[s] \in Nat /\ events[s] <= MaxEvents
  BY TraceAssumption
<1>4. CASE Acquire(s)
  <2>1. pc[s] = "ready" /\ pc'[s] = "reading" /\ events'[s] = events[s]
    BY <1>4 DEF Acquire
  <2> QED
    BY <1>1, <1>2, <1>3, <2>1 DEF Left, Ended
<1>5. CASE Read(s)
  <2>1. pc[s] = "reading" /\ pc'[s] = "inserting" /\ events'[s] = events[s]
    BY <1>5 DEF Read
  <2> QED
    BY <1>1, <1>2, <1>3, <2>1 DEF Left, Ended
<1>6. CASE Insert(s)
  <2>1. pc[s] = "inserting" /\ pc'[s] = "ready" /\ events'[s] = events[s] + 1
        /\ events[s] < MaxEvents
    BY <1>6 DEF Insert, Prepared
  <2> QED
    BY <1>1, <1>2, <1>3, <2>1 DEF Left, Ended
<1>7. CASE Collide(s) \/ Succeed(s) \/ FailAgent(s)
  <2>1. pc[s] \in {"ready", "inserting"} /\ pc'[s] \in Ended
    BY <1>7 DEF Collide, Succeed, FailAgent, Ended
  <2>2. Left(s)' = 0
    BY <2>1 DEF Left
  <2>3. Left(s) \in Nat /\ Left(s) > 0
    BY <1>3, <2>1 DEF Left, Ended
  <2> QED
    BY <1>1, <1>2, <2>2, <2>3
<1> QED
  BY <1>4, <1>5, <1>6, <1>7 DEF ScoutStep

LEMMA DeadlockedStays ==
  ASSUME IInv, Undisturbed, parallel, Deadlocked
  PROVE  ~ScoutsEnded /\ \A u \in Scouts : ~ScoutGoes(u)
<1> USE DEF IInv, TypeOK
<1>1. PICK s, t \in Scouts : /\ lock = s /\ pc[s] = "inserting" /\ seq[s] \in rows[t]
                           /\ pc[t] = "ready" /\ events[t] = 1
  BY DEF Deadlocked
<1>2. ~ScoutsEnded
  BY <1>1 DEF ScoutsEnded, Ended
<1>3. seq[s] \notin committed
  <2>1. PICK n \in Nat : /\ committed = 0..(n - 1)
                         /\ \A u \in Sessions : \E k \in Nat : rows[u] = n..((n + k) - 1)
    BY DEF Layout
  <2>2. PICK k \in Nat : rows[t] = n..((n + k) - 1)
    BY <2>1, SessionType
  <2>3. seq[s] \in Nat /\ n <= seq[s]
    BY <1>1, <2>2
  <2> QED
    BY <2>1, <2>3
<1>4. ASSUME NEW u \in Scouts, ScoutGoes(u) PROVE FALSE
  <2>1. pc[u] \in {"reading", "inserting"} => u = s
    BY <1>1 DEF Prepared
  <2>2. pc[u] = "ready" /\ events[u] >= 2
    BY <1>1, <1>3, <1>4, <2>1, TraceAssumption DEF ScoutGoes, Blocked, SessionOf, Sessions
  <2>3. rows[u] # {}
    BY <2>2 DEF Undisturbed, Ended
  <2>4. u = t
    BY <1>1, <2>3, SessionType DEF OneWriter
  <2> QED
    BY <1>1, <2>2, <2>4
<1> QED
  BY <1>2, <1>4

LEMMA GoesOn ==
  ASSUME IInv, Undisturbed, Held, ~ScoutsEnded, \A s \in Scouts : ~ScoutGoes(s)
  PROVE  parallel /\ Deadlocked
<1> USE DEF IInv, TypeOK
<1>1. MaxEvents \in Nat /\ MaxEvents > 1 /\ \A s \in Scouts : events[s] \in 0..MaxEvents
  BY TraceAssumption
<1>2. ASSUME NEW s \in Scouts
      PROVE  /\ pc[s] \in {"ready", "inserting"} \union Ended
             /\ pc[s] = "inserting" => Blocked(s) /\ lock = s
             /\ pc[s] = "ready" => events[s] < 2
  <2>1. ~ScoutGoes(s) /\ events[s] \in Nat
    BY <1>1
  <2>2. pc[s] # "reading" /\ (pc[s] = "inserting" => Blocked(s))
    BY <2>1 DEF ScoutGoes
  <2>3. pc[s] = "ready" => events[s] < 2
    BY <2>1 DEF ScoutGoes
  <2> QED
    BY <2>2, <2>3 DEF Prepared
<1>3. ASSUME ~parallel PROVE FALSE
  <2>1. \A s \in Scouts : pc[s] # "inserting"
    BY <1>2, <1>3, SessionType DEF Blocked, Idle, SessionOf, Sessions
  <2>2. lock = "free"
    BY <2>1, <1>2 DEF Held, Ended
  <2>3. ~Raised
    BY <1>3 DEF ScoutsEnded
  <2>4. PICK s \in Scouts : pc[s] = "ready" /\ (\E t \in Scouts : Begun(t) => Begun(s))
    BY <1>2, <2>1 DEF ScoutsEnded
  <2>5. PICK r \in Scouts : pc[r] = "ready" /\ \A t \in Scouts \ {r} : ~Begun(t)
    <3>1. CASE \E t \in Scouts : Begun(t)
      <4>1. PICK r \in Scouts : Begun(r)
        BY <3>1
      <4>2. pc[r] = "ready"
        BY <1>2, <2>1, <2>3, <4>1 DEF Begun, Raised, Ended
      <4> QED
        BY <1>3, <4>1, <4>2 DEF Undisturbed
    <3>2. CASE ~\E t \in Scouts : Begun(t)
      BY <2>4, <3>2
    <3> QED
      BY <3>1, <3>2
  <2>6. Turn(r)
    BY <2>5 DEF Turn, Begun
  <2>7. events[r] < MaxEvents
    BY <1>1, <1>2, <2>5
  <2> QED
    BY <2>2, <2>5, <2>6, <2>7 DEF ScoutGoes
<1>4. CASE parallel
  <2>1. PICK r \in Scouts : pc[r] \notin Ended
    BY DEF ScoutsEnded
  <2>2. lock # "free"
    <3>1. CASE pc[r] = "inserting"
      BY <1>2, <3>1, TraceAssumption
    <3>2. CASE pc[r] = "ready"
      <4>1. events[r] < MaxEvents /\ Turn(r)
        BY <1>1, <1>2, <1>4, <3>2 DEF Turn
      <4> QED
        BY <3>2, <4>1 DEF ScoutGoes
    <3> QED
      BY <1>2, <2>1, <3>1, <3>2
  <2>3. PICK s \in Scouts : lock = s
    BY <2>2
  <2>4. pc[s] = "inserting" /\ Blocked(s)
    BY <1>2, <2>2, <2>3 DEF Held, Ended
  <2>5. PICK t \in Scouts : t # s /\ seq[s] \in rows[t]
    BY <1>4, <2>4 DEF Blocked, Sessions, SessionOf, Idle
  <2>6. pc[t] \notin Ended /\ events[t] > 0
    BY <1>4, <2>5 DEF Idle, Held
  <2>7. pc[t] = "ready" /\ events[t] = 1
    BY <1>1, <1>2, <2>3, <2>5, <2>6
  <2> QED
    BY <1>4, <2>3, <2>4, <2>5, <2>7 DEF Deadlocked
<1> QED
  BY <1>3, <1>4

\* A sweep takes no more steps than the events of its scouts allow, in both modes and
\* whichever scouts fail.
THEOREM SweepIsBounded == Spec => SweepShrinks
<1>1. ASSUME IInv, Next
      PROVE  \/ main = "sweeping" /\ main' # "sweeping" /\ \A s \in Scouts : Left(s)' = Left(s)
             \/ /\ main' = main
                /\ \E s \in Scouts : /\ Left(s)' \in 0..(Left(s) - 1)
                                     /\ \A t \in Scouts \ {s} : Left(t)' = Left(t)
  <2>1. CASE Finish
    BY <2>1 DEF Finish, Left
  <2>2. CASE \E s \in Scouts : ScoutStep(s)
    BY <1>1, <2>2, ScoutShrinks
  <2> QED
    BY <1>1, <2>1, <2>2 DEF Next
<1>2. IInv /\ [Next]_vars =>
        [\/ main = "sweeping" /\ main' # "sweeping" /\ \A s \in Scouts : Left(s)' = Left(s)
         \/ /\ main' = main
            /\ \E s \in Scouts : /\ Left(s)' \in 0..(Left(s) - 1)
                                 /\ \A t \in Scouts \ {s} : Left(t)' = Left(t)]_vars
  BY <1>1
<1> QED
  BY Invariance, <1>2, PTL DEF Spec, SweepShrinks

\* A sweep on one session always goes on.  A parallel sweep hangs exactly where two
\* scouts wait for each other: one holds the lock and waits for a row of the other,
\* which has recorded its first event and waits for the lock to record the second.
THEOREM HangsOnlyDeadlocked == Spec => []SweepGoesOn
<1>1. Spec => []Undisturbed
  BY Invariance, InitUndisturbed, UndisturbedInvariant, PTL DEF Spec
<1>2. Spec => []Held
  BY Invariance, InitHeld, HeldStep, PTL DEF Spec
<1> QED
  <2>1. IInv /\ Undisturbed /\ Held => SweepGoesOn
    BY DeadlockedStays, GoesOn DEF SweepGoesOn
  <2> QED
    BY Invariance, <1>1, <1>2, <2>1, PTL

=============================================================================
