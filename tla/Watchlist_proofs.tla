--------------------------- MODULE Watchlist_proofs ---------------------------
(***************************************************************************)
(* Theorems about Watchlist, for any number of runs, topics and days, any  *)
(* windows of the tiers and any retention.  The inductive invariant adds   *)
(* to the types that a loose key has nothing but evidence                  *)
(* (LooseHasNoCluster): without it, the draft of a due item could name a   *)
(* cluster that was never there.  The rest is about steps, and rests on    *)
(* what marking makes of the items (MarkedItems).                          *)
(***************************************************************************)
EXTENDS Watchlist, TLAPS

LooseHasNoCluster ==
  \A k \in Loose : decision[k] = "none" /\ item[k].cluster # "own"

IInv == TypeOK /\ LooseHasNoCluster

-----------------------------------------------------------------------------
(* Helpers *)

LEMMA RunOfKey == \A k \in Keys : RunOf(k) \in Runs
  BY DEF RunOf, Keys

\* A window lies between the bounds of its tier, so it is a number of days.
LEMMA WindowsAreDays == \A days \in Windows : days \in Nat
  BY WatchAssumption DEF Windows, Within

LEMMA AbsentItem == Absent \notin Items
  BY DEF Absent, Items

LEMMA ItemFields ==
  ASSUME TypeOK, NEW k \in Keys
  PROVE  /\ item[k] \in Items \union {Absent}
         /\ item[k].cluster \in {"none", "own", "alien"} /\ item[k].alien \in BOOLEAN
<1>1. item[k] \in Items \union {Absent}
  BY DEF TypeOK
<1>2. CASE item[k] = Absent
  BY <1>2 DEF Absent
<1>3. CASE item[k] \in Items
  BY <1>3 DEF Items
<1> QED
  BY <1>1, <1>2, <1>3

\* An item that is opened or refreshed is a watched one.
LEMMA WatchedItem ==
  ASSUME TypeOK, NEW k \in Keys, NEW days \in Nat, NEW cluster \in {"none", "own", "alien"},
         NEW alien \in BOOLEAN
  PROVE  /\ Watched(k, days, cluster, alien) \in Items
         /\ Watched(k, days, cluster, alien).status \in {"active", "reactivated"}
         /\ Watched(k, days, cluster, alien).status = "active" => ~IsInactive(k)
         /\ Watched(k, days, cluster, alien).cluster = "own" =>
              item[k].cluster = "own" \/ cluster = "own"
<1>1. day + days \in Nat
  BY DEF TypeOK
<1>2. item[k].cluster \in {"none", "own", "alien"} /\ item[k].alien \in BOOLEAN
  BY ItemFields
<1> DEFINE w == Watched(k, days, cluster, alien)
<1>3. w.cluster \in {"none", "own", "alien"} /\ w.alien \in BOOLEAN
  BY <1>2 DEF Watched
<1>4. w = [status |-> w.status, until |-> day + days, cluster |-> w.cluster, alien |-> w.alien]
  BY DEF Watched
<1>5. w.status \in {"active", "reactivated"} /\ (w.status = "active" => ~IsInactive(k))
  BY DEF Watched
<1>6. w \in Items
  BY <1>1, <1>3, <1>4, <1>5 DEF Items
<1>7. w.cluster = "own" => item[k].cluster = "own" \/ cluster = "own"
  BY DEF Watched
<1> QED
  BY <1>5, <1>6, <1>7

\* Marking changes the status of items, and nothing it is told to leave alone.
LEMMA MarkedItems ==
  ASSUME TypeOK, NEW D, NEW of,
         NEW status \in {"expired", "archived"},
         \A k \in D : "item" \in of[k] => item[k] # Absent,
         NEW k \in Keys
  PROVE  /\ Marked(D, of, status)[k] \in Items \union {Absent}
         /\ (Marked(D, of, status)[k] = Absent) <=> (item[k] = Absent)
         /\ Marked(D, of, status)[k].cluster = item[k].cluster
         /\ Marked(D, of, status)[k].alien = item[k].alien
         /\ \/ Marked(D, of, status)[k] = item[k]
            \/ k \in D /\ "item" \in of[k] /\ HasCluster(k, of[k])
               /\ Marked(D, of, status)[k].status = status
<1>1. CASE k \in D /\ "item" \in of[k] /\ HasCluster(k, of[k])
  <2>1. Marked(D, of, status)[k] = [item[k] EXCEPT !.status = status, !.until = 0]
    BY <1>1 DEF Marked
  <2>2. item[k] \in Items
    BY <1>1 DEF TypeOK
  <2>3. Marked(D, of, status)[k] \in Items
    <3>1. item[k] = [status |-> item[k].status, until |-> item[k].until,
                     cluster |-> item[k].cluster, alien |-> item[k].alien]
          /\ item[k].cluster \in {"none", "own", "alien"} /\ item[k].alien \in BOOLEAN
      BY <2>2 DEF Items
    <3>2. Marked(D, of, status)[k] = [status |-> status, until |-> 0,
                                      cluster |-> item[k].cluster, alien |-> item[k].alien]
      BY <2>1, <3>1
    <3> QED
      BY <3>1, <3>2 DEF Items
  <2>4. /\ Marked(D, of, status)[k].status = status
        /\ Marked(D, of, status)[k].cluster = item[k].cluster
        /\ Marked(D, of, status)[k].alien = item[k].alien
    BY <2>1, <2>2 DEF Items
  <2> QED
    BY <1>1, <2>2, <2>3, <2>4, AbsentItem
<1>2. CASE ~(k \in D /\ "item" \in of[k] /\ HasCluster(k, of[k]))
  <2>1. Marked(D, of, status)[k] = item[k]
    BY <1>2 DEF Marked
  <2>2. item[k] \in Items \union {Absent}
    BY DEF TypeOK
  <2> QED
    BY <2>1, <2>2
<1> QED
  BY <1>1, <1>2

LEMMA MarkedIsFunction ==
  ASSUME NEW D, NEW of, NEW status
  PROVE  Marked(D, of, status) = [k \in Keys |-> Marked(D, of, status)[k]]
  BY DEF Marked

\* What is entered in the archive are entries.
LEMMA EnteredEntries ==
  ASSUME NEW D \in SUBSET Keys, NEW of, \A k \in D : of[k] \in Origins
  PROVE  Entered(D, of) \in SUBSET Entries
  BY DEF Entered, Entries

LEMMA OriginsOfKey == \A k \in Keys : OriginsOf(k) \in Origins
<1> SUFFICES ASSUME NEW k \in Keys PROVE OriginsOf(k) \in Origins
  OBVIOUS
<1> DEFINE o == OriginsOf(k)
<1>1. "item" \in o /\ o \in SUBSET {"item", "cluster"}
  BY DEF OriginsOf
<1>2. o # {}
  BY <1>1
<1> HIDE DEF o
<1> QED
  BY <1>1, <1>2 DEF Origins, o

-----------------------------------------------------------------------------
(* Types *)

\* The keys a maintenance archives are due, and their items are there.
LEMMA ExpireTypes ==
  ASSUME TypeOK, NEW D \in SUBSET Due, ExpireItems(D)
  PROVE  item' \in [Keys -> Items \union {Absent}] /\ archive' \in SUBSET Entries
                                                  /\ threaded' \in SUBSET Keys
<1> DEFINE of == [k \in Keys |-> OriginsOf(k)]
<1> DEFINE E == D \ Skipped
<1>1. E \in SUBSET Keys /\ \A k \in E : item[k] # Absent
  BY DEF Due, IsDue, Absent
<1>2. of \in [Keys -> Origins]
  BY OriginsOfKey
<1>3. item' = Marked(E, of, "expired") /\ archive' = archive \union Entered(E, of)
  BY DEF ExpireItems
<1>4. \A k \in Keys : Marked(E, of, "expired")[k] \in Items \union {Absent}
  BY <1>1, MarkedItems
<1>5. Entered(E, of) \in SUBSET Entries
  BY <1>1, <1>2, EnteredEntries
<1>6. item' \in [Keys -> Items \union {Absent}]
  BY <1>3, <1>4, MarkedIsFunction
<1>7. archive' \in SUBSET Entries /\ threaded' \in SUBSET Keys
  BY <1>3, <1>5 DEF ExpireItems, TypeOK
<1> QED
  BY <1>6, <1>7

LEMMA TypeStep == TypeOK /\ [Next]_vars => TypeOK'
<1> SUFFICES ASSUME TypeOK, [Next]_vars PROVE TypeOK'
  OBVIOUS
<1>1. ASSUME Tomorrow \/ Cleanup \/ Crash PROVE TypeOK'
  BY <1>1, WatchAssumption DEF Tomorrow, Cleanup, Crash, LeavePhase, TypeOK, Decisions
<1>2. ASSUME NEW r \in Runs, CreateRun(r) PROVE TypeOK'
  BY <1>2 DEF CreateRun, TypeOK
<1>3. ASSUME NEW r \in Runs, Overdraw(r) \/ EnterPhase(r) PROVE TypeOK'
  BY <1>3, WatchAssumption DEF Overdraw, EnterPhase, TypeOK, Runs
<1>4. ASSUME NEW k \in Keys, Collect(k) PROVE TypeOK'
  BY <1>4 DEF Collect, TypeOK, Decisions
<1>5. ASSUME NEW k \in Keys, WatchDraft(k) PROVE TypeOK'
  <2>1. PICK days \in Windows :
          item' = [item EXCEPT ![k] = Watched(k, days, OwnCluster(k), FALSE)]
    BY <1>5 DEF WatchDraft
  <2>2. Watched(k, days, OwnCluster(k), FALSE) \in Items
    BY WindowsAreDays, WatchedItem DEF OwnCluster
  <2>3. item' \in [Keys -> Items \union {Absent}]
    BY <2>1, <2>2 DEF TypeOK
  <2> QED
    BY <1>5, <2>3 DEF WatchDraft, OpenedForItem, TypeOK
<1>6. ASSUME NEW k \in Keys, AdoptItem(k) PROVE TypeOK'
  <2>1. PICK j \in found, cluster \in {"none", "alien"}, days \in Windows :
          /\ item' = [item EXCEPT ![k] = Watched(k, days, cluster, TRUE)]
          /\ threaded' = IF cluster = "none" THEN threaded ELSE threaded \union {j}
    BY <1>6 DEF AdoptItem
  <2>2. Watched(k, days, cluster, TRUE) \in Items
    BY WindowsAreDays, WatchedItem
  <2>3. item' \in [Keys -> Items \union {Absent}]
    BY <2>1, <2>2 DEF TypeOK
  <2>4. threaded' \in SUBSET Keys
    BY <2>1 DEF TypeOK
  <2> QED
    BY <1>6, <2>3, <2>4 DEF AdoptItem, TypeOK
<1>7. ASSUME NEW k \in Keys, ThreadDraft(k) PROVE TypeOK'
  BY <1>7 DEF ThreadDraft, TypeOK
<1>8. ASSUME NEW k \in Keys, ArchiveDraft(k) PROVE TypeOK'
  <2>1. PICK o \in Origins, status \in {"expired", "archived"} :
          /\ "item" \in o => item[k] # Absent
          /\ item' = Marked({k}, [j \in {k} |-> o], status)
          /\ archive' \in {archive, archive \union Entered({k}, [j \in {k} |-> o])}
          /\ threaded' \in {threaded, threaded \union OpenedForEntry(k, o)}
    BY <1>8 DEF ArchiveDraft
  <2> DEFINE of == [j \in {k} |-> o]
  <2>2. \A j \in Keys : Marked({k}, of, status)[j] \in Items \union {Absent}
    BY <2>1, MarkedItems
  <2>3. item' \in [Keys -> Items \union {Absent}]
    BY <2>1, <2>2, MarkedIsFunction
  <2>4. Entered({k}, of) \in SUBSET Entries
    BY EnteredEntries
  <2>5. archive' \in SUBSET Entries /\ threaded' \in SUBSET Keys
    BY <2>1, <2>4 DEF OpenedForEntry, TypeOK
  <2> QED
    BY <1>8, <2>3, <2>5 DEF ArchiveDraft, TypeOK
<1>9. ASSUME Expire PROVE TypeOK'
  <2>1. ExpireItems(Due)
    BY <1>9 DEF Expire
  <2> QED
    BY <1>9, <2>1, ExpireTypes DEF Expire, TypeOK
<1>10. ASSUME ExpireSome PROVE TypeOK'
  <2>1. PICK some \in SUBSET {r \in Owners : record[r] # "overdrawn"} :
          ExpireItems({k \in Due : RunOf(k) \in some})
    BY <1>10 DEF ExpireSome
  <2>2. /\ item' \in [Keys -> Items \union {Absent}]
        /\ archive' \in SUBSET Entries /\ threaded' \in SUBSET Keys
    BY <2>1, ExpireTypes
  <2>3. record' \in [Runs -> {"none", "open", "failed", "overdrawn"}]
    BY <1>10 DEF ExpireSome, TypeOK
  <2> QED
    BY <1>10, <2>2, <2>3 DEF ExpireSome, LeavePhase, TypeOK
<1>11. ASSUME PhaseEnds \/ AgentFails PROVE TypeOK'
  BY <1>11 DEF PhaseEnds, AgentFails, LeavePhase, TypeOK
<1>12. ASSUME SyncEvaluations PROVE TypeOK'
  <2>1. PICK days \in [ToWatch -> Windows] :
          item' = [k \in Keys |-> IF k \in ToWatch THEN Watched(k, days[k], "own", FALSE)
                                  ELSE item[k]]
    BY <1>12 DEF SyncEvaluations
  <2>2. \A k \in ToWatch : k \in Keys /\ days[k] \in Nat
    BY <2>1, WindowsAreDays DEF ToWatch, TypeOK
  <2>3. \A k \in Keys : item'[k] \in Items \union {Absent}
    <3> SUFFICES ASSUME NEW k \in Keys PROVE item'[k] \in Items \union {Absent}
      OBVIOUS
    <3>1. CASE k \in ToWatch
      <4>1. item'[k] = Watched(k, days[k], "own", FALSE) /\ days[k] \in Nat
        BY <2>1, <2>2, <3>1
      <4> QED
        BY <4>1, WatchedItem
    <3>2. CASE k \notin ToWatch
      BY <2>1, <3>2, ItemFields
    <3> QED
      BY <3>1, <3>2
  <2>4. item' \in [Keys -> Items \union {Absent}]
    BY <2>1, <2>3
  <2>5. archive' \in SUBSET Entries
    <3> DEFINE of == [k \in ToArchive |-> {"cluster"}]
    <3>1. {"cluster"} \in Origins
      BY DEF Origins
    <3>2. Entered(ToArchive, of) \in SUBSET Entries
      <4>1. ToArchive \in SUBSET Keys /\ \A k \in ToArchive : of[k] \in Origins
        BY <3>1 DEF ToArchive, TypeOK
      <4> HIDE DEF of
      <4> QED
        BY <4>1, EnteredEntries
    <3> QED
      BY <1>12, <3>2 DEF SyncEvaluations, TypeOK
  <2>6. threaded' \in SUBSET Keys
    <3>1. ToWatch \subseteq Keys /\ ToArchive \subseteq Keys /\ ToThread \subseteq Keys
      BY DEF ToWatch, ToArchive, ToThread, TypeOK
    <3> QED
      BY <1>12, <3>1 DEF SyncEvaluations, TypeOK
  <2> QED
    BY <1>12, <2>4, <2>5, <2>6 DEF SyncEvaluations, TypeOK
<1>13. ASSUME UNCHANGED vars PROVE TypeOK'
  BY <1>13 DEF vars, TypeOK
<1> QED
  BY <1>1, <1>2, <1>3, <1>4, <1>5, <1>6, <1>7, <1>8, <1>9, <1>10, <1>11, <1>12, <1>13 DEF Next

LEMMA InitInv == Init => IInv
<1> SUFFICES ASSUME Init PROVE IInv
  OBVIOUS
<1>1. TypeOK
  BY WatchAssumption DEF Init, TypeOK, Decisions
<1>2. LooseHasNoCluster
  BY WatchAssumption DEF Init, LooseHasNoCluster, Absent
<1> QED
  BY <1>1, <1>2 DEF IInv

-----------------------------------------------------------------------------
(* What a step makes of the items *)

LEMMA InvStep == IInv /\ [Next]_vars => IInv'
<1> SUFFICES ASSUME IInv, [Next]_vars PROVE LooseHasNoCluster'
  BY TypeStep DEF IInv
<1> USE WatchAssumption DEF IInv
<1>1. ASSUME \/ Tomorrow \/ Crash \/ PhaseEnds \/ AgentFails \/ UNCHANGED vars
             \/ \E r \in Runs : CreateRun(r) \/ Overdraw(r) \/ EnterPhase(r)
             \/ \E k \in Keys : ThreadDraft(k)
      PROVE  LooseHasNoCluster'
  <2>1. UNCHANGED <<decision, item>>
    BY <1>1 DEF Tomorrow, Crash, PhaseEnds, AgentFails, vars, CreateRun, Overdraw, EnterPhase,
                ThreadDraft
  <2> QED
    BY <2>1 DEF LooseHasNoCluster
<1>2. ASSUME NEW k \in Keys, Collect(k) PROVE LooseHasNoCluster'
  BY <1>2 DEF Collect, LooseHasNoCluster, TypeOK
<1>3. ASSUME Cleanup PROVE LooseHasNoCluster'
  BY <1>3 DEF Cleanup, LooseHasNoCluster
<1>4. ASSUME NEW k \in Keys, NEW days \in Windows, NEW cluster \in {"none", "own", "alien"},
             NEW alien \in BOOLEAN, k \in Loose => cluster # "own",
             item' = [item EXCEPT ![k] = Watched(k, days, cluster, alien)], UNCHANGED decision
      PROVE  LooseHasNoCluster'
  <2> DEFINE w == Watched(k, days, cluster, alien)
  <2>1. k \in Loose => w.cluster # "own"
    BY <1>4, WindowsAreDays, WatchedItem DEF LooseHasNoCluster
  <2>2. item' = [item EXCEPT ![k] = w]
    BY <1>4
  <2> HIDE DEF w
  <2> QED
    BY <1>4, <2>1, <2>2 DEF LooseHasNoCluster, TypeOK
<1>5. ASSUME NEW k \in Keys, WatchDraft(k) PROVE LooseHasNoCluster'
  <2>1. OwnCluster(k) \in {"none", "own", "alien"} /\ (k \in Loose => OwnCluster(k) # "own")
    BY DEF OwnCluster
  <2> QED
    BY <1>4, <1>5, <2>1 DEF WatchDraft
<1>6. ASSUME NEW k \in Keys, AdoptItem(k) PROVE LooseHasNoCluster'
  <2>1. PICK cluster \in {"none", "alien"}, days \in Windows :
          item' = [item EXCEPT ![k] = Watched(k, days, cluster, TRUE)] /\ UNCHANGED decision
    BY <1>6 DEF AdoptItem
  <2> QED
    BY <1>4, <2>1
<1>7. ASSUME NEW D, NEW of, NEW status \in {"expired", "archived"},
             \A k \in D : "item" \in of[k] => item[k] # Absent,
             item' = Marked(D, of, status), UNCHANGED decision
      PROVE  LooseHasNoCluster'
  <2>1. \A k \in Keys : item'[k].cluster = item[k].cluster
    BY <1>7, MarkedItems
  <2> QED
    BY <1>7, <2>1 DEF LooseHasNoCluster
<1>8. ASSUME NEW k \in Keys, ArchiveDraft(k) PROVE LooseHasNoCluster'
  <2>1. PICK o \in Origins, status \in {"expired", "archived"} :
          /\ "item" \in o => item[k] # Absent
          /\ item' = Marked({k}, [j \in {k} |-> o], status)
    BY <1>8 DEF ArchiveDraft
  <2> DEFINE of == [j \in {k} |-> o]
  <2>2. \A j \in {k} : "item" \in of[j] => item[j] # Absent
    BY <2>1
  <2>3. item' = Marked({k}, of, status) /\ UNCHANGED decision
    BY <1>8, <2>1 DEF ArchiveDraft
  <2> HIDE DEF of
  <2> QED
    BY <1>7, <2>2, <2>3
<1>9. ASSUME Expire \/ ExpireSome PROVE LooseHasNoCluster'
  <2>1. PICK D \in SUBSET Due : ExpireItems(D) /\ UNCHANGED decision
    BY <1>9 DEF Expire, ExpireSome
  <2> DEFINE of == [k \in Keys |-> OriginsOf(k)]
  <2>2. item' = Marked(D \ Skipped, of, "expired")
    BY <2>1 DEF ExpireItems
  <2>3. \A k \in D \ Skipped : item[k] # Absent
    BY DEF Due, IsDue, Absent
  <2> HIDE DEF of
  <2> QED
    BY <1>7, <2>1, <2>2, <2>3
<1>10. ASSUME SyncEvaluations PROVE LooseHasNoCluster'
  <2>1. \A k \in ToWatch : k \notin Loose
    BY DEF ToWatch, LooseHasNoCluster
  <2>2. UNCHANGED decision /\ \A k \in Keys \ ToWatch : item'[k] = item[k]
    BY <1>10 DEF SyncEvaluations
  <2> QED
    BY <2>1, <2>2 DEF LooseHasNoCluster
<1> QED
  BY <1>1, <1>2, <1>3, <1>5, <1>6, <1>8, <1>9, <1>10 DEF Next

-----------------------------------------------------------------------------
(* Theorems *)

THEOREM Invariant == Spec => []IInv
  BY InitInv, InvStep, PTL DEF Spec

\* Every variable of the watch list keeps its type.
THEOREM TypeCorrect == Spec => []TypeOK
<1>1. IInv => TypeOK
  BY DEF IInv
<1> QED
  BY <1>1, Invariant, PTL

-----------------------------------------------------------------------------
(* What a step may do *)

\* Archiving loses no item and makes none active.
LEMMA MarkedStay ==
  ASSUME TypeOK, NEW D, NEW of, NEW status \in {"expired", "archived"},
         \A k \in D : "item" \in of[k] => item[k] # Absent,
         item' = Marked(D, of, status)
  PROVE  \A k \in Keys : /\ item[k] # Absent => item'[k] # Absent
                         /\ IsInactive(k) => item'[k].status # "active"
  BY MarkedItems DEF IsInactive

LEMMA StayStep ==
  TypeOK /\ [Next]_vars =>
    /\ archive \subseteq archive' /\ threaded \subseteq threaded'
    /\ \A k \in Keys : /\ item[k] # Absent => item'[k] # Absent
                       /\ IsInactive(k) => item'[k].status # "active"
<1> SUFFICES ASSUME TypeOK, [Next]_vars
    PROVE  /\ archive \subseteq archive' /\ threaded \subseteq threaded'
           /\ \A k \in Keys : /\ item[k] # Absent => item'[k] # Absent
                              /\ IsInactive(k) => item'[k].status # "active"
  OBVIOUS
<1> DEFINE Stay == \A k \in Keys : /\ item[k] # Absent => item'[k] # Absent
                                   /\ IsInactive(k) => item'[k].status # "active"
<1>1. archive \subseteq archive' /\ threaded \subseteq threaded'
  BY DEF Next, vars, Tomorrow, Cleanup, Crash, CreateRun, Overdraw, EnterPhase, Collect,
         WatchDraft, AdoptItem, ThreadDraft, ArchiveDraft, Expire, ExpireSome, ExpireItems,
         PhaseEnds, AgentFails, SyncEvaluations
<1>2. ASSUME UNCHANGED item PROVE Stay
  BY <1>2 DEF IsInactive
<1>3. ASSUME NEW k \in Keys, WatchDraft(k) PROVE Stay
  <2>1. PICK days \in Windows :
          item' = [item EXCEPT ![k] = Watched(k, days, OwnCluster(k), FALSE)]
    BY <1>3 DEF WatchDraft
  <2> DEFINE w == Watched(k, days, OwnCluster(k), FALSE)
  <2>2. w # Absent /\ (w.status = "active" => ~IsInactive(k))
    BY WindowsAreDays, WatchedItem, AbsentItem DEF OwnCluster
  <2>3. item' = [item EXCEPT ![k] = w]
    BY <2>1
  <2> HIDE DEF w
  <2> QED
    BY <2>2, <2>3 DEF IsInactive, TypeOK
<1>4. ASSUME NEW k \in Keys, AdoptItem(k) PROVE Stay
  <2>1. PICK cluster \in {"none", "alien"}, days \in Windows :
          item' = [item EXCEPT ![k] = Watched(k, days, cluster, TRUE)]
    BY <1>4 DEF AdoptItem
  <2> DEFINE w == Watched(k, days, cluster, TRUE)
  <2>2. w # Absent /\ (w.status = "active" => ~IsInactive(k))
    BY WindowsAreDays, WatchedItem, AbsentItem
  <2>3. item' = [item EXCEPT ![k] = w]
    BY <2>1
  <2> HIDE DEF w
  <2> QED
    BY <2>2, <2>3 DEF IsInactive, TypeOK
<1>5. ASSUME NEW k \in Keys, ArchiveDraft(k) PROVE Stay
  <2>1. PICK o \in Origins, status \in {"expired", "archived"} :
          /\ "item" \in o => item[k] # Absent
          /\ item' = Marked({k}, [j \in {k} |-> o], status)
    BY <1>5 DEF ArchiveDraft
  <2>2. \A j \in {k} : "item" \in [i \in {k} |-> o][j] => item[j] # Absent
    BY <2>1
  <2> QED
    BY <2>1, <2>2, MarkedStay
<1>6. ASSUME NEW D \in SUBSET Due, ExpireItems(D) PROVE Stay
  <2> DEFINE of == [k \in Keys |-> OriginsOf(k)]
  <2>1. \A k \in D \ Skipped : item[k] # Absent
    BY DEF Due, IsDue, Absent
  <2>2. item' = Marked(D \ Skipped, of, "expired")
    BY <1>6 DEF ExpireItems
  <2> HIDE DEF of
  <2> QED
    BY <2>1, <2>2, MarkedStay
<1>7. ASSUME SyncEvaluations PROVE Stay
  <2>1. PICK days \in [ToWatch -> Windows] :
          item' = [k \in Keys |-> IF k \in ToWatch THEN Watched(k, days[k], "own", FALSE)
                                  ELSE item[k]]
    BY <1>7 DEF SyncEvaluations
  <2>2. \A k \in ToWatch : item[k] = Absent
    BY DEF ToWatch
  <2>3. \A k \in Keys : item[k] # Absent => item'[k] = item[k]
    BY <2>1, <2>2
  <2>4. \A k \in Keys : IsInactive(k) => item[k] # Absent
    BY DEF IsInactive, Absent
  <2> QED
    BY <2>3, <2>4 DEF IsInactive
<1>8. Stay
  <2>1. ASSUME Expire PROVE Stay
    BY <2>1, <1>6 DEF Expire
  <2>2. ASSUME ExpireSome PROVE Stay
    <3>1. PICK some \in SUBSET {r \in Owners : record[r] # "overdrawn"} :
            ExpireItems({k \in Due : RunOf(k) \in some})
      BY <2>2 DEF ExpireSome
    <3> QED
      BY <3>1, <1>6
  <2>3. CASE UNCHANGED item
    BY <2>3, <1>2
  <2>4. \/ UNCHANGED item \/ Expire \/ ExpireSome \/ SyncEvaluations
        \/ \E k \in Keys : WatchDraft(k) \/ AdoptItem(k) \/ ArchiveDraft(k)
    BY DEF Next, vars, Tomorrow, Cleanup, Crash, CreateRun, Overdraw, EnterPhase, Collect,
           ThreadDraft, PhaseEnds, AgentFails
  <2> HIDE DEF Stay
  <2> QED
    BY <1>3, <1>4, <1>5, <1>7, <2>1, <2>2, <2>3, <2>4
<1> QED
  BY <1>1, <1>8

\* No step loses a watch item, an entry or a thread, and no step makes an archived
\* item active again without calling it reactivated (repositories/cleanup.py,
\* watchlist/materialization.py).
THEOREM MemoryKept == Spec => MemoryStays
<1>1. IInv => TypeOK
  BY DEF IInv
<1> QED
  BY <1>1, StayStep, Invariant, PTL DEF Spec, MemoryStays

\* The items that archiving strands: their evidence is gone, or some is of another run.
LEMMA MarkedStrands ==
  ASSUME TypeOK, NEW D, NEW of, NEW status \in {"expired", "archived"},
         \A k \in D : "item" \in of[k] => item[k] # Absent,
         item' = Marked(D, of, status), archive' = archive \union Entered(D, of),
         NEW k \in Keys, Stranded(k)
  PROVE  item[k].alien \/ k \notin found
<1>1. k \in D /\ "item" \in of[k] /\ HasCluster(k, of[k])
  <2>1. item'[k] # item[k]
    BY DEF Stranded, IsInactive
  <2> QED
    BY <2>1, MarkedItems
<1>2. [key |-> k, of |-> of[k]] \notin archive'
  BY <1>1 DEF Stranded, HasEntry
<1>3. ~HasEvidence(k, of[k])
  BY <1>1, <1>2 DEF Entered
<1> QED
  BY <1>3 DEF HasEvidence

LEMMA LeaveStep ==
  ASSUME TypeOK, [Next]_vars, NEW k \in Keys, Stranded(k)
  PROVE  \/ item[k].alien \/ k \notin found
         \/ step = "drafting" /\ RunOf(k) = current
<1>1. CASE Expire \/ ExpireSome
  <2>1. PICK D \in SUBSET Due : ExpireItems(D)
    BY <1>1 DEF Expire, ExpireSome
  <2> DEFINE of == [j \in Keys |-> OriginsOf(j)]
             E  == D \ Skipped
  <2>2. item' = Marked(E, of, "expired") /\ archive' = archive \union Entered(E, of)
    BY <2>1 DEF ExpireItems
  <2>3. \A j \in E : item[j] # Absent
    BY DEF Due, IsDue, Absent
  <2> HIDE DEF of, E
  <2> QED
    BY <2>2, <2>3, MarkedStrands
<1>2. ASSUME NEW j \in Keys, ArchiveDraft(j)
      PROVE  step = "drafting" /\ RunOf(k) = current
  <2>1. PICK o \in Origins, status \in {"expired", "archived"} :
          item' = Marked({j}, [i \in {j} |-> o], status)
    BY <1>2 DEF ArchiveDraft
  <2>2. k = j
    <3>1. k \notin {j} => item'[k] = item[k]
      BY <2>1 DEF Marked
    <3> QED
      BY <3>1 DEF Stranded, IsInactive
  <2> QED
    BY <1>2, <2>2 DEF ArchiveDraft
<1>3. ASSUME NEW j \in Keys, NEW days \in Windows, NEW cluster \in {"none", "own", "alien"},
             NEW alien \in BOOLEAN, item' = [item EXCEPT ![j] = Watched(j, days, cluster, alien)]
      PROVE  FALSE
  <2> DEFINE w == Watched(j, days, cluster, alien)
  <2>1. w.status \in {"active", "reactivated"}
    BY WindowsAreDays, WatchedItem
  <2>2. item' = [item EXCEPT ![j] = w]
    BY <1>3
  <2> HIDE DEF w
  <2> QED
    BY <2>1, <2>2 DEF Stranded, IsInactive, TypeOK
<1>4. ASSUME NEW j \in Keys, WatchDraft(j) PROVE FALSE
  <2>1. OwnCluster(j) \in {"none", "own", "alien"}
    BY DEF OwnCluster
  <2> QED
    BY <1>3, <1>4, <2>1 DEF WatchDraft
<1>5. ASSUME NEW j \in Keys, AdoptItem(j) PROVE FALSE
  <2>1. PICK cluster \in {"none", "alien"}, days \in Windows :
          item' = [item EXCEPT ![j] = Watched(j, days, cluster, TRUE)]
    BY <1>5 DEF AdoptItem
  <2> QED
    BY <1>3, <2>1
<1>6. ASSUME SyncEvaluations PROVE FALSE
  <2>1. PICK days \in [ToWatch -> Windows] :
          item'[k] = IF k \in ToWatch THEN Watched(k, days[k], "own", FALSE) ELSE item[k]
    BY <1>6 DEF SyncEvaluations
  <2>2. CASE k \in ToWatch
    <3>1. days[k] \in Nat /\ item'[k] = Watched(k, days[k], "own", FALSE)
      BY <2>1, <2>2, WindowsAreDays
    <3>2. item'[k].status \in {"active", "reactivated"}
      BY <3>1, WatchedItem
    <3> QED
      BY <3>2 DEF Stranded, IsInactive
  <2>3. CASE k \notin ToWatch
    BY <2>1, <2>3 DEF Stranded, IsInactive
  <2> QED
    BY <2>2, <2>3
<1>7. ASSUME UNCHANGED item PROVE FALSE
  BY <1>7 DEF Stranded, IsInactive
<1>8. \/ UNCHANGED item \/ Expire \/ ExpireSome \/ SyncEvaluations
      \/ \E j \in Keys : WatchDraft(j) \/ AdoptItem(j) \/ ArchiveDraft(j)
  BY DEF Next, vars, Tomorrow, Cleanup, Crash, CreateRun, Overdraw, EnterPhase, Collect,
         ThreadDraft, PhaseEnds, AgentFails
<1> QED
  BY <1>1, <1>2, <1>4, <1>5, <1>6, <1>7, <1>8

\* An item leaves the watch with an entry in the archive, unless evidence of another run
\* was added to it, cleanup had taken its evidence, or the agent of its own run archived
\* it (WatchlistLifecycleService.expire_due_items, _create_or_update_archive).
THEOREM EntryOnLeaving == Spec => LeavesWithEntry
<1>1. IInv /\ [Next]_vars =>
        \A k \in Keys : Stranded(k) =>
          \/ item[k].alien \/ k \notin found
          \/ step = "drafting" /\ RunOf(k) = current
  BY LeaveStep DEF IInv
<1> QED
  BY <1>1, Invariant, PTL DEF Spec, LeavesWithEntry

LEMMA CompleteStep ==
  ASSUME IInv, [Next]_vars, step = "expiring", step' = "drafting",
         NEW k \in Keys, IsDue(k)'
  PROVE  \/ item[k].cluster = "alien"
         \/ item[k].cluster = "own" /\ k \notin found
<1> USE DEF IInv
<1> DEFINE of == [j \in Keys |-> OriginsOf(j)]
<1> DEFINE E == Due \ Skipped
<1>1. Expire
  BY DEF Next, vars, Tomorrow, Cleanup, Crash, CreateRun, Overdraw, EnterPhase, Collect,
         WatchDraft, AdoptItem, ThreadDraft, ArchiveDraft, ExpireSome, PhaseEnds,
         AgentFails, SyncEvaluations, LeavePhase
<1>2. item' = Marked(E, of, "expired") /\ day' = day
  BY <1>1 DEF Expire, ExpireItems
<1>3. \A j \in E : item[j] # Absent
  BY DEF Due, IsDue, Absent
<1>4. "item" \in of[k] /\ ("cluster" \in of[k] => item[k].cluster # "none")
  BY DEF OriginsOf
<1>5. item'[k] = item[k]
  <2> HIDE DEF E, of
  <2>1. item'[k] = item[k] \/ item'[k].status = "expired"
    BY <1>2, <1>3, MarkedItems
  <2> QED
    BY <2>1 DEF IsDue
<1>6. k \in Due
  BY <1>2, <1>5 DEF IsDue, Due
<1>7. CASE k \in Skipped
  BY <1>7 DEF Skipped
<1>8. CASE k \notin Skipped
  <2>1. ~HasCluster(k, of[k])
    <3>1. SUFFICES ASSUME HasCluster(k, of[k]) PROVE FALSE
      OBVIOUS
    <3>2. item[k] \in Items
      BY <1>3, <1>6, <1>8 DEF TypeOK
    <3>3. item'[k] = [item[k] EXCEPT !.status = "expired", !.until = 0]
      BY <1>2, <1>4, <1>6, <1>8, <3>1 DEF Marked
    <3>4. item'[k].status = "expired"
      BY <3>2, <3>3 DEF Items
    <3> QED
      BY <3>4 DEF IsDue
  <2>2. item[k].cluster # "none" /\ (k \notin found \/ k \in Loose)
    BY <1>4, <2>1 DEF HasCluster
  <2>3. item[k].cluster = "own"
    BY <1>8, <2>2, ItemFields DEF Skipped
  <2> QED
    BY <2>2, <2>3 DEF LooseHasNoCluster
<1> QED
  BY <1>7, <1>8

\* The items that are still due when a run has expired the due ones name a cluster
\* that was deleted, or one of another run (watchlist/lifecycle.py).
THEOREM NoneDueStays == Spec => ExpiryIsComplete
<1>1. IInv /\ [Next]_vars =>
        (step = "expiring" /\ step' = "drafting" =>
           \A k \in Keys : IsDue(k)' => \/ item[k].cluster = "alien"
                                        \/ item[k].cluster = "own" /\ k \notin found)
  BY CompleteStep
<1> QED
  BY <1>1, Invariant, PTL DEF Spec, ExpiryIsComplete

LEMMA CoverStep ==
  ASSUME IInv, [Next]_vars, step = "syncing", step' = "synced",
         NEW k \in found, RunOf(k) = current
  PROVE  /\ decision[k] = "watch" => item'[k] # Absent
         /\ decision[k] = "archive" => ArchivedCluster(k)'
         /\ decision[k] = "confirm" => k \in threaded'
<1> USE DEF IInv
<1>1. SyncEvaluations
  BY DEF Next, vars, Tomorrow, Cleanup, Crash, CreateRun, Overdraw, EnterPhase, Collect,
         WatchDraft, AdoptItem, ThreadDraft, ArchiveDraft, Expire, ExpireSome, PhaseEnds,
         AgentFails, LeavePhase
<1>2. k \in Keys
  BY DEF TypeOK
<1>3. ASSUME decision[k] = "watch" PROVE item'[k] # Absent
  <2>1. PICK days \in [ToWatch -> Windows] :
          item' = [j \in Keys |-> IF j \in ToWatch THEN Watched(j, days[j], "own", FALSE)
                                  ELSE item[j]]
    BY <1>1 DEF SyncEvaluations
  <2>2. CASE item[k] = Absent
    <3>1. k \in ToWatch
      BY <1>3, <2>2 DEF ToWatch
    <3>2. item'[k] = Watched(k, days[k], "own", FALSE) /\ days[k] \in Nat
      BY <1>2, <2>1, <3>1, WindowsAreDays
    <3>3. Watched(k, days[k], "own", FALSE) \in Items
      BY <1>2, <3>2, WatchedItem
    <3> QED
      BY <3>2, <3>3, AbsentItem
  <2>3. CASE item[k] # Absent
    <3>1. k \notin ToWatch
      BY <2>3 DEF ToWatch
    <3> QED
      BY <1>2, <2>1, <2>3, <3>1
  <2> QED
    BY <2>2, <2>3
<1>4. ASSUME decision[k] = "archive" PROVE ArchivedCluster(k)'
  <2>1. archive' = archive \union Entered(ToArchive, [j \in ToArchive |-> {"cluster"}])
    BY <1>1 DEF SyncEvaluations
  <2>2. CASE ArchivedCluster(k)
    BY <2>1, <2>2 DEF ArchivedCluster
  <2>3. CASE ~ArchivedCluster(k)
    <3>1. k \in ToArchive /\ k \notin Loose
      BY <1>4, <2>3 DEF ToArchive, LooseHasNoCluster
    <3>2. HasCluster(k, {"cluster"}) /\ HasEvidence(k, {"cluster"})
      BY <3>1 DEF HasCluster, HasEvidence
    <3>3. [key |-> k, of |-> {"cluster"}] \in archive'
      BY <2>1, <3>1, <3>2 DEF Entered
    <3> QED
      BY <3>3 DEF ArchivedCluster
  <2> QED
    BY <2>2, <2>3
<1>5. ASSUME decision[k] = "confirm" PROVE k \in threaded'
  BY <1>1, <1>5 DEF SyncEvaluations, ToThread
<1> QED
  BY <1>3, <1>4, <1>5

\* The fallback of the Watchlist Agent leaves no evaluated cluster of the run without
\* its record (WatchlistMaterializer.sync_from_evaluations).
THEOREM FallbackCovers == Spec => SyncCovers
<1>1. IInv /\ [Next]_vars =>
        (step = "syncing" /\ step' = "synced" =>
           \A k \in found : RunOf(k) = current =>
             /\ decision[k] = "watch" => item'[k] # Absent
             /\ decision[k] = "archive" => ArchivedCluster(k)'
             /\ decision[k] = "confirm" => k \in threaded')
  BY CoverStep
<1> QED
  BY <1>1, Invariant, PTL DEF Spec, SyncCovers
=============================================================================
