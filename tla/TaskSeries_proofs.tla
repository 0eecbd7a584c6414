--------------------------- MODULE TaskSeries_proofs ---------------------------
(***************************************************************************)
(* Proofs about one series of a scheduled task, for any number of           *)
(* occurrences and faults.  The heart is one set: the rows that can still   *)
(* cost the series a run - live, owed a follow-up, or in the hands of a      *)
(* container.  It never outgrows one row and one per doubled follow-up.      *)
(***************************************************************************)
EXTENDS TaskSeries, FiniteSetTheorems, TLAPS

USE DEF rows, container

(* getCompletedRecurring: rows that handleRecurrence still has to follow up. *)
Owing == {r \in Row : status[r] = "completed" /\ recur[r]}
Claimed == {r \in Row : ack[r] = "processing"}
Busy == Live \cup Owing \cup Claimed \cup fetched

LEMMA RowsFinite ==
  /\ Row \subseteq Nat /\ IsFiniteSet(Row)
  /\ \A S \in SUBSET Row : IsFiniteSet(S) /\ Cardinality(S) \in Nat
<1>1. Row \subseteq Nat /\ IsFiniteSet(Row)
  BY FS_Interval, TaskAssumption DEF Row
<1> QED
  BY <1>1, FS_Subset, FS_CardinalityType

-----------------------------------------------------------------------------
DoubledByFaults == doubled <= faults

LEMMA TypeStep == TaskTypeOK /\ DoubledByFaults /\ [TaskNext]_vars => TaskTypeOK' /\ DoubledByFaults'
<1> SUFFICES ASSUME TaskTypeOK, DoubledByFaults, [TaskNext]_vars
             PROVE  TaskTypeOK' /\ DoubledByFaults'
  OBVIOUS
<1> USE DEF TaskTypeOK, DoubledByFaults
<1>0. MaxFaults \in Nat
  BY TaskAssumption
<1>1. ASSUME NEW isRecurring \in BOOLEAN, Schedule(isRecurring) PROVE TaskTypeOK' /\ DoubledByFaults'
  BY <1>1 DEF Schedule, Added
<1>2. ASSUME NEW isRecurring \in BOOLEAN, Update(isRecurring) PROVE TaskTypeOK' /\ DoubledByFaults'
  BY <1>2 DEF Update
<1>3. CASE Cancel
  <2>1. status' \in [Row -> {"none", "pending", "paused", "completed", "failed"}]
    BY <1>3 DEF Cancel
  <2>2. recur' \in [Row -> BOOLEAN]
    BY <1>3 DEF Cancel
  <2>3. quiet' \in BOOLEAN
    BY <1>3 DEF Cancel
  <2> QED
    BY <1>3, <2>1, <2>2, <2>3 DEF Cancel
<1>4. CASE Pause
  <2>1. quiet' \in BOOLEAN
    BY <1>4 DEF Pause
  <2> QED
    BY <1>4, <2>1 DEF Pause
<1>5. CASE Resume
  BY <1>5 DEF Resume
<1>6. ASSUME NEW r \in Row, Fetch(r) \/ Claim(r) \/ Complete(r) PROVE TaskTypeOK' /\ DoubledByFaults'
  BY <1>6 DEF Fetch, Claim, Complete
<1>7. ASSUME NEW r \in Row, Clone(r) PROVE TaskTypeOK' /\ DoubledByFaults'
  <2>1. status' \in [Row -> {"none", "pending", "paused", "completed", "failed"}]
    BY <1>7 DEF Clone, Added
  <2>2. recur' \in [Row -> BOOLEAN]
    BY <1>7 DEF Clone, Added
  <2>3. {doubled', faults'} \subseteq 0..MaxFaults /\ doubled' <= faults'
    <3>1. doubled \in 0..MaxFaults /\ faults \in 0..MaxFaults /\ doubled <= faults
      OBVIOUS
    <3>2. \/ doubled' = doubled /\ faults' = faults
          \/ faults < MaxFaults /\ faults' = faults + 1 /\ doubled' \in {doubled, doubled + 1}
      BY <1>7 DEF Clone, Fault
    <3>3. doubled' \in 0..MaxFaults /\ faults' \in 0..MaxFaults /\ doubled' <= faults'
      BY <1>0, <3>1, <3>2
    <3> QED
      BY <3>3
  <2>4. fan' \subseteq Row /\ UNCHANGED <<fetched, ack, sweep, wish, quiet, again>>
    BY <1>7 DEF Clone
  <2> QED
    BY <2>1, <2>2, <2>3, <2>4
<1>8. CASE ContainerLost
  BY <1>8 DEF ContainerLost
<1>9. CASE Sync
  BY <1>9 DEF Sync
<1>10. CASE Fanout
  BY <1>10 DEF Fanout
<1>11. CASE SweepOver
  BY <1>11 DEF SweepOver
<1>12. CASE HostRestarts
  BY <1>0, <1>12 DEF HostRestarts, Fault
<1>13. CASE UNCHANGED vars
  BY <1>13 DEF vars
<1> QED
  BY <1>1, <1>2, <1>3, <1>4, <1>5, <1>6, <1>7, <1>8, <1>9, <1>10, <1>11, <1>12, <1>13 DEF TaskNext

LEMMA TypeInit == TaskInit => TaskTypeOK /\ DoubledByFaults
<1> SUFFICES ASSUME TaskInit PROVE TaskTypeOK /\ DoubledByFaults
  OBVIOUS
<1>1. 0 \in 0..MaxFaults
  BY TaskAssumption
<1>2. doubled = 0 /\ faults = 0
  BY DEF TaskInit
<1>3. {doubled, faults} \subseteq 0..MaxFaults /\ doubled <= faults
  BY <1>1, <1>2
<1>4. /\ status \in [Row -> {"none", "pending", "paused", "completed", "failed"}]
      /\ recur \in [Row -> BOOLEAN] /\ ack \in [Row -> {"none", "processing", "completed"}]
  BY DEF TaskInit
<1>5. fetched = {} /\ fan = {} /\ sweep = "idle" /\ wish = "none" /\ quiet = TRUE /\ again = FALSE
  BY DEF TaskInit
<1> QED
  BY <1>3, <1>4, <1>5 DEF TaskTypeOK, DoubledByFaults

(* The rows of a series and the sweep's state keep their types; there are
   never more doubled follow-ups than faults.                               *)
THEOREM TaskTypeCorrect == TaskSpec => []TaskTypeOK
BY TypeInit, TypeStep, PTL DEF TaskSpec
-----------------------------------------------------------------------------
(* Rows are numbered in the order they were inserted; a row that is unused or
   failed is in no container's hands, one that is owed a follow-up has been
   acknowledged, and the sweep clones only rows that are owed one.          *)
Placed == Used = 1..Cardinality(Used)
HandsApart ==
  /\ wish = "none" => Used = {}
  /\ \A r \in fetched : ack[r] = "none"
  /\ \A r \in Row : status[r] \in {"none", "failed"} => ack[r] = "none" /\ r \notin fetched
  /\ \A r \in Owing : ack[r] = "completed"
  /\ fan \subseteq Owing

Next1 == Cardinality(Used) + 1

LEMMA NextIsNew ==
  ASSUME TaskTypeOK, Placed, Next1 \in Row
  PROVE  /\ status[Next1] = "none"
         /\ \A u : u = Used \cup {Next1} => u = 1..Cardinality(u)
<1>1. Used \in SUBSET Row /\ IsFiniteSet(Used) /\ Cardinality(Used) \in Nat
  BY RowsFinite DEF Used
<1>2. Next1 \notin Used
  BY <1>1 DEF Placed, Next1
<1>3. Cardinality(Used \cup {Next1}) = Next1
  BY <1>1, <1>2, FS_AddElement DEF Next1
<1>4. Used \cup {Next1} = 1..Next1
  BY <1>1 DEF Placed, Next1
<1> QED
  BY <1>2, <1>3, <1>4 DEF Used

LEMMA PlacedAfterAdd ==
  ASSUME TaskTypeOK, Placed, Next1 \in Row, status' = [status EXCEPT ![Next1] = "pending"]
  PROVE  Placed'
<1>1. Used' = Used \cup {Next1}
  BY DEF Used, TaskTypeOK
<1> QED
  BY <1>1, NextIsNew DEF Placed

LEMMA PlacedStays ==
  ASSUME Placed, \A r \in Row : status'[r] = "none" <=> status[r] = "none"
  PROVE  Placed'
BY DEF Placed, Used

Shaped == Placed /\ HandsApart

LEMMA ShapeStep == TaskTypeOK /\ Shaped /\ [TaskNext]_vars => Shaped'
<1> SUFFICES ASSUME TaskTypeOK, Shaped, [TaskNext]_vars PROVE Shaped'
  OBVIOUS
<1> USE DEF Shaped
<1>1. ASSUME NEW isRecurring \in BOOLEAN, Schedule(isRecurring) PROVE Shaped'
  <2>1. Placed'
    BY <1>1, PlacedAfterAdd DEF Schedule, Added, Next1
  <2>2. Next1 \in Row /\ status[Next1] = "none"
    BY <1>1, NextIsNew DEF Schedule, Added, Next1
  <2> QED
    BY <1>1, <2>1, <2>2 DEF Schedule, Added, Next1, HandsApart, Owing, TaskTypeOK
<1>2. ASSUME NEW isRecurring \in BOOLEAN, Update(isRecurring) PROVE Shaped'
  <2>1. Owing' = Owing
    BY <1>2 DEF Update, Owing, Live, TaskTypeOK
  <2>2. Placed'
    BY <1>2, PlacedStays DEF Update
  <2> QED
    BY <1>2, <2>1, <2>2 DEF Update, HandsApart, Used
<1>3. CASE Cancel \/ Pause \/ Resume
  <2>1. Owing' = Owing
    BY <1>3 DEF Cancel, Pause, Resume, Owing, Live, TaskTypeOK
  <2>2. \A r \in Row : status'[r] \in {"none", "failed"} <=> status[r] \in {"none", "failed"}
    BY <1>3 DEF Cancel, Pause, Resume, Live, TaskTypeOK
  <2>3. Placed'
    BY <1>3, PlacedStays DEF Cancel, Pause, Resume, Live, TaskTypeOK
  <2> QED
    BY <1>3, <2>1, <2>2, <2>3 DEF Cancel, Pause, Resume, HandsApart, Used
<1>4. ASSUME NEW r \in Row, Fetch(r) \/ Claim(r) \/ Complete(r) PROVE Shaped'
  <2>1. Placed' /\ Used' = Used /\ Owing' = Owing /\ wish' = wish /\ fan' = fan
    BY <1>4 DEF Fetch, Claim, Complete, Placed, Used, Owing
  <2> QED
    BY <1>4, <2>1 DEF Fetch, Claim, Complete, HandsApart, TaskTypeOK, Owing
<1>5. ASSUME NEW r \in Row, Clone(r) PROVE Shaped'
  <2>1. r \in Owing /\ fan' = fan \ {r}
    BY <1>5 DEF Clone, HandsApart
  <2>2. CASE UNCHANGED <<rows, doubled>>
    BY <1>5, <2>1, <2>2, PlacedStays DEF Clone, HandsApart, Used, Owing
  <2>3. CASE Next1 \in Row /\ status' = [status EXCEPT ![Next1] = "pending"]
             /\ recur' \in {[recur EXCEPT ![Next1] = TRUE, ![r] = FALSE], [recur EXCEPT ![Next1] = TRUE]}
    <3>1. Placed'
      BY <2>3, PlacedAfterAdd
    <3>2. status[Next1] = "none"
      BY <2>3, NextIsNew
    <3>3. Owing \ {r} \subseteq Owing' /\ Owing' \subseteq Owing
      BY <2>1, <2>3, <3>2 DEF Owing, TaskTypeOK
    <3>4. wish # "none" /\ wish' = wish /\ UNCHANGED <<fetched, ack>>
      BY <1>5, <2>1 DEF Clone, HandsApart, Owing, Used
    <3> QED
      BY <2>1, <2>3, <3>1, <3>2, <3>3, <3>4 DEF HandsApart, TaskTypeOK
  <2> QED
    BY <1>5, <2>2, <2>3 DEF Clone, Added, Next1
<1>6. CASE ContainerLost
  <2>1. Placed'
    BY <1>6, PlacedStays DEF ContainerLost
  <2>2. Owing' = Owing /\ Used' = Used
    BY <1>6 DEF ContainerLost, Owing, Used, TaskTypeOK
  <2>3. /\ fetched' = {} /\ fan' = fan /\ wish' = wish
        /\ \A r \in Row : ack'[r] = IF ack[r] = "processing" THEN "none" ELSE ack[r]
    BY <1>6 DEF ContainerLost
  <2>4. \A r \in Row : status'[r] \in {"none", "failed"} => ack'[r] = "none"
    <3> SUFFICES ASSUME NEW r \in Row, status'[r] \in {"none", "failed"} PROVE ack'[r] = "none"
      OBVIOUS
    <3>1. CASE status'[r] = status[r]
      BY <2>3, <3>1 DEF HandsApart
    <3>2. CASE ack[r] = "processing"
      BY <2>3, <3>2
    <3> QED
      BY <1>6, <3>1, <3>2 DEF ContainerLost, TaskTypeOK
  <2>5. \A r \in Owing' : ack'[r] = "completed"
    BY <2>2, <2>3 DEF HandsApart, Owing
  <2> QED
    BY <2>1, <2>2, <2>3, <2>4, <2>5 DEF HandsApart
<1>7. CASE Sync
  <2>1. \A r \in Row : status'[r] \in {"none", "failed"} <=> status[r] \in {"none", "failed"}
    BY <1>7 DEF Sync, HandsApart, TaskTypeOK
  <2>2. Placed' /\ Used' = Used
    BY <1>7, PlacedStays DEF Sync, HandsApart, Used, TaskTypeOK
  <2>3. Owing \subseteq Owing' /\ \A r \in Owing' : ack[r] = "completed"
    BY <1>7 DEF Sync, HandsApart, Owing, TaskTypeOK
  <2> QED
    BY <1>7, <2>1, <2>2, <2>3 DEF Sync, HandsApart
<1>8. CASE Fanout
  BY <1>8, PlacedStays DEF Fanout, HandsApart, Used, Owing
<1>9. CASE SweepOver \/ HostRestarts \/ UNCHANGED vars
  BY <1>9, PlacedStays DEF SweepOver, HostRestarts, vars, HandsApart, Used, Owing
<1> QED
  BY <1>1, <1>2, <1>3, <1>4, <1>5, <1>6, <1>7, <1>8, <1>9 DEF TaskNext

-----------------------------------------------------------------------------
BusyBounded == Cardinality(Busy) <= 1 + doubled

LEMMA BusyFinite ==
  TaskTypeOK => Busy \in SUBSET Row /\ IsFiniteSet(Busy) /\ Cardinality(Busy) \in Nat
<1> SUFFICES ASSUME TaskTypeOK PROVE Busy \in SUBSET Row
  BY RowsFinite
<1> QED
  BY DEF TaskTypeOK, Busy, Live, Owing, Claimed

LEMMA BusyShrinks ==
  ASSUME TaskTypeOK, BusyBounded, Busy' \subseteq Busy, doubled' = doubled
  PROVE  BusyBounded'
<1>1. Cardinality(Busy') <= Cardinality(Busy) /\ Cardinality(Busy') \in Nat
  BY BusyFinite, FS_Subset, FS_CardinalityType
<1>2. doubled \in Nat /\ Cardinality(Busy) \in Nat
  BY BusyFinite DEF TaskTypeOK
<1> QED
  BY <1>1, <1>2 DEF BusyBounded

(* A follow-up takes the place of the row it follows, unless that row could
   not be cleared; a request never adds a row to a series that has one.      *)
LEMMA BusyStep == TaskTypeOK /\ Shaped /\ BusyBounded /\ [TaskNext]_vars => BusyBounded'
<1> SUFFICES ASSUME TaskTypeOK, Shaped, BusyBounded, [TaskNext]_vars PROVE BusyBounded'
  OBVIOUS
<1>0. doubled \in Nat /\ Cardinality(Busy) \in Nat /\ IsFiniteSet(Busy)
  BY BusyFinite DEF TaskTypeOK
<1>1. ASSUME NEW isRecurring \in BOOLEAN, Schedule(isRecurring) PROVE BusyBounded'
  <2>1. Next1 \in Row /\ \A r \in Row : status[r] = "none" /\ ack[r] = "none" /\ r \notin fetched
    BY <1>1 DEF Schedule, Added, Next1, Shaped, HandsApart, Used
  <2>2. Busy' = {Next1}
    BY <1>1, <2>1
       DEF Schedule, Added, Next1, Busy, Live, Owing, Claimed, TaskTypeOK
  <2>3. Cardinality(Busy') = 1 /\ doubled' = doubled
    BY <1>1, <2>2, FS_Singleton DEF Schedule
  <2> QED
    BY <1>0, <2>3 DEF BusyBounded
<1>2. ASSUME NEW isRecurring \in BOOLEAN, Update(isRecurring) PROVE BusyBounded'
  <2>1. Busy' \subseteq Busy
    BY <1>2 DEF Update, Busy, Live, Owing, Claimed, TaskTypeOK
  <2> QED
    BY <1>2, <2>1, BusyShrinks DEF Update
<1>3. CASE Cancel \/ Pause \/ Resume
  <2>1. Busy' \subseteq Busy
    BY <1>3 DEF Cancel, Pause, Resume, Busy, Live, Owing, Claimed, TaskTypeOK
  <2> QED
    BY <1>3, <2>1, BusyShrinks DEF Cancel, Pause, Resume
<1>4. ASSUME NEW r \in Row, Fetch(r) \/ Claim(r) \/ Complete(r) PROVE BusyBounded'
  <2>1. Busy' \subseteq Busy
    BY <1>4 DEF Fetch, Claim, Complete, Busy, Live, Owing, Claimed, TaskTypeOK
  <2> QED
    BY <1>4, <2>1, BusyShrinks DEF Fetch, Claim, Complete
<1>5. ASSUME NEW r \in Row, Clone(r) PROVE BusyBounded'
  <2>1. r \in Owing /\ r \notin fetched /\ r \notin Claimed /\ r \notin Live
    BY <1>5 DEF Clone, Shaped, HandsApart, Claimed, Live, Owing
  <2>2. CASE UNCHANGED <<rows, doubled>>
    <3>1. Busy' \subseteq Busy
      BY <1>5, <2>2 DEF Clone, Busy, Live, Owing, Claimed
    <3> QED
      BY <2>2, <3>1, BusyShrinks
  <2>3. CASE Next1 \in Row /\ status' = [status EXCEPT ![Next1] = "pending"]
             /\ recur' = [recur EXCEPT ![Next1] = TRUE, ![r] = FALSE] /\ doubled' = doubled
    <3>1. status[Next1] = "none"
      BY <2>3, NextIsNew DEF Shaped
    <3>2. Busy' = (Busy \ {r}) \cup {Next1}
      BY <1>5, <2>1, <2>3, <3>1 DEF Clone, Busy, Live, Owing, Claimed, TaskTypeOK
    <3>3. r \in Busy
      BY <2>1 DEF Busy
    <3>4. IsFiniteSet(Busy \ {r}) /\ Cardinality(Busy \ {r}) = Cardinality(Busy) - 1
      BY <1>0, <3>3, FS_RemoveElement
    <3>5. /\ IsFiniteSet(Busy')
          /\ Cardinality(Busy') \in {Cardinality(Busy \ {r}), Cardinality(Busy \ {r}) + 1}
      BY <3>2, <3>4, FS_AddElement
    <3>6. Cardinality(Busy') \in Nat /\ Cardinality(Busy') <= Cardinality(Busy)
      BY <1>0, <3>4, <3>5, FS_CardinalityType
    <3> QED
      BY <1>0, <2>3, <3>6 DEF BusyBounded
  <2>4. CASE Next1 \in Row /\ status' = [status EXCEPT ![Next1] = "pending"]
             /\ recur' = [recur EXCEPT ![Next1] = TRUE] /\ doubled' = doubled + 1
    <3>1. Busy' \subseteq Busy \cup {Next1}
      BY <1>5, <2>4 DEF Clone, Busy, Live, Owing, Claimed, TaskTypeOK
    <3>2. IsFiniteSet(Busy \cup {Next1}) /\ Cardinality(Busy \cup {Next1}) <= Cardinality(Busy) + 1
      BY <1>0, FS_AddElement
    <3>3. IsFiniteSet(Busy') /\ Cardinality(Busy') <= Cardinality(Busy \cup {Next1})
      BY <3>1, <3>2, FS_Subset
    <3>4. Cardinality(Busy') \in Nat /\ Cardinality(Busy \cup {Next1}) \in Nat
      BY <3>2, <3>3, FS_CardinalityType
    <3> QED
      BY <1>0, <2>4, <3>2, <3>3, <3>4 DEF BusyBounded
  <2> QED
    BY <1>5, <2>2, <2>3, <2>4 DEF Clone, Added, Next1
<1>6. CASE ContainerLost
  <2>1. Busy' \subseteq Busy
    BY <1>6 DEF ContainerLost, Busy, Live, Owing, Claimed, TaskTypeOK
  <2> QED
    BY <1>6, <2>1, BusyShrinks DEF ContainerLost
<1>7. CASE Sync
  <2>1. Busy' \subseteq Busy
    BY <1>7 DEF Sync, Busy, Live, Owing, Claimed, TaskTypeOK, Shaped, HandsApart
  <2> QED
    BY <1>7, <2>1, BusyShrinks DEF Sync
<1>8. CASE Fanout \/ SweepOver \/ HostRestarts \/ UNCHANGED vars
  <2>1. Busy' = Busy /\ doubled' = doubled
    BY <1>8 DEF Fanout, SweepOver, HostRestarts, vars, Busy, Live, Owing, Claimed
  <2> QED
    BY <2>1, BusyShrinks
<1> QED
  BY <1>1, <1>2, <1>3, <1>4, <1>5, <1>6, <1>7, <1>8 DEF TaskNext
-----------------------------------------------------------------------------
(* While the series is to go on, every live row carries the cron expression,
   so that its completion leaves a row that is owed a follow-up.            *)
GoesOn == wish # "cancelled" /\ again /\ \A r \in Row : status[r] # "failed"
Recurs ==
  GoesOn => /\ wish # "none" /\ \A r \in Live : recur[r]
            /\ Live \cup Owing # {}

(* A stop that met an idle row stays: nothing is left to be cloned, and the
   paused row is in no container's hands.                                   *)
Stopped ==
  quiet /\ doubled = 0 =>
    /\ wish = "paused" => /\ Owing = {}
                          /\ \A r \in Row : status[r] # "pending"
                          /\ \A r \in Live : ack[r] = "none" /\ r \notin fetched
    /\ wish = "cancelled" => Live = {} /\ Owing = {}

LEMMA AloneWhenLive ==
  ASSUME TaskTypeOK, BusyBounded, doubled = 0, Live # {}
  PROVE  Owing = {}
<1>1. IsFiniteSet(Busy) /\ Cardinality(Busy) \in Nat /\ Cardinality(Busy) <= 1
  BY BusyFinite DEF BusyBounded
<1>2. Live \subseteq Busy /\ Owing \subseteq Busy /\ Live \cap Owing = {}
  BY DEF Busy, Live, Owing
<1>3. Cardinality(Busy) = 1
  BY <1>1, <1>2, FS_EmptySet
<1>4. PICK x : Busy = {x}
  BY <1>1, <1>3, FS_Singleton
<1> QED
  BY <1>2, <1>4

LEMMA RecursStep == TaskTypeOK /\ Shaped /\ Recurs /\ [TaskNext]_vars => Recurs'
<1> SUFFICES ASSUME TaskTypeOK, Shaped, Recurs, [TaskNext]_vars, GoesOn'
             PROVE  wish' # "none" /\ (\A r \in Live' : recur'[r]) /\ Live' \cup Owing' # {}
  BY DEF Recurs
<1> DEFINE Goal == wish' # "none" /\ (\A r \in Live' : recur'[r]) /\ Live' \cup Owing' # {}
<1>1. ASSUME NEW isRecurring \in BOOLEAN, Schedule(isRecurring) PROVE Goal
  <2>1. isRecurring /\ Used = {}
    BY <1>1 DEF Schedule, GoesOn, Shaped, HandsApart
  <2>2. Next1 \in Row /\ Live' = {Next1} /\ recur'[Next1]
    BY <1>1, <2>1 DEF Schedule, Added, Next1, Live, Used, TaskTypeOK
  <2> QED
    BY <1>1, <2>2 DEF Schedule
<1>2. ASSUME NEW isRecurring \in BOOLEAN, Update(isRecurring) PROVE Goal
  <2>1. isRecurring /\ Live # {} /\ Live' = Live /\ wish' \in {"live", "paused"}
    BY <1>2 DEF Update, GoesOn, Live
  <2>2. \A r \in Live : recur'[r]
    BY <1>2, <2>1 DEF Update, Live
  <2> QED
    BY <2>1, <2>2
<1>3. CASE Cancel
  BY <1>3 DEF Cancel, GoesOn
<1>4. CASE Pause \/ Resume
  <2>1. GoesOn
    BY <1>4 DEF Pause, Resume, GoesOn, TaskTypeOK
  <2>2. Live' = Live /\ Owing' = Owing /\ recur' = recur /\ wish' # "none"
    BY <1>4 DEF Pause, Resume, Live, Owing, TaskTypeOK
  <2> QED
    BY <2>1, <2>2 DEF Recurs
<1>5. ASSUME NEW r \in Row, Clone(r) PROVE Goal
  <2>1. r \in Owing /\ wish' = wish /\ again' = again
    BY <1>5 DEF Clone, Shaped, HandsApart
  <2>2. CASE UNCHANGED <<rows, doubled>>
    <3>1. GoesOn /\ Live' = Live /\ Owing' = Owing /\ recur' = recur
      BY <2>1, <2>2 DEF GoesOn, Live, Owing
    <3> QED
      BY <2>1, <3>1 DEF Recurs
  <2>3. CASE Next1 \in Row /\ status' = [status EXCEPT ![Next1] = "pending"]
             /\ recur' \in {[recur EXCEPT ![Next1] = TRUE, ![r] = FALSE], [recur EXCEPT ![Next1] = TRUE]}
    <3>1. status[Next1] = "none"
      BY <2>3, NextIsNew DEF Shaped
    <3>2. GoesOn
      BY <2>1, <2>3, <3>1 DEF GoesOn, TaskTypeOK
    <3>3. Live' = Live \cup {Next1} /\ r \notin Live /\ r # Next1
      BY <2>1, <2>3, <3>1 DEF Live, Owing, TaskTypeOK
    <3>4. \A x \in Live' : recur'[x]
      BY <2>3, <3>2, <3>3 DEF Recurs, Live, TaskTypeOK
    <3> QED
      BY <2>1, <3>2, <3>3, <3>4 DEF Recurs
  <2> QED
    BY <1>5, <2>2, <2>3 DEF Clone, Added, Next1
<1>6. CASE ContainerLost
  <2>1. status' = status
    BY <1>6 DEF ContainerLost, GoesOn, TaskTypeOK
  <2> QED
    BY <1>6, <2>1 DEF ContainerLost, GoesOn, Recurs, Live, Owing
<1>7. CASE Sync
  <2>1. GoesOn
    BY <1>7 DEF Sync, GoesOn, Shaped, HandsApart
  <2>2. Live' \subseteq Live /\ Live \subseteq Live' \cup Owing' /\ Owing \subseteq Owing'
    BY <1>7, <2>1 DEF Sync, Recurs, Live, Owing, TaskTypeOK
  <2> QED
    BY <1>7, <2>1, <2>2 DEF Sync, Recurs
<1>8. ASSUME UNCHANGED <<rows, wish, again>> PROVE Goal
  BY <1>8 DEF GoesOn, Recurs, Live, Owing
<1>9. ASSUME NEW r \in Row, Fetch(r) \/ Claim(r) \/ Complete(r) PROVE Goal
  BY <1>8, <1>9 DEF Fetch, Claim, Complete
<1>10. CASE Fanout \/ SweepOver \/ HostRestarts \/ UNCHANGED vars
  BY <1>8, <1>10 DEF Fanout, SweepOver, HostRestarts, vars
<1> QED
  BY <1>1, <1>2, <1>3, <1>4, <1>5, <1>6, <1>7, <1>9, <1>10 DEF TaskNext

LEMMA StoppedStep ==
  TaskTypeOK /\ Shaped /\ BusyBounded /\ Stopped /\ [TaskNext]_vars => Stopped'
<1> DEFINE Held == /\ wish = "paused" => /\ Owing = {}
                                         /\ \A r \in Row : status[r] # "pending"
                                         /\ \A r \in Live : ack[r] = "none" /\ r \notin fetched
                   /\ wish = "cancelled" => Live = {} /\ Owing = {}
<1> SUFFICES ASSUME TaskTypeOK, Shaped, BusyBounded, Stopped, [TaskNext]_vars, quiet', doubled' = 0
             PROVE  Held'
  BY DEF Stopped
<1>1. ASSUME NEW isRecurring \in BOOLEAN, Schedule(isRecurring) PROVE Held'
  BY <1>1 DEF Schedule
<1>2. ASSUME NEW isRecurring \in BOOLEAN, Update(isRecurring) PROVE Held'
  <2>1. Held /\ wish' = wish /\ UNCHANGED <<status, container>>
    BY <1>2 DEF Update, Stopped
  <2>2. Live' = Live /\ Owing' = Owing
    BY <1>2 DEF Update, Live, Owing, TaskTypeOK
  <2> QED
    BY <2>1, <2>2
<1>3. CASE Cancel
  <2>1. Live # {} /\ doubled = 0
    BY <1>3 DEF Cancel
  <2>2. Owing = {}
    BY <2>1, AloneWhenLive
  <2> QED
    BY <1>3, <2>2 DEF Cancel, Live, Owing, TaskTypeOK
<1>4. CASE Pause
  <2>1. Live # {} /\ doubled = 0 /\ Live \cap UnderWay = {}
    BY <1>4 DEF Pause
  <2>2. Owing = {}
    BY <2>1, AloneWhenLive
  <2>3. Live' = Live /\ Owing' = Owing /\ \A r \in Row : status'[r] # "pending"
    BY <1>4 DEF Pause, Live, Owing, TaskTypeOK
  <2>4. \A r \in Live : ack[r] = "none" /\ r \notin fetched
    BY <2>1 DEF UnderWay, Live
  <2> QED
    BY <1>4, <2>2, <2>3, <2>4 DEF Pause
<1>5. CASE Resume
  BY <1>5 DEF Resume
<1>6. ASSUME NEW r \in Row, Fetch(r) \/ Claim(r) \/ Complete(r) PROVE Held'
  <2>1. Held /\ wish' = wish /\ UNCHANGED rows
    BY <1>6 DEF Fetch, Claim, Complete, Stopped
  <2>2. Live' = Live /\ Owing' = Owing
    BY <2>1 DEF Live, Owing
  <2>3. ASSUME wish = "paused", NEW x \in Live PROVE ack'[x] = "none" /\ x \notin fetched'
    <3>1. status[r] # "pending" /\ ack[x] = "none" /\ x \notin fetched /\ x \in Row
      BY <2>1, <2>3 DEF Live
    <3>2. CASE Claim(r)
      BY <3>1, <3>2 DEF Claim, TaskTypeOK
    <3>3. CASE Complete(r)
      BY <3>1, <3>3 DEF Complete, TaskTypeOK
    <3> QED
      BY <1>6, <3>1, <3>2, <3>3 DEF Fetch
  <2> QED
    BY <2>1, <2>2, <2>3
<1>7. ASSUME NEW r \in Row, Clone(r) PROVE Held'
  <2>1. r \in Owing /\ wish' = wish
    BY <1>7 DEF Clone, Shaped, HandsApart
  <2>2. quiet
    BY <1>7 DEF Clone
  <2>3. doubled = 0
    <3>1. doubled' = doubled \/ doubled' = doubled + 1
      BY <1>7 DEF Clone
    <3>2. doubled \in Nat
      BY DEF TaskTypeOK
    <3> QED
      BY <3>1, <3>2
  <2> QED
    BY <2>1, <2>2, <2>3 DEF Stopped
<1>8. CASE ContainerLost
  <2>1. Held /\ wish' = wish /\ fetched' = {}
    BY <1>8 DEF ContainerLost, Stopped
  <2>2. Live' \subseteq Live /\ Owing' = Owing
    BY <1>8 DEF ContainerLost, Live, Owing, TaskTypeOK
  <2>3. (\A r \in Row : status[r] # "pending") => \A r \in Row : status'[r] # "pending"
    BY <1>8 DEF ContainerLost, TaskTypeOK
  <2>4. \A r \in Live : ack[r] = "none" => ack'[r] = "none"
    BY <1>8 DEF ContainerLost, Live, TaskTypeOK
  <2> QED
    BY <2>1, <2>2, <2>3, <2>4
<1>9. CASE Sync
  <2>1. Held /\ wish' = wish /\ UNCHANGED <<recur, container>>
    BY <1>9 DEF Sync, Stopped
  <2>2. Live' \subseteq Live
    BY <1>9 DEF Sync, Live, TaskTypeOK
  <2>3. (\A r \in Row : status[r] # "pending") => \A r \in Row : status'[r] # "pending"
    BY <1>9 DEF Sync, TaskTypeOK
  <2>4. ASSUME Owing = {}, \A r \in Live : ack[r] = "none" PROVE Owing' = {}
    BY <1>9, <2>4 DEF Sync, Owing, Live, Shaped, HandsApart, TaskTypeOK
  <2> QED
    BY <2>1, <2>2, <2>3, <2>4
<1>10. CASE Fanout \/ SweepOver \/ HostRestarts \/ UNCHANGED vars
  <2>1. Held /\ UNCHANGED <<rows, container, wish>>
    BY <1>10 DEF Fanout, SweepOver, HostRestarts, vars, Stopped
  <2> QED
    BY <2>1 DEF Live, Owing
<1> QED
  BY <1>1, <1>2, <1>3, <1>4, <1>5, <1>6, <1>7, <1>8, <1>9, <1>10 DEF TaskNext

-----------------------------------------------------------------------------
TaskInv == TaskTypeOK /\ DoubledByFaults /\ Shaped /\ BusyBounded /\ Recurs /\ Stopped

LEMMA TaskInvInit == TaskInit => TaskInv
<1> SUFFICES ASSUME TaskInit PROVE TaskInv
  OBVIOUS
<1>1. Used = {} /\ Live = {} /\ Owing = {} /\ Busy = {}
  BY DEF TaskInit, Used, Live, Owing, Busy, Claimed
<1>2. Shaped
  BY <1>1, FS_EmptySet DEF TaskInit, Shaped, Placed, HandsApart
<1>3. BusyBounded
  BY <1>1, FS_EmptySet DEF TaskInit, BusyBounded
<1>4. Recurs /\ Stopped
  BY DEF TaskInit, Recurs, GoesOn, Stopped
<1> QED
  BY <1>2, <1>3, <1>4, TypeInit DEF TaskInv

LEMMA TaskInvHolds == TaskSpec => []TaskInv
<1>1. TaskInv /\ [TaskNext]_vars => TaskInv'
  BY TypeStep, ShapeStep, BusyStep, RecursStep, StoppedStep DEF TaskInv
<1> QED
  BY <1>1, TaskInvInit, PTL DEF TaskSpec

LEMMA PartOfBusy ==
  ASSUME TaskTypeOK, BusyBounded, NEW S, S \subseteq Busy
  PROVE  Cardinality(S) <= 1 + doubled
<1>1. IsFiniteSet(S) /\ Cardinality(S) <= Cardinality(Busy)
  BY BusyFinite, FS_Subset
<1>2. Cardinality(S) \in Nat /\ Cardinality(Busy) \in Nat /\ doubled \in Nat
  BY <1>1, BusyFinite, FS_CardinalityType DEF TaskTypeOK
<1> QED
  BY <1>1, <1>2 DEF BusyBounded

(* A series has one live row, and one more per follow-up whose original could
   not be cleared.                                                          *)
THEOREM OneLiveRowHolds == TaskSpec => []OneLiveRow
<1>1. TaskInv => OneLiveRow
  BY PartOfBusy DEF TaskInv, OneLiveRow, Busy
<1> QED
  BY <1>1, TaskInvHolds, PTL

(* The occurrences a container works on are bounded the same way. *)
THEOREM OneAtATimeHolds == TaskSpec => []OneAtATime
<1>1. TaskInv => OneAtATime
  BY PartOfBusy DEF TaskInv, OneAtATime, Busy, Claimed
<1> QED
  BY <1>1, TaskInvHolds, PTL

(* A recurring series that nobody cancelled and that never failed always has
   a live row or one that the next fan-out follows up.                      *)
THEOREM SeriesAliveHolds == TaskSpec => []SeriesAlive
<1>1. TaskInv => SeriesAlive
  BY DEF TaskInv, Recurs, GoesOn, SeriesAlive, Live, Owing
<1> QED
  BY <1>1, TaskInvHolds, PTL

(* A pause or a cancellation that found its row idle holds. *)
THEOREM QuietStopHoldsAlways == TaskSpec => []QuietStopHolds
<1>1. TaskInv => QuietStopHolds
  BY DEF TaskInv, Stopped, QuietStopHolds
<1> QED
  BY <1>1, TaskInvHolds, PTL
==============================================================================
