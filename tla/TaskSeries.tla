------------------------------ MODULE TaskSeries ------------------------------
(***************************************************************************)
(* One series of a scheduled task: its rows of messages_in, the agent's     *)
(* requests (src/src/modules/scheduling/actions.ts and db.ts), the          *)
(* container that runs an occurrence, and the sweep steps that plan the     *)
(* next one (syncProcessingAcks, then handleRecurrence).  Requests are       *)
(* applied by the delivery poll, which runs whenever the sweep awaits.      *)
(*                                                                         *)
(* When an occurrence is due is left open: it may be fetched at any time.   *)
(***************************************************************************)
EXTENDS Naturals, FiniteSets

CONSTANTS
  MaxRows,     \* bound: occurrences
  MaxFaults    \* bound: host crashes and failed statements

ASSUME TaskAssumption == MaxRows \in Nat \ {0} /\ MaxFaults \in Nat

Row == 1..MaxRows

VARIABLES
  status,   \* messages_in.status
  recur,    \* messages_in.recurrence is not null
  fetched,  \* rows a container has read and not yet claimed
  ack,      \* processing_ack.status
  sweep,    \* "idle", "synced" (the wake is awaited), "fanout"
  fan,      \* rows handleRecurrence has still to clone
  wish,     \* history: the last request applied: "none", "live", "paused" ...
  quiet,    \* history: that request found its row, and not under way
  again,    \* history: whether the series is to go on
  doubled,  \* history: follow-ups whose original could not be cleared
  faults    \* bound: faults so far

rows == <<status, recur>>
container == <<fetched, ack>>
vars == <<rows, container, sweep, fan, wish, quiet, again, doubled, faults>>

TaskTypeOK ==
  /\ status \in [Row -> {"none", "pending", "paused", "completed", "failed"}]
  /\ recur \in [Row -> BOOLEAN]
  /\ fetched \subseteq Row
  /\ ack \in [Row -> {"none", "processing", "completed"}]
  /\ sweep \in {"idle", "synced", "fanout"}
  /\ fan \subseteq Row
  /\ wish \in {"none", "live", "paused", "cancelled"}
  /\ quiet \in BOOLEAN /\ again \in BOOLEAN
  /\ {doubled, faults} \subseteq 0..MaxFaults

TaskInit ==
  /\ status = [r \in Row |-> "none"]
  /\ recur = [r \in Row |-> FALSE]
  /\ fetched = {} /\ ack = [r \in Row |-> "none"]
  /\ sweep = "idle" /\ fan = {}
  /\ wish = "none" /\ quiet = TRUE /\ again = FALSE
  /\ doubled = 0 /\ faults = 0

Fault == faults < MaxFaults /\ faults' = faults + 1

Used == {r \in Row : status[r] # "none"}
Live == {r \in Row : status[r] \in {"pending", "paused"}}
UnderWay == fetched \cup {r \in Row : ack[r] # "none"}

(* A new pending row, at the place after all others. *)
Added(isRecurring) ==
  LET r == Cardinality(Used) + 1 IN
  /\ r \in Row
  /\ status' = [status EXCEPT ![r] = "pending"]
  /\ recur' = [recur EXCEPT ![r] = isRecurring]

-----------------------------------------------------------------------------
(* handleScheduleTask: insertTask. *)
Schedule(isRecurring) ==
  /\ wish = "none"
  /\ Added(isRecurring)
  /\ wish' = "live" /\ again' = isRecurring
  /\ UNCHANGED <<container, sweep, fan, quiet, doubled, faults>>

(* Fault: cancelling leaves the cron expression on the row. *)
CancelKeepsCron ==
  /\ wish \in {"live", "paused"}
  /\ status' = [r \in Row |-> IF r \in Live THEN "completed" ELSE status[r]]
  /\ wish' = "cancelled" /\ quiet' = (Live # {})
  /\ UNCHANGED <<recur, container, sweep, fan, again, doubled, faults>>

(* handleCancelTask: the live rows of the series end and recur no more. *)
Cancel ==
  /\ wish \in {"live", "paused"}
  /\ status' = [r \in Row |-> IF r \in Live THEN "completed" ELSE status[r]]
  /\ recur' = [r \in Row |-> recur[r] /\ r \notin Live]
  /\ wish' = "cancelled" /\ quiet' = (Live # {})
  /\ UNCHANGED <<container, sweep, fan, again, doubled, faults>>

(* handlePauseTask and handleResumeTask. *)
Pause ==
  /\ wish = "live"
  /\ status' = [r \in Row |-> IF status[r] = "pending" THEN "paused" ELSE status[r]]
  /\ wish' = "paused" /\ quiet' = (Live # {} /\ Live \cap UnderWay = {})
  /\ UNCHANGED <<recur, container, sweep, fan, again, doubled, faults>>
Resume ==
  /\ wish = "paused"
  /\ status' = [r \in Row |-> IF status[r] = "paused" THEN "pending" ELSE status[r]]
  /\ wish' = "live" /\ quiet' = TRUE
  /\ UNCHANGED <<recur, container, sweep, fan, again, doubled, faults>>

(* handleUpdateTask on the recurrence; when no row is live the agent is told
   so and nothing changes.                                                  *)
Update(isRecurring) ==
  /\ wish \in {"live", "paused"} /\ Live # {}
  /\ recur' = [r \in Row |-> IF r \in Live THEN isRecurring ELSE recur[r]]
  /\ again' = isRecurring
  /\ UNCHANGED <<status, container, sweep, fan, wish, quiet, doubled, faults>>

-----------------------------------------------------------------------------
(* getPendingMessages reads inbound.db, markProcessing writes outbound.db:
   two processes, two files, so the host may step in between.               *)
Fetch(r) ==
  /\ status[r] = "pending" /\ ack[r] = "none"
  /\ fetched' = fetched \cup {r}
  /\ UNCHANGED <<rows, ack, sweep, fan, wish, quiet, again, doubled, faults>>
Claim(r) ==
  /\ r \in fetched
  /\ fetched' = fetched \ {r}
  /\ ack' = [ack EXCEPT ![r] = "processing"]
  /\ UNCHANGED <<rows, sweep, fan, wish, quiet, again, doubled, faults>>

(* markCompleted: the turn is over, or the script skipped the occurrence. *)
Complete(r) ==
  /\ ack[r] = "processing"
  /\ ack' = [ack EXCEPT ![r] = "completed"]
  /\ UNCHANGED <<rows, fetched, sweep, fan, wish, quiet, again, doubled, faults>>

(* The container is lost, and its claims with it: the next one forgets them,
   or the sweep puts the pending ones back or, their tries spent, fails them. *)
ContainerLost ==
  /\ UnderWay # {}
  /\ fetched' = {}
  /\ ack' = [r \in Row |-> IF ack[r] = "processing" THEN "none" ELSE ack[r]]
  /\ \/ UNCHANGED status
     \/ status' = [r \in Row |-> IF ack[r] = "processing" /\ status[r] = "pending"
                                 THEN "failed" ELSE status[r]]
  /\ UNCHANGED <<recur, sweep, fan, wish, quiet, again, doubled, faults>>

-----------------------------------------------------------------------------
(* syncProcessingAcks: whatever the row's status was. *)
Sync ==
  /\ sweep = "idle"
  /\ status' = [r \in Row |-> IF ack[r] = "completed" THEN "completed" ELSE status[r]]
  /\ sweep' = "synced"
  /\ UNCHANGED <<recur, container, fan, wish, quiet, again, doubled, faults>>

(* handleRecurrence reads getCompletedRecurring, then awaits an import. *)
Fanout ==
  /\ sweep = "synced"
  /\ sweep' = "fanout"
  /\ fan' = {r \in Row : status[r] = "completed" /\ recur[r]}
  /\ UNCHANGED <<rows, container, wish, quiet, again, doubled, faults>>

(* Fault: the cron expression is cleared before the next row is inserted. *)
CloneClearsFirst(r) ==
  /\ r \in fan /\ fan' = fan \ {r}
  /\ \/ LET n == Cardinality(Used) + 1 IN
        /\ n \in Row
        /\ status' = [status EXCEPT ![n] = "pending"]
        /\ recur' = [recur EXCEPT ![n] = TRUE, ![r] = FALSE]
        /\ UNCHANGED faults
     \/ recur' = [recur EXCEPT ![r] = FALSE] /\ Fault /\ UNCHANGED status
  /\ UNCHANGED <<container, sweep, wish, quiet, again, doubled>>
(* Fault: the original keeps its cron expression. *)
CloneUncleared(r) ==
  /\ r \in fan /\ fan' = fan \ {r}
  /\ Added(TRUE)
  /\ UNCHANGED <<container, sweep, wish, quiet, again, doubled, faults>>

(* insertRecurrence, then clearRecurrence on the original. A failure of
   either is logged, and the next sweep finds the original again.           *)
Clone(r) ==
  /\ r \in fan /\ fan' = fan \ {r}
  /\ LET n == Cardinality(Used) + 1 IN
     \/ /\ n \in Row
        /\ status' = [status EXCEPT ![n] = "pending"]
        /\ recur' = [recur EXCEPT ![n] = TRUE, ![r] = FALSE]
        /\ UNCHANGED <<doubled, faults>>
     \/ Added(TRUE) /\ Fault /\ doubled' = doubled + 1
     \/ UNCHANGED <<rows, doubled>> /\ Fault
  /\ UNCHANGED <<container, sweep, wish, quiet, again>>

SweepOver ==
  /\ sweep = "fanout" /\ fan = {}
  /\ sweep' = "idle"
  /\ UNCHANGED <<rows, container, fan, wish, quiet, again, doubled, faults>>

(* The host dies and comes back: the sweep starts anew. *)
HostRestarts ==
  /\ sweep # "idle" /\ Fault
  /\ sweep' = "idle" /\ fan' = {}
  /\ UNCHANGED <<rows, container, wish, quiet, again, doubled>>

TaskNext ==
  \/ \E isRecurring \in BOOLEAN : Schedule(isRecurring) \/ Update(isRecurring)
  \/ Cancel \/ Pause \/ Resume
  \/ \E r \in Row : Fetch(r) \/ Claim(r) \/ Complete(r) \/ Clone(r)
  \/ ContainerLost
  \/ Sync \/ Fanout \/ SweepOver \/ HostRestarts

TaskSpec == TaskInit /\ [][TaskNext]_vars

-----------------------------------------------------------------------------
(* A series has one live occurrence at most (scheduling.ts:119-122, "one live
   follow-up"), so that a firing runs once and list_tasks, which shows one
   row per series, hides none. Each clearRecurrence that failed doubles one
   follow-up: insert and clear are not one transaction.                     *)
OneLiveRow == Cardinality(Live) <= 1 + doubled

(* An occurrence is not started while the one before it is being worked on. *)
OneAtATime == Cardinality({r \in Row : ack[r] = "processing"}) <= 1 + doubled

(* A recurring series never ends by itself: unless it was cancelled or an
   occurrence failed for good, a row is live or about to be cloned, whichever
   statement of the sweep failed.                                           *)
SeriesAlive ==
  wish # "cancelled" /\ again /\ (\A r \in Row : status[r] # "failed")
    => \E r \in Row : r \in Live \/ (status[r] = "completed" /\ recur[r])

(* A request that found its row, and found it idle, holds: no occurrence is
   due while the series is paused, none is left once it is cancelled. (A
   doubled series escapes: the original that still recurs is not live.)     *)
QuietStopHolds ==
  quiet /\ doubled = 0 =>
    /\ wish = "paused" => \A r \in Row : status[r] # "pending"
    /\ wish = "cancelled" => Live = {}
==============================================================================
