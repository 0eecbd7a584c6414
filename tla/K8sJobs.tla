------------------------------ MODULE K8sJobs ------------------------------
(***************************************************************************)
(* How the Kubernetes provider learns that an agent's Job is over           *)
(* (src/adapters/container/k8s.ts).                                         *)
(*                                                                         *)
(* spawn creates a Job and, once the API server has answered, registers a    *)
(* waiter (`pending`) for its end.  An informer, a watch that is listed anew  *)
(* after every error, reports what happens to Jobs; a report nobody waits     *)
(* for is ignored.  A finished Job is removed after 120 seconds.             *)
(***************************************************************************)
EXTENDS Naturals

CONSTANTS
  JobName,     \* Jobs, one per spawn
  MaxOutages   \* bound: watch errors, lost replies and host restarts

ASSUME JobConstants == MaxOutages \in Nat

VARIABLES
  cluster,   \* the Job: none, there, gone
  result,    \* its terminal condition: none, complete, failed
  created,   \* the call in spawn: idle, sent, answered, threw
  seen,      \* what the informer last reported of it: none, running, ended, gone;
             \* missed: it came and went in a gap
  informer,  \* up, down (the restart timer runs), deaf (the restart failed)
  waiter,    \* none, waiting, killing, and the reason reported in the end
  knew,      \* history: what had been reported when the waiter was registered
  outages    \* outages so far

jobVars == <<cluster, result, created, seen, informer, waiter, knew, outages>>

JobInit ==
  /\ cluster = [j \in JobName |-> "none"] /\ result = [j \in JobName |-> "none"]
  /\ created = [j \in JobName |-> "idle"]
  /\ seen = [j \in JobName |-> "none"] /\ informer = "up"
  /\ waiter = [j \in JobName |-> "none"] /\ knew = [j \in JobName |-> "none"]
  /\ outages = 0

Outage == outages < MaxOutages /\ outages' = outages + 1

Awaited(j) == waiter[j] \in {"waiting", "killing"}
Over == {"complete", "failed"}

-----------------------------------------------------------------------------
(* spawn and kill *)

Create(j) ==
  /\ created[j] = "idle" /\ cluster[j] = "none"
  /\ created' = [created EXCEPT ![j] = "sent"]
  /\ cluster' = [cluster EXCEPT ![j] = "there"]
  /\ UNCHANGED <<result, seen, informer, waiter, knew, outages>>

Created(j) ==
  /\ created[j] = "sent" /\ created' = [created EXCEPT ![j] = "answered"]
  /\ waiter' = [waiter EXCEPT ![j] = "waiting"]
  /\ knew' = [knew EXCEPT ![j] = seen[j]]
  /\ UNCHANGED <<cluster, result, seen, informer, outages>>

\* The answer is lost: spawn throws although the Job is there.
CreateThrows(j) ==
  /\ created[j] = "sent" /\ Outage /\ created' = [created EXCEPT ![j] = "threw"]
  /\ UNCHANGED <<cluster, result, seen, informer, waiter, knew>>

\* The flag is set, the Job deleted; a deletion that fails is only logged.
KillJob(j, deleted) ==
  /\ waiter[j] = "waiting" /\ waiter' = [waiter EXCEPT ![j] = "killing"]
  /\ cluster' = IF deleted THEN [cluster EXCEPT ![j] = "gone"] ELSE cluster
  /\ UNCHANGED <<result, created, seen, informer, knew, outages>>

-----------------------------------------------------------------------------
(* The cluster *)

Ends(j, how) ==
  /\ cluster[j] = "there" /\ result[j] = "none" /\ result' = [result EXCEPT ![j] = how]
  /\ UNCHANGED <<cluster, created, seen, informer, waiter, knew, outages>>

\* ttlSecondsAfterFinished, or somebody deletes the Job.
Vanishes(j) ==
  /\ cluster[j] = "there" /\ cluster' = [cluster EXCEPT ![j] = "gone"]
  /\ UNCHANGED <<result, created, seen, informer, waiter, knew, outages>>

-----------------------------------------------------------------------------
(* The informer *)

\* onJobUpdate: a terminal condition resolves the waiter.
Updated(j) ==
  IF Awaited(j) THEN [waiter EXCEPT ![j] = IF @ = "killing" THEN "killed" ELSE result[j]]
  ELSE waiter

(* Fault: no handler for deletions. *)
DeletedUnheard(j) == waiter

\* onJobDelete: so does the Job's disappearance, whatever its end was.
Deleted(j) ==
  IF Awaited(j) THEN [waiter EXCEPT ![j] = IF @ = "killing" THEN "killed" ELSE "failed"]
  ELSE waiter

\* The watch reports the changes of one Job in order.
Report(j) ==
  /\ informer = "up"
  /\ \/ /\ seen[j] = "none" /\ cluster[j] # "none" /\ seen' = [seen EXCEPT ![j] = "running"]
        /\ UNCHANGED waiter
     \/ /\ seen[j] = "running" /\ result[j] # "none"
        /\ seen' = [seen EXCEPT ![j] = "ended"] /\ waiter' = Updated(j)
     \/ /\ seen[j] = (IF result[j] = "none" THEN "running" ELSE "ended")
        /\ cluster[j] = "gone" /\ seen' = [seen EXCEPT ![j] = "gone"] /\ waiter' = Deleted(j)
  /\ UNCHANGED <<cluster, result, created, informer, knew, outages>>

WatchFails ==
  /\ informer = "up" /\ Outage /\ informer' = "down"
  /\ UNCHANGED <<cluster, result, created, seen, waiter, knew>>

\* informer.start: a new list.  What is listed is reported as an update, what
\* was known and is not listed as a deletion; what came and went unseen is not.
Listed(j) == IF result[j] = "none" THEN "running" ELSE "ended"

Relist ==
  /\ informer = "down" /\ informer' = "up"
  /\ seen' = [j \in JobName |->
       CASE cluster[j] = "there" -> Listed(j)
         [] cluster[j] = "gone" -> IF seen[j] \in {"running", "ended"} THEN "gone"
                                   ELSE IF seen[j] = "none" THEN "missed" ELSE seen[j]
         [] OTHER -> "none"]
  /\ waiter' = [j \in JobName |->
       CASE cluster[j] = "there" /\ result[j] # "none" -> Updated(j)[j]
         [] cluster[j] = "gone" /\ seen[j] \in {"running", "ended"} -> Deleted(j)[j]
         [] OTHER -> waiter[j]]
  /\ UNCHANGED <<cluster, result, created, knew, outages>>

\* The list fails: the error is logged and nothing tries again.
RelistFails ==
  /\ informer = "down" /\ Outage /\ informer' = "deaf"
  /\ UNCHANGED <<cluster, result, created, seen, waiter, knew>>

\* A new host: nothing is awaited, a new informer lists what is there, and
\* cleanupOrphans deletes the finished Jobs, each unless that fails.
HostStarts ==
  /\ Outage /\ informer' = "up"
  /\ created' = [j \in JobName |-> IF created[j] = "idle" THEN "idle" ELSE "threw"]
  /\ waiter' = [j \in JobName |-> IF Awaited(j) THEN "none" ELSE waiter[j]]
  /\ seen' = [j \in JobName |-> CASE cluster[j] = "there" -> Listed(j)
                                  [] cluster[j] = "gone" -> "missed" [] OTHER -> "none"]
  /\ \E swept \in SUBSET {j \in JobName : cluster[j] = "there" /\ result[j] # "none"} :
       cluster' = [j \in JobName |-> IF j \in swept THEN "gone" ELSE cluster[j]]
  /\ UNCHANGED <<result, knew>>

JobNext ==
  \/ \E j \in JobName :
        \/ Create(j) \/ Created(j) \/ CreateThrows(j) \/ Vanishes(j) \/ Report(j)
        \/ \E deleted \in BOOLEAN : KillJob(j, deleted)
        \/ \E how \in Over : Ends(j, how)
  \/ WatchFails \/ Relist \/ RelistFails \/ HostStarts

JobSpec == JobInit /\ [][JobNext]_jobVars

-----------------------------------------------------------------------------
(* Properties *)

\* Type of the state; nothing is reported of a Job that was never created.
JobTypeOK ==
  /\ cluster \in [JobName -> {"none", "there", "gone"}]
  /\ result \in [JobName -> {"none"} \cup Over]
  /\ created \in [JobName -> {"idle", "sent", "answered", "threw"}]
  /\ seen \in [JobName -> {"none", "running", "ended", "gone", "missed"}]
  /\ informer \in {"up", "down", "deaf"}
  /\ waiter \in [JobName -> {"none", "waiting", "killing", "killed"} \cup Over]
  /\ knew \in [JobName -> {"none", "running", "ended", "gone", "missed"}]
  /\ outages \in 0..MaxOutages
  /\ \A j \in JobName : cluster[j] = "none" =>
       result[j] = "none" /\ seen[j] = "none" /\ waiter[j] = "none"

\* The informer has reported all there is to report of a Job.
Current(j) ==
  informer = "up" /\ seen[j] \in (IF cluster[j] = "there" THEN {Listed(j)}
                                      ELSE {"gone", "missed"})

\* A waiter still waits for a Job that is over, with every report made, only if
\* it came too late: the end was reported before it was registered and the
\* removal is still to come, or the removal was reported too; or if the Job came
\* and went while the watch was broken (k8s.ts: the delete handler is there so
\* that no waiter is left behind).
ExitsHeard ==
  \A j \in JobName : Awaited(j) /\ Current(j) =>
    \/ cluster[j] = "there" /\ (result[j] = "none" \/ knew[j] = "ended")
    \/ cluster[j] = "gone" /\ (knew[j] = "gone" \/ seen[j] = "missed")
=============================================================================
