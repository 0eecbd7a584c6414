----------------------------- MODULE MCServices -----------------------------
(***************************************************************************)
(* Five services around a session that share no state: the shelf (Library),   *)
(* Fugue's questions (FugueAsk), the Jobs of Kubernetes (K8sJobs), the         *)
(* numbers of messages (SequenceNumbers) and scheduled tasks (TaskSeries).     *)
(* A behaviour is one of one of them, so that their states add up and do not   *)
(* multiply.                                                               *)
(***************************************************************************)
EXTENDS Library, FugueAsk, K8sJobs, SequenceNumbers, TaskSeries, TLC

VARIABLE part

ServicesVars == <<libraryVars, askVars, jobVars, numberVars, vars, part>>

ServicesInit ==
  /\ part \in {"library", "fugue", "jobs", "numbers", "tasks"}
  /\ LibraryInit /\ AskInit /\ JobInit /\ NumberInit /\ TaskInit
  /\ part # "library" => main.files = {}
  /\ part # "fugue" => thread = [a \in Ask |-> CHOOSE t \in Thread : TRUE]

ServicesNext ==
  /\ UNCHANGED part
  /\ \/ part = "library" /\ LibraryNext /\ UNCHANGED <<askVars, jobVars, numberVars, vars>>
     \/ part = "fugue" /\ AskNext /\ UNCHANGED <<libraryVars, jobVars, numberVars, vars>>
     \/ part = "jobs" /\ JobNext /\ UNCHANGED <<libraryVars, askVars, numberVars, vars>>
     \/ part = "numbers" /\ NumberNext /\ UNCHANGED <<libraryVars, askVars, jobVars, vars>>
     \/ part = "tasks" /\ TaskNext /\ UNCHANGED <<libraryVars, askVars, jobVars, numberVars>>

ServicesSpec == ServicesInit /\ [][ServicesNext]_ServicesVars

\* Members of each set play the same part.
ServicesSymmetry == Permutations(Biblio) \cup Permutations(Job)
=============================================================================
