--------------------------- MODULE MessageLifecycle ---------------------------
(***************************************************************************)
(* What the two-database protocol promises about each messages_in row, with *)
(* the databases, processes and clocks taken away.  A row is queued, taken  *)
(* by a container, put back when that container is gone, and ends once:     *)
(* done, or dead when its retries are spent.                                *)
(***************************************************************************)
CONSTANTS
  Msg,     \* rows
  Direct   \* rows consumed in one step: commands, answers to a question

VARIABLE stage
Stages == {"absent", "queued", "taken", "done", "dead"}

Init == stage = [m \in Msg |-> "absent"]

(* What one step may do to one row. *)
Moves(m) ==
  {<<"absent", "queued">>, <<"queued", "taken">>, <<"taken", "queued">>,
   <<"taken", "done">>, <<"taken", "dead">>}
  \cup (IF m \in Direct THEN {<<"queued", "done">>} ELSE {})

(* A poll takes a batch and a sweep puts one back: several rows move at once. *)
Next ==
  /\ stage' \in [Msg -> Stages]
  /\ \A m \in Msg : stage'[m] = stage[m] \/ <<stage[m], stage'[m]>> \in Moves(m)

Spec == Init /\ [][Next]_stage
==============================================================================
