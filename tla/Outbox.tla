--------------------------------- MODULE Outbox ---------------------------------
(***************************************************************************)
(* What a session's way out promises of each row the container writes, with *)
(* the poll loops, the host's memory and its crashes taken away.  Rows wait  *)
(* in line; their first calls follow the line, later calls may come in any   *)
(* order; a row leaves the line once, as delivered or as failed, and after   *)
(* that nothing of it is sent again.                                        *)
(***************************************************************************)
EXTENDS Naturals

CONSTANTS
  Row,       \* rows of messages_out
  Silent,    \* rows recorded as delivered although they go nowhere
  Patience   \* calls after which a row may be given up

VARIABLES
  place,     \* place in the line, 0 before the row is written
  stage,     \* "absent", "open", "delivered" or "failed"
  calls,     \* how often the channel has been called for the row
  reached    \* whether the row has been at its destination

lineVars == <<place, stage, calls, reached>>
Stages == {"absent", "open", "delivered", "failed"}

Init ==
  /\ place = [m \in Row |-> 0]
  /\ stage = [m \in Row |-> "absent"]
  /\ calls = [m \in Row |-> 0]
  /\ reached = [m \in Row |-> FALSE]

-----------------------------------------------------------------------------
(* What one step may do to one row. *)
Stays(m)   == /\ place'[m] = place[m] /\ stage'[m] = stage[m]
              /\ calls'[m] = calls[m] /\ reached'[m] = reached[m]

Joins(m)   == /\ stage[m] = "absent" /\ stage'[m] = "open"
              /\ \A n \in Row : place[n] < place'[m]
              /\ calls'[m] = calls[m] /\ reached'[m] = reached[m]

AheadOf(m) == {n \in Row : stage[n] = "open" /\ place[n] < place[m]}
IsCalled(m) == /\ stage[m] = "open" /\ stage'[m] = "open"
               /\ \A n \in AheadOf(m) : calls[n] > 0
               /\ calls'[m] = calls[m] + 1
               /\ place'[m] = place[m] /\ reached'[m] = reached[m]

Arrives(m) == /\ stage[m] = "open" /\ stage'[m] = "open"
              /\ calls[m] > 0 /\ reached'[m]
              /\ place'[m] = place[m] /\ calls'[m] = calls[m]

Leaves(m)  == /\ stage[m] = "open"
              /\ \/ stage'[m] = "delivered" /\ (reached[m] \/ m \in Silent)
                 \/ stage'[m] = "failed" /\ calls[m] >= Patience
              /\ place'[m] = place[m] /\ calls'[m] = calls[m] /\ reached'[m] = reached[m]

(* A drain records one row and calls for the next: several rows move at once. *)
Next ==
  /\ place' \in [Row -> Nat] /\ stage' \in [Row -> Stages]
  /\ calls' \in [Row -> Nat] /\ reached' \in [Row -> BOOLEAN]
  /\ \A m \in Row : Stays(m) \/ Joins(m) \/ IsCalled(m) \/ Arrives(m) \/ Leaves(m)

Spec == Init /\ [][Next]_lineVars
==============================================================================
