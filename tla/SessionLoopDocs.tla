--------------------------- MODULE SessionLoopDocs ---------------------------
(***************************************************************************)
(* What a document of the repository says about the session protocol, and    *)
(* what the code does not do: checked by a run that expects a                *)
(* counterexample.                                                          *)
(***************************************************************************)
EXTENDS SessionLoop

(* architecture.md:488: when the container exits with an error the host
   increments tries. A claim that disappears without an answer has cost its
   row a try, unless the row was rescheduled already.                       *)
LostClaimCostsATry ==
  [][\A m \in Msg :
       /\ ack[m] = "processing" /\ ack'[m] = "none"
       /\ status[m] = "pending" /\ due[m] = 0
       => tries'[m] > tries[m] \/ status'[m] = "failed"]_vars
==============================================================================
