----------------------------- MODULE MCApprovals -----------------------------
(***************************************************************************)
(* Approvals with confirmations of one thread: every one of them resumes     *)
(* the same ADK session.                                                   *)
(***************************************************************************)
EXTENDS Approvals

CONSTANTS thread

OneThread == [c \in Adk |-> thread]
==============================================================================
