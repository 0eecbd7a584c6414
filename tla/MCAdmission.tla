----------------------------- MODULE MCAdmission -----------------------------
(***************************************************************************)
(* Admission with two agents: a container agent that stays with a           *)
(* conversation it was mentioned in, and the ADK supervisor.               *)
(***************************************************************************)
EXTENDS Admission, TLC

CONSTANTS mention, plain, command, ann, helper, supervisor

SenderDef     == [m \in {mention, plain, command} |-> ann]
OrderDef      == <<helper, supervisor>>
ModeDef       == helper :> "mention-sticky" @@ supervisor :> "mention"
MembershipDef == {{}, {<<ann, helper>>}}
==============================================================================
