----------------------------- MODULE MCRouting -----------------------------
(***************************************************************************)
(* How a message finds its agent: admitting it (Admission), wiring a channel  *)
(* nobody has wired (Registration), one agent writing to another (Peers).  The  *)
(* three share no state; a behaviour is one of one of them, so that their      *)
(* states add up and do not multiply.                                      *)
(*                                                                         *)
(* Admission with a container agent that stays with a conversation it was     *)
(* mentioned in, and the ADK supervisor; Registration with two agents to       *)
(* choose from; Peers with two sessions of one agent group and one of another.  *)
(***************************************************************************)
EXTENDS Admission, Registration, Peers, TLC

CONSTANTS mention, plain, command, ann, helper, supervisor, n1, n2, a1, a2, b1, alpha, beta

SenderDef     == [m \in {mention, plain, command} |-> ann]
OrderDef      == <<helper, supervisor>>
ModeDef       == helper :> "mention-sticky" @@ supervisor :> "mention"
MembershipDef == {{}, {<<ann, helper>>}}
TwoGroups     == <<n1, n2>>
GroupDef      == [s \in {a1, a2, b1} |-> IF s = b1 THEN beta ELSE alpha]

VARIABLE part

RoutingVars == <<admissionVars, registrationVars, peerVars, part>>

RoutingInit ==
  /\ part \in {"admission", "registration", "peers"}
  /\ AdmissionInit /\ RegistrationInit /\ PeerInit
  /\ part # "admission" => policy = "public" /\ ~gateOn /\ member = {}

RoutingNext ==
  /\ UNCHANGED part
  /\ \/ part = "admission" /\ AdmissionNext /\ UNCHANGED <<registrationVars, peerVars>>
     \/ part = "registration" /\ RegistrationNext /\ UNCHANGED <<admissionVars, peerVars>>
     \/ part = "peers" /\ PeerNext /\ UNCHANGED <<admissionVars, registrationVars>>

RoutingSpec == RoutingInit /\ [][RoutingNext]_RoutingVars

\* The types of the three parts.
RoutingTypeOK == AdmissionTypeOK /\ RegistrationTypeOK /\ PeerTypeOK
=============================================================================
