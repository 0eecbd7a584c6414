------------------------------ MODULE Admission ------------------------------
(***************************************************************************)
(* From a platform message to the agents' inboxes: routeInbound and          *)
(* deliverToAgent (src/router.ts) with the access gate, the scope gate and   *)
(* the unknown-sender approval of src/modules/permissions.                  *)
(*                                                                         *)
(* One messaging group, wired to agents that are asked in a fixed order.     *)
(* A routing is a coroutine: it decides for every agent at once, then waits   *)
(* for the content gate, then hands the message to one agent after another.  *)
(* Meanwhile other messages are routed, approvals are asked for and answered; *)
(* an approved stranger's message is routed again under the same id.         *)
(***************************************************************************)
EXTENDS Naturals, Sequences, FiniteSets

CONSTANTS
  Msg,          \* messages that arrive
  Mention,      \* those that mention the bot
  Refused,      \* commands that gateCommand filters out or denies
  SenderOf,     \* [Msg -> senders]
  Order,        \* the wired agents, in the order of getMessagingGroupAgents
  Mode,         \* engage_mode: [agents -> {"pattern", "mention", "mention-sticky"}]
  Accumulates,  \* agents whose ignored_message_policy is "accumulate"
  KnownOnly,    \* agents whose sender_scope is "known"
  AdkAgents,    \* agents whose provider is "adk"
  Memberships,  \* the memberships there may be at the start
  MaxRoutings   \* bound: routings in progress when a message arrives

Agent  == {Order[i] : i \in 1..Len(Order)}
Sender == {SenderOf[m] : m \in Msg}
Place(a) == CHOOSE i \in 1..Len(Order) : Order[i] = a

ASSUME AdmissionConstants ==
  /\ Order \in Seq(Agent)
  /\ \A i, j \in 1..Len(Order) : Order[i] = Order[j] => i = j
  /\ Mode \in [Agent -> {"pattern", "mention", "mention-sticky"}]
  /\ Mention \subseteq Msg /\ Refused \subseteq Msg
  /\ Memberships \subseteq SUBSET (Sender \X Agent) /\ MaxRoutings \in Nat

VARIABLES
  policy,     \* unknown_sender_policy of the messaging group
  gateOn,     \* GATE_ENABLED
  member,     \* pairs <<sender, agent>> of agent_group_members
  arrived,    \* messages the platform has handed over
  routing,    \* routings in progress
  asking,     \* requestSenderApproval calls waiting for a direct message
  card,       \* sender -> its pending_sender_approvals row
  opened,     \* agents with a session for this conversation
  inbox,      \* pairs <<message, agent>>: rows of messages_in
  woken,      \* those of them written with trigger = 1
  handed,     \* pairs <<message, agent>> given to the ADK dispatcher
  passed,     \* pairs <<message, agent>> passed over: provider, command, or no session to keep it
  dropped,    \* messages recorded in dropped_messages
  blocked,    \* messages the content gate stopped
  replayed    \* pairs <<message, agent>> whose routing after approval is over

admissionVars ==
  <<policy, gateOn, member, arrived, routing, asking, card, opened, inbox, woken,
    handed, passed, dropped, blocked, replayed>>

NoCard == [agent |-> "none", msg |-> "none", shown |-> FALSE]
Cards  == [agent: Agent, msg: Msg, shown: BOOLEAN]
Plan   == [Agent -> {"engage", "keep", "ignore"}]
Class  == {"none", "biblio-adk", "biblio-other"}
\* by: the agent an approval was given for, or "arrival"; next: the place of the
\* agent to serve next, 0 while the content gate is awaited; acted: whether some
\* agent was counted as served.
Routing == [msg: Msg, by: Agent \cup {"arrival"}, plan: Plan, class: Class,
            next: 0..Len(Order) + 1, acted: BOOLEAN]
Ask     == [sender: Sender, agent: Agent, msg: Msg]

AdmissionInit ==
  /\ policy \in {"public", "strict", "request_approval"} /\ gateOn \in BOOLEAN
  /\ member \in Memberships
  /\ arrived = {} /\ routing = {} /\ asking = {} /\ card = [s \in Sender |-> NoCard]
  /\ opened = {} /\ inbox = {} /\ woken = {} /\ handed = {} /\ passed = {}
  /\ dropped = {} /\ blocked = {} /\ replayed = {}

-----------------------------------------------------------------------------
(* Deciding *)

(* Fault: only a strict group asks for members. *)
AccessOkUnlessStrict(m, a, known) == policy # "strict" \/ <<SenderOf[m], a>> \in known

\* canAccessAgentGroup, roles counted as memberships; `known` is the membership
\* the decision is taken with.
Knows(m, a, known)    == <<SenderOf[m], a>> \in known
AccessOk(m, a, known) == policy = "public" \/ Knows(m, a, known)
ScopeOk(m, a, known)  == a \in KnownOnly => Knows(m, a, known)

\* evaluateEngage: a sticky agent goes on once it has a session here.
Engages(m, a) ==
  \/ Mode[a] = "pattern"
  \/ m \in Mention
  \/ Mode[a] = "mention-sticky" /\ a \in opened

PlanFor(m, known) == [a \in Agent |->
  IF Engages(m, a) /\ AccessOk(m, a, known) /\ ScopeOk(m, a, known) THEN "engage"
  ELSE IF a \in Accumulates /\ ~Engages(m, a) THEN "keep" ELSE "ignore"]

\* The access gate refuses: handleUnknownSender.
Refuses(m, known) == {a \in Agent : Engages(m, a) /\ ~AccessOk(m, a, known)}

\* handleUnknownSender asks once per refusing agent; the calls that find no row
\* all go on to wait for the approver's direct message.
NewAsks(m, known, cards) ==
  IF policy = "request_approval" /\ cards[SenderOf[m]] = NoCard
    THEN {[sender |-> SenderOf[m], agent |-> a, msg |-> m] : a \in Refuses(m, known)}
    ELSE {}

\* routeInbound up to the content gate, on arrival or after an approval.
StartRouting(m, by, known, cards) ==
  LET plan == PlanFor(m, known) IN
  /\ routing' = routing \cup
       {[msg |-> m, by |-> by, plan |-> plan, class |-> "none", acted |-> FALSE,
         next |-> IF gateOn /\ (\E a \in Agent : plan[a] # "ignore") THEN 0 ELSE 1]}
  /\ asking' = asking \cup NewAsks(m, known, cards)
  /\ dropped' = IF Refuses(m, known) # {} THEN dropped \cup {m} ELSE dropped

Arrive(m) ==
  /\ m \notin arrived /\ Cardinality(routing) < MaxRoutings
  /\ arrived' = arrived \cup {m}
  /\ StartRouting(m, "arrival", member, card)
  /\ UNCHANGED <<policy, gateOn, member, card, opened, inbox, woken, handed, passed,
                 blocked, replayed>>

-----------------------------------------------------------------------------
(* The content gate *)

\* evaluateGate classifies; a throw opens the way without a classification.
GatePasses(r, class) ==
  /\ r \in routing /\ r.next = 0
  /\ routing' = (routing \ {r}) \cup {[r EXCEPT !.next = 1, !.class = class]}
  /\ UNCHANGED <<policy, gateOn, member, arrived, asking, card, opened, inbox, woken,
                 handed, passed, dropped, blocked, replayed>>

Finish(r) ==
  /\ routing' = routing \ {r}
  /\ replayed' = IF r.by = "arrival" THEN replayed ELSE replayed \cup {<<r.msg, r.by>>}

GateBlocks(r) ==
  /\ r \in routing /\ r.next = 0
  /\ blocked' = blocked \cup {r.msg}
  /\ Finish(r)
  /\ UNCHANGED <<policy, gateOn, member, arrived, asking, card, opened, inbox, woken,
                 handed, passed, dropped>>

-----------------------------------------------------------------------------
(* Fan-out: deliverToAgent for one agent after another *)

At(r, a) == r \in routing /\ r.next \in 1..Len(Order) /\ Order[r.next] = a

GoOn(r, acted) ==
  /\ routing' = (routing \ {r}) \cup
                  {[r EXCEPT !.next = @ + 1, !.acted = @ \/ acted]}
  /\ UNCHANGED replayed

Mismatch(r, a) ==
  \/ r.class = "biblio-adk" /\ a \notin AdkAgents
  \/ r.class = "biblio-other" /\ a \in AdkAgents

Ignore(r, a) ==
  /\ At(r, a) /\ r.plan[a] = "ignore"
  /\ GoOn(r, FALSE)
  /\ UNCHANGED <<policy, gateOn, member, arrived, asking, card, opened, inbox, woken,
                 handed, passed, dropped, blocked>>

\* The provider does not fit the classification, or the ADK path is offered a
\* message to keep: deliverToAgent returns and the caller counts it as served.
PassOver(r, a) ==
  /\ At(r, a) /\ r.plan[a] # "ignore"
  /\ Mismatch(r, a) \/ (a \in AdkAgents /\ r.plan[a] = "keep")
  /\ passed' = passed \cup {<<r.msg, a>>}
  /\ GoOn(r, TRUE)
  /\ UNCHANGED <<policy, gateOn, member, arrived, asking, card, opened, inbox, woken,
                 handed, dropped, blocked>>

HandToAdk(r, a) ==
  /\ At(r, a) /\ r.plan[a] = "engage" /\ ~Mismatch(r, a) /\ a \in AdkAgents
  /\ handed' = handed \cup {<<r.msg, a>>}
  /\ GoOn(r, TRUE)
  /\ UNCHANGED <<policy, gateOn, member, arrived, asking, card, opened, inbox, woken,
                 passed, dropped, blocked>>

Serves(r, a) ==
  At(r, a) /\ r.plan[a] # "ignore" /\ ~Mismatch(r, a) /\ a \notin AdkAgents

\* gateCommand: the session is opened, the command goes no further.
RefuseCommand(r, a) ==
  /\ Serves(r, a) /\ r.msg \in Refused
  /\ opened' = opened \cup {a} /\ passed' = passed \cup {<<r.msg, a>>}
  /\ GoOn(r, TRUE)
  /\ UNCHANGED <<policy, gateOn, member, arrived, asking, card, inbox, woken, handed,
                 dropped, blocked>>

\* writeSessionMessage: messages_in.id is "<message>:<agent>", a primary key.
Deliver(r, a) ==
  /\ Serves(r, a) /\ r.msg \notin Refused /\ <<r.msg, a>> \notin inbox
  /\ opened' = opened \cup {a} /\ inbox' = inbox \cup {<<r.msg, a>>}
  /\ woken' = IF r.plan[a] = "engage" THEN woken \cup {<<r.msg, a>>} ELSE woken
  /\ GoOn(r, TRUE)
  /\ UNCHANGED <<policy, gateOn, member, arrived, asking, card, handed, passed,
                 dropped, blocked>>

\* The agent has the row already: the insert throws out of routeInbound, and
\* the agents after it are not served.
Collide(r, a) ==
  /\ Serves(r, a) /\ r.msg \notin Refused /\ <<r.msg, a>> \in inbox
  /\ Finish(r)
  /\ UNCHANGED <<policy, gateOn, member, arrived, asking, card, opened, inbox, woken,
                 handed, passed, dropped, blocked>>

\* Nobody was served: the message is recorded as dropped.
RoutingEnds(r) ==
  /\ r \in routing /\ r.next = Len(Order) + 1
  /\ dropped' = IF r.acted THEN dropped ELSE dropped \cup {r.msg}
  /\ Finish(r)
  /\ UNCHANGED <<policy, gateOn, member, arrived, asking, card, opened, inbox, woken,
                 handed, passed, blocked>>

-----------------------------------------------------------------------------
(* Unknown senders: requestSenderApproval and its answer *)

\* pickApprover or pickApprovalDelivery finds nobody, or the insert violates
\* UNIQUE(messaging_group_id, sender_identity): nothing is left behind.
AskGivesUp(q) ==
  /\ q \in asking /\ asking' = asking \ {q}
  /\ UNCHANGED <<policy, gateOn, member, arrived, routing, card, opened, inbox, woken,
                 handed, passed, dropped, blocked, replayed>>

\* The row is written, then the card is sent; a card that cannot be sent, or no
\* adapter to send it, leaves the row.
AskWrites(q, shown) ==
  /\ q \in asking /\ card[q.sender] = NoCard
  /\ asking' = asking \ {q}
  /\ card' = [card EXCEPT ![q.sender] = [agent |-> q.agent, msg |-> q.msg, shown |-> shown]]
  /\ UNCHANGED <<policy, gateOn, member, arrived, routing, opened, inbox, woken, handed,
                 passed, dropped, blocked, replayed>>

(* Fault: the message is routed again before the sender is made a member. *)
AllowRoutesFirst(s) ==
  LET k == card[s] IN
  /\ k # NoCard /\ k.shown
  /\ member' = member \cup {<<s, k.agent>>}
  /\ card' = [card EXCEPT ![s] = NoCard]
  /\ StartRouting(k.msg, k.agent, member, card')
  /\ UNCHANGED <<policy, gateOn, arrived, opened, inbox, woken, handed, passed, blocked,
                 replayed>>

\* handleSenderApprovalResponse, pressed by someone entitled to.
Allow(s) ==
  LET k == card[s] IN
  /\ k # NoCard /\ k.shown
  /\ member' = member \cup {<<s, k.agent>>}
  /\ card' = [card EXCEPT ![s] = NoCard]
  /\ StartRouting(k.msg, k.agent, member', card')
  /\ UNCHANGED <<policy, gateOn, arrived, opened, inbox, woken, handed, passed, blocked,
                 replayed>>

Deny(s) ==
  /\ card[s] # NoCard /\ card[s].shown
  /\ card' = [card EXCEPT ![s] = NoCard]
  /\ UNCHANGED <<policy, gateOn, member, arrived, routing, asking, opened, inbox, woken,
                 handed, passed, dropped, blocked, replayed>>

-----------------------------------------------------------------------------
RoutingStep(r) ==
  \/ \E class \in Class : GatePasses(r, class)
  \/ GateBlocks(r) \/ RoutingEnds(r)
  \/ \E a \in Agent : \/ Ignore(r, a) \/ PassOver(r, a) \/ HandToAdk(r, a)
                      \/ RefuseCommand(r, a) \/ Deliver(r, a) \/ Collide(r, a)

AdmissionNext ==
  \/ \E m \in Msg : Arrive(m)
  \/ \E r \in routing : RoutingStep(r)
  \/ \E q \in asking : AskGivesUp(q) \/ \E shown \in BOOLEAN : AskWrites(q, shown)
  \/ \E s \in Sender : Allow(s) \/ Deny(s)

AdmissionSpec == AdmissionInit /\ [][AdmissionNext]_admissionVars

-----------------------------------------------------------------------------
(* Properties *)

AdmissionTypeOK ==
  /\ policy \in {"public", "strict", "request_approval"} /\ gateOn \in BOOLEAN
  /\ member \subseteq Sender \X Agent
  /\ arrived \subseteq Msg /\ routing \subseteq Routing /\ asking \subseteq Ask
  /\ card \in [Sender -> Cards \cup {NoCard}]
  /\ opened \subseteq Agent /\ inbox \subseteq Msg \X Agent /\ woken \subseteq inbox
  /\ handed \subseteq Msg \X Agent /\ passed \subseteq Msg \X Agent
  /\ dropped \subseteq Msg /\ blocked \subseteq Msg
  /\ replayed \subseteq Msg \X Agent

Routed(m)     == m \in arrived /\ \A r \in routing : r.msg # m
Holds(a, m)   == <<m, a>> \in inbox \/ <<m, a>> \in handed

(* No message disappears without a trace: once it is routed, an agent has it,
   or dropped_messages records it, or the gate stopped it, or some agent was
   served in name only (provider, command, nothing to keep it in).           *)
Accounted ==
  \A m \in Msg : Routed(m) =>
    \/ m \in dropped \cup blocked
    \/ \E a \in Agent : Holds(a, m) \/ <<m, a>> \in passed

(* However routings and approvals interleave, an agent is woken only by a
   message whose sender it may hear: the policy lets everybody in (and the
   agent's scope does not ask for members), or the sender is a member of it.   *)
StrangersKeptOut ==
  \A m \in Msg, a \in Agent :
    <<m, a>> \in woken \cup handed =>
      (policy = "public" /\ a \notin KnownOnly) \/ <<SenderOf[m], a>> \in member

(* Allowing a stranger brings the message that was held back to the agent it
   was allowed for, except where the content gate, the provider, a command or
   the agent's own rules stop it, and except where an agent asked earlier has
   the message already, so that writing it again ends the routing.            *)
AllowedIsHeard ==
  \A m \in Msg, a \in Agent : <<m, a>> \in replayed =>
    \/ Holds(a, m) \/ <<m, a>> \in passed \/ m \in blocked
    \/ \E b \in Agent : Place(b) < Place(a) /\ <<m, b>> \in inbox

(* What the header of sender-approval.ts promises: the second routing attempt
   passes, so the agent gets the message (unless gate, provider or command
   stops it).                                                                *)
ReplayReachesAgent ==
  \A m \in Msg, a \in Agent : <<m, a>> \in replayed =>
    Holds(a, m) \/ <<m, a>> \in passed \/ m \in blocked
==============================================================================
