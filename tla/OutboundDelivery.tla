--------------------------- MODULE OutboundDelivery ---------------------------
(***************************************************************************)
(* The way out of ONE session: the container appends to messages_out, two  *)
(* poll loops of the host (src/src/delivery.ts) drain it into the channel   *)
(* adapters and record the outcome in inbound.db's delivered table, and a   *)
(* delivered question card can be answered by a click.                      *)
(*                                                                         *)
(* An action is what the host does between two awaits.  The retry counter   *)
(* lives in memory, so a host crash forgets it; the table does not.         *)
(***************************************************************************)
EXTENDS Naturals, FiniteSets

CONSTANTS
  Plain,        \* chat rows, system actions, agent-to-agent rows
  Card,         \* ask_user_question cards
  Refused,      \* rows whose destination is unknown or not permitted
  Unrouted,     \* rows without routing fields, or for a channel without adapter
  Denial,       \* answers of the command gate to refused admin commands
  MaxAttempts,  \* MAX_DELIVERY_ATTEMPTS
  MaxFaults     \* bound: host crashes and failed writes of the verdict

Msg == Plain \cup Card \cup Denial

ASSUME RowsAssumption ==
  /\ IsFiniteSet(Msg)
  /\ Refused \subseteq Msg /\ Unrouted \subseteq Msg
  /\ Refused \cap Unrouted = {} /\ Card \cap Denial = {} /\ Plain \cap Denial = {}
ASSUME AttemptsAssumption == MaxAttempts \in Nat \ {0} /\ MaxFaults \in Nat

Poller == {"active", "sweep"}

VARIABLES
  host,      \* "up" or "down"
  running,   \* sessions.container_status is 'running': the active poll looks
  stamp,     \* messages_out: place in timestamp order, 0 while not written
  verdict,   \* delivered.status, "none" while there is no row
  attempts,  \* deliveryAttempts
  inflight,  \* inflightDeliveries.has(session)
  drain,     \* the drainSession call of each poll loop
  question,  \* rows of pending_questions
  denied,    \* denials the command gate has decided on
  seen,      \* history: how often the row reached its destination
  sends,     \* history: deliverMessage calls for the row
  mishaps,   \* history: arrivals the host never recorded
  answers,   \* history: answers written to inbound.db
  faults     \* bound: faults so far

tables  == <<stamp, verdict, question>>
memory  == <<attempts, inflight, drain>>
history == <<denied, seen, sends, mishaps, answers>>
vars == <<host, running, tables, memory, history, faults>>

Drain == [pc : {"idle", "sending", "arrived"}, todo : SUBSET Msg]
NoDrain == [pc |-> "idle", todo |-> {}]

DeliveryTypeOK ==
  /\ host \in {"up", "down"} /\ running \in BOOLEAN /\ inflight \in BOOLEAN
  /\ stamp \in [Msg -> 0..Cardinality(Msg)]
  /\ verdict \in [Msg -> {"none", "delivered", "failed"}]
  /\ attempts \in [Msg -> Nat]
  /\ drain \in [Poller -> Drain]
  /\ question \subseteq Card
  /\ denied \subseteq Denial
  /\ {seen, sends, mishaps, answers} \subseteq [Msg -> Nat]
  /\ faults \in 0..MaxFaults

NoneYet == [m \in Msg |-> 0]

DeliveryInit ==
  /\ host = "up" /\ running = FALSE /\ inflight = FALSE
  /\ stamp = NoneYet /\ attempts = NoneYet
  /\ verdict = [m \in Msg |-> "none"]
  /\ drain = [p \in Poller |-> NoDrain]
  /\ question = {} /\ denied = {}
  /\ seen = NoneYet /\ sends = NoneYet /\ mishaps = NoneYet /\ answers = NoneYet
  /\ faults = 0

Fault == faults < MaxFaults /\ faults' = faults + 1
Bump(f, m) == [f EXCEPT ![m] = @ + 1]

-----------------------------------------------------------------------------
Written == {m \in Msg : stamp[m] > 0}

(* writeMessageOut in the container. *)
Write(m) ==
  /\ running
  /\ stamp[m] = 0 /\ m \notin Denial
  /\ stamp' = [stamp EXCEPT ![m] = Cardinality(Written) + 1]
  /\ UNCHANGED <<host, running, verdict, question, memory, history, faults>>

(* markContainerRunning and markContainerStopped. *)
ContainerTurns ==
  /\ running' = ~running
  /\ UNCHANGED <<host, tables, memory, history, faults>>

(* The command gate answers through writeOutboundDirect, whose handle on
   outbound.db is read-only: the INSERT throws and no row is written.       *)
GateDenies(m) ==
  /\ host = "up"
  /\ m \in Denial \ denied
  /\ denied' = denied \cup {m}
  /\ UNCHANGED <<host, running, tables, memory, seen, sends, mishaps, answers, faults>>

-----------------------------------------------------------------------------
Undelivered == {m \in Written : verdict[m] = "none"}
(* Fault: the rows are taken from the wrong end. *)
Newest(rows) == CHOOSE m \in rows : \A n \in rows : stamp[n] <= stamp[m]
Oldest(rows) == CHOOSE m \in rows : \A n \in rows : stamp[m] <= stamp[n]

(* Fault: `finally` of deliverSessionMessages is missing. *)
GoOnStuck(p, rest) ==
  IF rest = {}
  THEN /\ drain' = [drain EXCEPT ![p] = NoDrain]
       /\ UNCHANGED <<inflight, question, sends>>
  ELSE /\ drain' = [drain EXCEPT ![p] = [pc |-> "sending", todo |-> rest]]
       /\ question' = question \cup ({Oldest(rest)} \cap (Card \ Refused))
       /\ sends' = Bump(sends, Oldest(rest))
       /\ UNCHANGED inflight
(* Fault: the question is not persisted before the card is sent. *)
GoOnUnpersisted(p, rest) ==
  /\ IF rest = {}
     THEN drain' = [drain EXCEPT ![p] = NoDrain] /\ inflight' = FALSE /\ sends' = sends
     ELSE /\ drain' = [drain EXCEPT ![p] = [pc |-> "sending", todo |-> rest]]
          /\ sends' = Bump(sends, Oldest(rest))
          /\ UNCHANGED inflight
  /\ UNCHANGED question
(* Fault: any row is put on record as a question. *)
GoOnAnyRow(p, rest) ==
  /\ IF rest = {}
     THEN drain' = [drain EXCEPT ![p] = NoDrain] /\ inflight' = FALSE /\ sends' = sends
     ELSE /\ drain' = [drain EXCEPT ![p] = [pc |-> "sending", todo |-> rest]]
          /\ sends' = Bump(sends, Oldest(rest))
          /\ UNCHANGED inflight
  /\ question' = question \cup {m \in rest : m = Oldest(rest)}

(* The loop of drainSession takes its next row: deliverMessage runs up to
   the adapter call, which for a card persists the question first. After the
   last row the drain is over.                                              *)
GoOn(p, rest) ==
  IF rest = {}
  THEN /\ drain' = [drain EXCEPT ![p] = NoDrain]
       /\ inflight' = FALSE
       /\ UNCHANGED <<question, sends>>
  ELSE /\ drain' = [drain EXCEPT ![p] = [pc |-> "sending", todo |-> rest]]
       /\ question' = question \cup ({Oldest(rest)} \cap (Card \ Refused))
       /\ sends' = Bump(sends, Oldest(rest))
       /\ UNCHANGED inflight

(* Fault: no inflightDeliveries, the two polls drain side by side. *)
PollUnguarded(p) ==
  /\ host = "up" /\ drain[p].pc = "idle"
  /\ p = "active" => running
  /\ Undelivered # {}
  /\ drain' = [drain EXCEPT ![p] = [pc |-> "sending", todo |-> Undelivered]]
  /\ question' = question \cup ({Oldest(Undelivered)} \cap (Card \ Refused))
  /\ sends' = Bump(sends, Oldest(Undelivered))
  /\ UNCHANGED <<host, running, stamp, verdict, attempts, inflight, denied, seen, mishaps, answers, faults>>

(* deliverSessionMessages: nothing when a drain of the session is under way
   or no row is left; otherwise the rows found now are the ones to send.    *)
Poll(p) ==
  /\ host = "up"
  /\ p = "active" => running
  /\ ~inflight
  /\ Undelivered # {}
  /\ inflight' = TRUE
  /\ drain' = [drain EXCEPT ![p] = [pc |-> "sending", todo |-> Undelivered]]
  /\ question' = question \cup ({Oldest(Undelivered)} \cap (Card \ Refused))
  /\ sends' = Bump(sends, Oldest(Undelivered))
  /\ UNCHANGED <<host, running, stamp, verdict, attempts, denied, seen, mishaps, answers, faults>>

Current(p) == Oldest(drain[p].todo)

(* The channel takes the row (or the system action, the routed message, has
   its effect): from here on it cannot be called back.                      *)
Arrives(p) ==
  /\ drain[p].pc = "sending"
  /\ Current(p) \notin Refused \cup Unrouted
  /\ seen' = Bump(seen, Current(p))
  /\ drain' = [drain EXCEPT ![p].pc = "arrived"]
  /\ UNCHANGED <<host, running, tables, attempts, inflight, denied, sends, mishaps, answers, faults>>

(* Fault: giving up is recorded like a success. *)
RecordDelivered(m, outcome) ==
  verdict' = [verdict EXCEPT ![m] = IF @ = "none" THEN "delivered" ELSE @]
(* INSERT OR IGNORE INTO delivered. *)
Record(m, outcome) ==
  verdict' = [verdict EXCEPT ![m] = IF @ = "none" THEN outcome ELSE @]

(* deliverMessage returns: the row is recorded as delivered. It also returns,
   with nothing sent, for a row without routing or without an adapter.      *)
Returns(p) ==
  /\ \/ drain[p].pc = "arrived"
     \/ drain[p].pc = "sending" /\ Current(p) \in Unrouted
  /\ Record(Current(p), "delivered")
  /\ attempts' = [attempts EXCEPT ![Current(p)] = 0]
  /\ GoOn(p, drain[p].todo \ {Current(p)})
  /\ UNCHANGED <<host, running, stamp, denied, seen, mishaps, answers, faults>>

(* An arrival whose answer is lost (or whose record cannot be written). *)
Missed(p) == mishaps' = IF drain[p].pc = "arrived" THEN Bump(mishaps, Current(p)) ELSE mishaps

Spent(m) == attempts[m] + 1 >= MaxAttempts

(* deliverMessage or markDelivered throws: count, and give up at the limit. *)
Throws(p) ==
  LET m == Current(p) IN
  /\ drain[p].pc # "idle"
  /\ Missed(p)
  /\ IF Spent(m)
     THEN Record(m, "failed") /\ attempts' = [attempts EXCEPT ![m] = 0]
     ELSE UNCHANGED verdict /\ attempts' = Bump(attempts, m)
  /\ GoOn(p, drain[p].todo \ {m})
  /\ UNCHANGED <<host, running, stamp, denied, seen, answers, faults>>

(* markDeliveryFailed throws too: the whole drain is abandoned. *)
Aborts(p) ==
  LET m == Current(p) IN
  /\ drain[p].pc # "idle"
  /\ Spent(m) /\ Fault
  /\ Missed(p)
  /\ attempts' = Bump(attempts, m)
  /\ GoOn(p, {})
  /\ UNCHANGED <<host, running, stamp, verdict, denied, seen, answers>>

(* handleInteractiveResponse: the question is claimed once. *)
Click(m) ==
  /\ host = "up"
  /\ seen[m] > 0 /\ m \in question
  /\ question' = question \ {m}
  /\ answers' = Bump(answers, m)
  /\ UNCHANGED <<host, running, stamp, verdict, memory, denied, seen, sends, mishaps, faults>>

-----------------------------------------------------------------------------
(* What was under way is forgotten; an arrival not yet recorded stays so. *)
Arriving == {Current(p) : p \in {q \in Poller : drain[q].pc = "arrived"}}
HostDies ==
  /\ host = "up" /\ Fault
  /\ host' = "down"
  /\ attempts' = NoneYet
  /\ inflight' = FALSE
  /\ drain' = [p \in Poller |-> NoDrain]
  /\ mishaps' = [m \in Msg |-> IF m \in Arriving THEN mishaps[m] + 1 ELSE mishaps[m]]
  /\ UNCHANGED <<running, tables, denied, seen, sends, answers>>

HostBoots ==
  /\ host = "down"
  /\ host' = "up"
  /\ UNCHANGED <<running, tables, memory, history, faults>>

DeliveryNext ==
  \/ \E m \in Msg : Write(m) \/ GateDenies(m) \/ Click(m)
  \/ ContainerTurns
  \/ \E p \in Poller : Poll(p) \/ Arrives(p) \/ Returns(p) \/ Throws(p) \/ Aborts(p)
  \/ HostDies \/ HostBoots

DeliverySpec == DeliveryInit /\ [][DeliveryNext]_vars

(* The sweep poll runs for every active session as long as the host is up,
   the host is restarted, and each adapter call settles (the code sets no
   timeout of its own: a call that never settles stops the whole chain).    *)
Fairness ==
  /\ WF_vars(\E p \in Poller : Poll(p))
  /\ WF_vars(HostBoots)
  /\ \A p \in Poller : WF_vars(Returns(p) \/ Throws(p))

FairDeliverySpec == DeliverySpec /\ Fairness

-----------------------------------------------------------------------------
(* A user sees a row twice only when an earlier arrival went unrecorded: the
   channel answered with an error although it had delivered, the record could
   not be written, or the host died in between. The two poll loops never
   cause a duplicate (delivery.ts on inflightDeliveries).                   *)
DuplicatesExplained == \A m \in Msg : seen[m] <= 1 + mishaps[m]

(* A row is given up only after MAX_DELIVERY_ATTEMPTS calls. *)
FailedSpentAttempts == \A m \in Msg : verdict[m] = "failed" => sends[m] >= MaxAttempts

(* A row is not sent for ever: MAX_DELIVERY_ATTEMPTS calls, and as many again
   for every host restart, which forgets the count.                         *)
RetriesBounded == \A m \in Msg : sends[m] <= MaxAttempts * (1 + faults)

(* What the two poll loops, a counter in memory and a table that survives
   promise together of each row: first calls in the order of writing, one end,
   no call after it, given up only when MAX_DELIVERY_ATTEMPTS calls were made,
   recorded as delivered only when it has arrived.                           *)
Stage(m) == IF stamp[m] = 0 THEN "absent" ELSE IF verdict[m] = "none" THEN "open" ELSE verdict[m]
Line == INSTANCE Outbox
          WITH Row <- Msg, Silent <- Unrouted, Patience <- MaxAttempts,
               place <- stamp, stage <- [m \in Msg |-> Stage(m)],
               calls <- sends, reached <- [m \in Msg |-> seen[m] > 0]
ImplementsOutbox == Line!Spec

(* A row recorded as delivered reached its destination (delivery.ts:414-417
   calls the opposite "the pre-refactor bug"). The bug survives for rows
   without routing or without an adapter: deliverMessage returns for them.  *)
DeliveredWasSeen == \A m \in Msg \ Unrouted : verdict[m] = "delivered" => seen[m] > 0

(* A card on the user's screen can be answered: its question is on record
   until the first click.                                                   *)
CardAnswerable == \A c \in Card : seen[c] > 0 /\ answers[c] = 0 => c \in question

(* Rows arrive in the order they were written, unless the earlier one failed
   at least once.                                                           *)
OrderKept ==
  [][\A m, n \in Msg :
       /\ seen[m] = 0 /\ seen'[m] > 0
       /\ 0 < stamp[n] /\ stamp[n] < stamp[m] /\ verdict[n] = "none"
       => sends[n] > 0]_vars

(* Every row written ends as delivered or failed, even behind rows that can
   never be delivered.                                                      *)
RowSettles == \A m \in Msg : (stamp[m] > 0) ~> (verdict[m] # "none")

(* command-gate.ts:6-7: a refused sender gets a "Permission denied" response
   written to messages_out.                                                 *)
DenialIsQueued == \A m \in denied : stamp[m] > 0
==============================================================================
