-------------------------------- MODULE Peers --------------------------------
(***************************************************************************)
(* Messages between agents (src/modules/agent-to-agent/agent-route.ts) and    *)
(* what the agent runner writes about the message it answers                  *)
(* (current-batch.ts, poll-loop.ts sendToDestination, mcp-tools/core.ts).      *)
(*                                                                         *)
(* An agent group may have several sessions; a message is addressed to a       *)
(* group, and the host picks the session.  `answers` is what the agent means:  *)
(* the message it replies to.                                               *)
(***************************************************************************)
EXTENDS Naturals, SequencesExt

CONSTANTS
  Session,     \* sessions
  GroupOf,     \* [Session -> agent groups]
  MaxLetters,  \* bound: messages written
  MaxClosed    \* bound: sessions closed

AgentGroup == {GroupOf[s] : s \in Session}

ASSUME PeerConstants ==
  /\ GroupOf \in [Session -> AgentGroup] /\ MaxLetters \in Nat /\ MaxClosed \in Nat

VARIABLES
  made,     \* sessions made so far, oldest first
  closed,   \* sessions closed
  permits,  \* agent_destinations: pairs <<group, group>>
  letterbox,    \* session -> its inbound messages from agents, by seq
  outbox,   \* messages written and not yet routed
  letters,  \* messages written so far
  refused   \* messages routing rejected

peerVars == <<made, closed, permits, letterbox, outbox, letters, refused>>

\* A message that answers nothing has answers = 0; replyTo is in_reply_to.
Letter ==
  [id : 1..MaxLetters, from : Session, to : AgentGroup, answers : 0..MaxLetters,
   replyTo : 0..MaxLetters]

PeerInit ==
  /\ made = << >> /\ closed = {} /\ permits = {p \in AgentGroup \X AgentGroup : p[1] # p[2]}
  /\ letterbox = [s \in Session |-> << >>] /\ outbox = {} /\ letters = 0 /\ refused = {}

Running == ToSet(made) \ closed
Received(s) == ToSet(letterbox[s])

Opens(s) ==
  /\ s \notin ToSet(made) /\ made' = Append(made, s)
  /\ UNCHANGED <<closed, permits, letterbox, outbox, letters, refused>>

\* A session is closed or deleted (command line, Fugue).
Closes(s) ==
  /\ s \in Running /\ Cardinality(closed) < MaxClosed
  /\ closed' = closed \cup {s}
  /\ UNCHANGED <<made, permits, letterbox, outbox, letters, refused>>

-----------------------------------------------------------------------------
(* Writing, in the container *)

\* The newest message of s from group g.
Newest(s, g) ==
  LET fits == {i \in DOMAIN letterbox[s] : GroupOf[letterbox[s][i].from] = g}
  IN  IF fits = {} THEN 0
      ELSE letterbox[s][CHOOSE i \in fits : \A j \in fits : j <= i].id

\* The text of a turn refers to the newest message of the addressee, or without
\* one to the first of the batch, whoever sent it.  A tool of the MCP server
\* refers to nothing: the server is a process of its own, where the batch that
\* the poll loop publishes is never set.
ReplyTo(s, g, way) ==
  IF way = "tool" THEN {0}
  ELSE IF Newest(s, g) # 0 THEN {Newest(s, g)} ELSE {0} \cup {m.id : m \in Received(s)}

Writes(s, g, replyTo, answers) ==
  /\ s \in Running /\ letters < MaxLetters /\ letters' = letters + 1
  /\ answers # 0 => \E m \in Received(s) : m.id = answers /\ GroupOf[m.from] = g
  /\ outbox' = outbox \cup {[id |-> letters + 1, from |-> s, to |-> g, answers |-> answers,
                              replyTo |-> replyTo]}
  /\ UNCHANGED <<made, closed, permits, letterbox, refused>>

-----------------------------------------------------------------------------
(* Routing, in the host: routeAgentMessage *)

\* The session that sent the message referred to, else the one that sent the
\* newest message of that group; if it is no active session of the group, or
\* there was none, the group's newest, made if there is none.
Pinned(m) ==
  LET ref == IF m.replyTo # 0 THEN m.replyTo ELSE Newest(m.from, m.to)
  IN  {n.from : n \in {n \in Received(m.from) : n.id = ref}}

NewestOf(g) == {s \in Running : /\ GroupOf[s] = g
                                /\ \A i, j \in DOMAIN made :
                                     /\ made[i] = s /\ made[j] \in Running
                                     /\ GroupOf[made[j]] = g
                                     => j <= i}

(* Fault: the pinned session is taken whatever group it belongs to. *)
CandidatesOfAnyGroup(m) == Pinned(m) \cap Running

Candidates(m) == {s \in Pinned(m) \cap Running : GroupOf[s] = m.to}

(* Fault: the newest session of the group gets everything. *)
TargetsNewest(m) == NewestOf(m.to)

Targets(m) == IF Candidates(m) # {} THEN Candidates(m) ELSE NewestOf(m.to)

Routes(m, s) ==
  /\ m \in outbox /\ outbox' = outbox \ {m}
  /\ m.to = GroupOf[m.from] \/ <<GroupOf[m.from], m.to>> \in permits
  /\ \/ s \in Targets(m) /\ UNCHANGED made
     \/ /\ Targets(m) = {} /\ GroupOf[s] = m.to /\ s \notin ToSet(made)
        /\ made' = Append(made, s)
  /\ letterbox' = [letterbox EXCEPT ![s] = Append(@, m)]
  /\ UNCHANGED <<closed, permits, letters, refused>>

\* No destination row: it throws, and delivery gives the message up in the end.
Denies(m) ==
  /\ m \in outbox /\ outbox' = outbox \ {m}
  /\ m.to # GroupOf[m.from] /\ <<GroupOf[m.from], m.to>> \notin permits
  /\ refused' = refused \cup {m.id}
  /\ UNCHANGED <<made, closed, permits, letterbox, letters>>

\* An administrator removes the destination.
Revokes(p) ==
  /\ p \in permits /\ permits' = permits \ {p}
  /\ UNCHANGED <<made, closed, letterbox, outbox, letters, refused>>

PeerNext ==
  \/ \E s \in Session :
        \/ Opens(s) \/ Closes(s)
        \/ \E g \in AgentGroup, way \in {"text", "tool"}, answers \in 0..letters :
             \E replyTo \in ReplyTo(s, g, way) : Writes(s, g, replyTo, answers)
        \/ \E m \in outbox : Routes(m, s)
  \/ \E m \in outbox : Denies(m)
  \/ \E p \in permits : Revokes(p)

PeerSpec == PeerInit /\ [][PeerNext]_peerVars

-----------------------------------------------------------------------------
(* Properties *)

\* Type of the state; a message lies only with sessions of the group it is for.
PeerTypeOK ==
  /\ made \in Seq(Session) /\ closed \subseteq ToSet(made)
  /\ permits \subseteq AgentGroup \X AgentGroup /\ letters \in 0..MaxLetters
  /\ letterbox \in [Session -> Seq(Letter)] /\ outbox \subseteq Letter
  /\ \A s \in Session : \A m \in Received(s) : m.to = GroupOf[s]
  /\ refused \subseteq 1..MaxLetters

\* The session a message in an inbox answers: the author of what it answers.
Asker(m) == CHOOSE h \in Session : \E n \in Received(m.from) : n.id = m.answers /\ n.from = h

\* A reply to another agent reaches the session that asked, unless that session
\* has been closed, or another session of its group has written to the replier as
\* well, which the newest message then stands for.
ReplyComesHome ==
  \A t \in Session : \A m \in Received(t) : m.answers # 0 =>
    \/ t = Asker(m) \/ Asker(m) \in closed
    \/ \E n \in Received(m.from) : GroupOf[n.from] = m.to /\ n.from # Asker(m)

\* current-batch.ts:8: the reference "can correlate replies back to the originating
\* session", and agent-route.ts:110: "replies should land there even when the target
\* has multiple active sessions".  Violated: with two of them, the newest message
\* decides, not the one that is answered.
ReplyReturns ==
  \A t \in Session : \A m \in Received(t) : m.answers # 0 =>
    t = Asker(m) \/ Asker(m) \in closed
=============================================================================
