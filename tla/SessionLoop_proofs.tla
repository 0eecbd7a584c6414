-------------------------- MODULE SessionLoop_proofs --------------------------
(***************************************************************************)
(* Proofs about the two-database protocol of one session, for any number of *)
(* messages, containers, retries and faults.  First what holds under either *)
(* runtime; then what needs docker with a `docker stop` that works, because *)
(* only there a claim the host deletes is the claim of a dead process.      *)
(***************************************************************************)
EXTENDS SessionLoop, ContainerRunner_proofs, FiniteSetTheorems

(* Every step of the session is a step of the container lifecycle, or leaves
   it alone: what ContainerRunner_proofs proves of that holds here.          *)
LEMMA RunnerStep == [SessionNext]_vars => [RunnerNext]_runnerVars
<1> SUFFICES ASSUME [SessionNext]_vars PROVE [RunnerNext]_runnerVars
  OBVIOUS
<1> USE DEF RunnerNext
<1>1. CASE Spawned \/ SpawnSettles \/ SpawnFails \/ Stopped
  BY <1>1 DEF Spawned, SpawnSettles, SpawnFails, Stopped, HostStep
<1>2. ASSUME NEW s \in Slot, HandlesExit(s) PROVE RunnerNext
  BY <1>2 DEF HandlesExit, HostStep
<1>3. ASSUME NEW m \in Msg, Insert(m) \/ Restart(m) PROVE [RunnerNext]_runnerVars
  BY <1>3 DEF Insert, Restart
<1>4. CASE RouterWake
  BY <1>4 DEF RouterWake, CallWake
<1>5. CASE HostDies \/ HostBoots
  BY <1>5 DEF HostDies, HostBoots
<1>6. CASE SweepStep
  BY <1>6 DEF SweepStep, SweepSync, SweepWake, CallWake, SweepWoken, SweepCheck, SweepKill, SweepReset
<1>7. ASSUME NEW s \in Slot, AgentStep(s) PROVE UNCHANGED runnerVars
  BY <1>7 DEF AgentStep, AgentOnly, Boot, Poll, Scripts, Event, ToolStarts, ToolEnds, Result, QueryEnd,
              FollowPoll, FollowPush, StaleReturn, Ask, AskTimeout, TakeAnswer
<1>8. ASSUME NEW s \in Slot, Dies(s) \/ Hangs(s) PROVE [RunnerNext]_runnerVars
  BY <1>8 DEF Dies, Hangs
<1>9. CASE Tick
  BY <1>9 DEF Tick
<1>10. CASE UNCHANGED vars
  BY <1>10 DEF vars
<1> QED
  BY <1>1, <1>2, <1>3, <1>4, <1>5, <1>6, <1>7, <1>8, <1>9, <1>10 DEF SessionNext

THEOREM SessionImplementsRunner == SessionSpec => RunnerSpec
BY RunnerStep, PTL DEF SessionSpec, SessionInit, RunnerSpec
-----------------------------------------------------------------------------
(* What the proofs below know of the variables' values. *)
AgentTyped == agent \in [Slot -> Agent]
RowsTyped ==
  /\ status \in [Msg -> {"none", "pending", "completed", "failed"}]
  /\ ack \in [Msg -> {"none", "processing", "completed"}]
  /\ handled \in SUBSET Msg

LEMMA AgentRecords ==
  /\ NoAgent \in Agent
  /\ FreshAgent \in Agent
  /\ [NoAgent EXCEPT !.pc = "hung"] \in Agent
<1>1. 0 \in 0..2
  OBVIOUS
<1>2. NoAgent \in Agent
  BY <1>1, Zenon DEF Agent, NoAgent
<1>3. FreshAgent \in Agent
  BY <1>2 DEF Agent, FreshAgent
<1>4. [NoAgent EXCEPT !.pc = "hung"] \in Agent
  BY <1>2 DEF Agent
<1> QED
  BY <1>2, <1>3, <1>4

LEMMA ProcsFollowTyped ==
  ASSUME AgentTyped, ProcsFollow
  PROVE  /\ AgentTyped'
         /\ \A s \in Slot : agent'[s] \in {agent[s], NoAgent, FreshAgent}
BY AgentRecords DEF AgentTyped, ProcsFollow

LEMMA AgentTypedStep == AgentTyped /\ [SessionNext]_vars => AgentTyped'
<1> SUFFICES ASSUME AgentTyped, [SessionNext]_vars PROVE AgentTyped'
  OBVIOUS
<1>1. CASE Spawned \/ SpawnSettles \/ SpawnFails \/ Stopped
  BY <1>1, ProcsFollowTyped DEF Spawned, SpawnSettles, SpawnFails, Stopped, HostStep
<1>2. ASSUME NEW s \in Slot, HandlesExit(s) PROVE AgentTyped'
  BY <1>2, ProcsFollowTyped DEF HandlesExit, HostStep
<1>3. ASSUME NEW m \in Msg, Insert(m) \/ Restart(m) PROVE AgentTyped'
  BY <1>3, ProcsFollowTyped DEF Insert, Restart, AgentTyped
<1>4. CASE RouterWake \/ HostDies \/ HostBoots
  BY <1>4, ProcsFollowTyped DEF RouterWake, HostDies, HostBoots, AgentTyped
<1>5. CASE SweepStep
  BY <1>5, ProcsFollowTyped
     DEF SweepStep, SweepSync, SweepWake, SweepWoken, SweepCheck, SweepKill, SweepReset, AgentTyped
<1>6. ASSUME NEW s \in Slot, AgentStep(s) PROVE AgentTyped'
  <2>0. agent[s] \in Agent
    BY DEF AgentTyped
  <2>a. ASSUME NEW new \in Agent, Does(s, new) PROVE AgentTyped'
    BY <2>a DEF AgentTyped, Does
  <2>1. CASE Boot(s)
    BY <2>0, <2>1, <2>a DEF Boot, Agent
  <2>2. CASE Poll(s)
    BY <2>0, <2>2, <2>a DEF Poll, Agent, Fetched, Newest
  <2>3. CASE Scripts(s)
    <3>1. PICK skipped \in SUBSET (agent[s].batch \cap Task) :
            LET keep == agent[s].batch \ skipped IN
            Does(s, IF keep = {} THEN [agent[s] EXCEPT !.pc = "poll", !.batch = {}]
                    ELSE [agent[s] EXCEPT !.pc = "query", !.batch = keep, !.turns = 1])
      BY <2>3 DEF Scripts
    <3>2. [agent[s] EXCEPT !.pc = "poll", !.batch = {}] \in Agent
      BY <2>0 DEF Agent
    <3>3. [agent[s] EXCEPT !.pc = "query", !.batch = agent[s].batch \ skipped, !.turns = 1] \in Agent
      <4>1. 1 \in 0..2 /\ agent[s].batch \ skipped \in SUBSET Msg
        BY <2>0 DEF Agent
      <4> QED
        BY <2>0, <4>1, Zenon DEF Agent
    <3> QED
      BY <3>1, <3>2, <3>3, <2>a
  <2>4. CASE Event(s) \/ ToolStarts(s) \/ ToolEnds(s)
    BY <2>4 DEF Event, ToolStarts, ToolEnds, AgentTyped
  <2>5. CASE Result(s)
    <3>1. [agent[s] EXCEPT !.turns = @ - 1] \in Agent
      <4>1. agent[s].turns - 1 \in 0..2
        BY <2>0, <2>5 DEF Result, Agent
      <4> QED
        BY <2>0, <4>1 DEF Agent
    <3>2. [agent[s] EXCEPT !.nudged = TRUE] \in Agent
      BY <2>0 DEF Agent
    <3> QED
      BY <2>5, <3>1, <3>2, <2>a DEF Result
  <2>6. CASE QueryEnd(s)
    <3>1. [agent[s] EXCEPT !.pc = "poll", !.batch = {}, !.turns = 0, !.follow = {},
                           !.stale = @ \cup agent[s].follow, !.ended = FALSE, !.nudged = FALSE,
                           !.asking = FALSE] \in Agent
      <4>1. 0 \in 0..2 /\ agent[s].stale \cup agent[s].follow \in SUBSET Msg
        BY <2>0 DEF Agent
      <4> QED
        BY <2>0, <4>1, Zenon DEF Agent
    <3> QED
      BY <2>6, <3>1, <2>a DEF QueryEnd
  <2>7. CASE FollowPoll(s)
    BY <2>0, <2>7, <2>a DEF FollowPoll, Agent, Fetched, Newest
  <2>8. CASE FollowPush(s)
    <3>1. [agent[s] EXCEPT !.follow = {}] \in Agent
      BY <2>0 DEF Agent
    <3>2. [agent[s] EXCEPT !.follow = {}, !.nudged = FALSE,
                           !.turns = IF @ = 2 THEN @ ELSE @ + 1] \in Agent
      <4>1. (IF agent[s].turns = 2 THEN agent[s].turns ELSE agent[s].turns + 1) \in 0..2
        BY <2>0 DEF Agent
      <4> QED
        BY <2>0, <4>1 DEF Agent
    <3> QED
      BY <2>8, <3>1, <3>2, <2>a DEF FollowPush
  <2>9. CASE StaleReturn(s)
    BY <2>0, <2>9, <2>a DEF StaleReturn, Agent
  <2>10. CASE Ask(s) \/ AskTimeout(s)
    BY <2>0, <2>10, <2>a DEF Ask, AskTimeout, Agent
  <2>11. ASSUME NEW m \in Msg, TakeAnswer(s, m) PROVE AgentTyped'
    BY <2>0, <2>11, <2>a DEF TakeAnswer, Agent
  <2> QED
    BY <1>6, <2>1, <2>2, <2>3, <2>4, <2>5, <2>6, <2>7, <2>8, <2>9, <2>10, <2>11 DEF AgentStep
<1>7. ASSUME NEW s \in Slot, Dies(s) \/ Hangs(s) PROVE AgentTyped'
  BY <1>7, ProcsFollowTyped, AgentRecords DEF Dies, Hangs, Does, AgentTyped
<1>8. CASE Tick
  BY <1>8 DEF Tick, AgentTyped
<1>9. CASE UNCHANGED vars
  BY <1>9 DEF vars, AgentTyped
<1> QED
  BY <1>1, <1>2, <1>3, <1>4, <1>5, <1>6, <1>7, <1>8, <1>9 DEF SessionNext
-----------------------------------------------------------------------------
(* Under either runtime a row is completed only once it has been handled. The
   invariant adds that a query's batch has been handled: it is what a result,
   or the end of the query, completes.                                       *)
QueryHandled == \A s \in Slot : agent[s].pc = "query" => agent[s].batch \subseteq handled
DoneInv == AgentTyped /\ RowsTyped /\ QueryHandled /\ CompletedWasHandled

LEMMA DoneInvInit == SessionInit => DoneInv
<1> SUFFICES ASSUME SessionInit PROVE DoneInv
  OBVIOUS
<1>1. AgentTyped /\ RowsTyped
  BY AgentRecords DEF SessionInit, AgentTyped, RowsTyped
<1>2. QueryHandled /\ CompletedWasHandled
  BY DEF SessionInit, QueryHandled, CompletedWasHandled, NoAgent
<1> QED
  BY <1>1, <1>2 DEF DoneInv

LEMMA DoneInvStep == DoneInv /\ [SessionNext]_vars => DoneInv'
<1> SUFFICES ASSUME DoneInv, [SessionNext]_vars PROVE RowsTyped' /\ QueryHandled' /\ CompletedWasHandled'
  BY AgentTypedStep DEF DoneInv
<1> USE DEF DoneInv, RowsTyped, QueryHandled, CompletedWasHandled
(* Steps of the host: no acknowledgement, at most a fresh row, at most agents
   that start or are gone.                                                   *)
<1>a. ASSUME UNCHANGED <<ack, handled>>,
             status' = status \/ \E m \in Msg : status' = [status EXCEPT ![m] = "pending"],
             agent' = agent \/ ProcsFollow
      PROVE  RowsTyped' /\ QueryHandled' /\ CompletedWasHandled'
  <2>1. \A s \in Slot : agent'[s] = agent[s] \/ agent'[s].pc # "query"
    <3>1. NoAgent.pc # "query" /\ FreshAgent.pc # "query"
      BY DEF NoAgent, FreshAgent
    <3> QED
      BY <1>a, <3>1, ProcsFollowTyped
  <2>2. QueryHandled'
    BY <1>a, <2>1
  <2>3. RowsTyped' /\ CompletedWasHandled'
    BY <1>a
  <2> QED
    BY <2>2, <2>3
<1>1. CASE Spawned \/ SpawnSettles \/ SpawnFails \/ Stopped
  BY <1>1, <1>a DEF Spawned, SpawnSettles, SpawnFails, Stopped, HostStep, inbound, outbound
<1>2. ASSUME NEW s \in Slot, HandlesExit(s) PROVE RowsTyped' /\ QueryHandled' /\ CompletedWasHandled'
  BY <1>2, <1>a DEF HandlesExit, HostStep, inbound, outbound
<1>3. ASSUME NEW m \in Msg, Insert(m) \/ Restart(m)
      PROVE  RowsTyped' /\ QueryHandled' /\ CompletedWasHandled'
  BY <1>3, <1>a DEF Insert, Restart, outbound
<1>4. CASE RouterWake \/ HostDies \/ HostBoots
  BY <1>4, <1>a DEF RouterWake, HostDies, HostBoots, inbound, outbound
<1>5. CASE SweepSync
  BY <1>5 DEF SweepSync, outbound
<1>6. CASE SweepWake \/ SweepWoken \/ SweepCheck \/ SweepKill
  BY <1>6, <1>a DEF SweepWake, SweepWoken, SweepCheck, SweepKill, inbound, outbound
<1>7. CASE SweepReset
  BY <1>7 DEF SweepReset, SetAck, Mark
<1>8. ASSUME NEW s \in Slot, AgentStep(s) PROVE RowsTyped' /\ QueryHandled' /\ CompletedWasHandled'
  <2> USE DEF AgentOnly, inbound, Does, SetAck, Mark
  <2>0. agent[s] \in Agent /\ agent \in [Slot -> Agent]
    BY DEF AgentTyped
  <2>1. CASE Boot(s)
    BY <2>0, <2>1 DEF Boot, Agent
  <2>2. CASE Poll(s)
    <3>1. \A t \in Slot : agent'[t] = agent[t] \/ agent'[t].pc # "query"
      <4>1. \/ Does(s, [agent[s] EXCEPT !.first = FALSE])
            \/ \E b \in SUBSET Msg :
                 Does(s, [agent[s] EXCEPT !.first = FALSE, !.pc = "scripts", !.batch = b])
        BY <2>2 DEF Poll, Fetched, Newest
      <4>2. agent[s].pc = "poll"
        BY <2>2 DEF Poll, Runs
      <4> QED
        BY <2>0, <4>1, <4>2 DEF Agent
    <3>2. QueryHandled'
      BY <2>2, <3>1 DEF Poll
    <3>3. RowsTyped' /\ CompletedWasHandled'
      BY <2>2 DEF Poll, Fetched, Newest
    <3> QED
      BY <3>2, <3>3
  <2>3. CASE Scripts(s)
    BY <2>0, <2>3 DEF Scripts, Agent
  <2>4. CASE Event(s) \/ ToolStarts(s) \/ ToolEnds(s)
    BY <2>4 DEF Event, ToolStarts, ToolEnds, outbound
  <2>5. CASE Result(s)
    <3>1. \A t \in Slot : agent'[t].pc = agent[t].pc /\ agent'[t].batch = agent[t].batch
      BY <2>0, <2>5 DEF Result, Agent
    <3> QED
      BY <2>5, <3>1 DEF Result, Runs
  <2>6. CASE QueryEnd(s)
    <3>1. \A t \in Slot : agent'[t] = agent[t] \/ agent'[t].pc # "query"
      BY <2>0, <2>6 DEF QueryEnd, Agent
    <3> QED
      BY <2>6, <3>1 DEF QueryEnd, Runs
  <2>7. CASE FollowPoll(s)
    <3>1. \A t \in Slot : agent'[t].pc = agent[t].pc /\ agent'[t].batch = agent[t].batch
      <4>1. \/ Does(s, [agent[s] EXCEPT !.ended = TRUE])
            \/ \E new \in SUBSET Msg : Does(s, [agent[s] EXCEPT !.follow = new])
        BY <2>7 DEF FollowPoll, Fetched, Newest
      <4> QED
        BY <2>0, <4>1 DEF Agent
    <3> QED
      BY <2>7, <3>1 DEF FollowPoll
  <2>8. CASE FollowPush(s)
    BY <2>0, <2>8 DEF FollowPush, Agent
  <2>9. CASE StaleReturn(s)
    BY <2>0, <2>9 DEF StaleReturn, Agent
  <2>10. CASE Ask(s) \/ AskTimeout(s)
    BY <2>0, <2>10 DEF Ask, AskTimeout, Agent, outbound
  <2>11. ASSUME NEW m \in Msg, TakeAnswer(s, m)
         PROVE  RowsTyped' /\ QueryHandled' /\ CompletedWasHandled'
    BY <2>0, <2>11 DEF TakeAnswer, Agent
  <2> QED
    BY <1>8, <2>1, <2>2, <2>3, <2>4, <2>5, <2>6, <2>7, <2>8, <2>9, <2>10, <2>11 DEF AgentStep
<1>9. ASSUME NEW s \in Slot, Dies(s) PROVE RowsTyped' /\ QueryHandled' /\ CompletedWasHandled'
  BY <1>9, <1>a DEF Dies, inbound, outbound
<1>10. ASSUME NEW s \in Slot, Hangs(s) PROVE RowsTyped' /\ QueryHandled' /\ CompletedWasHandled'
  BY <1>10 DEF Hangs, Does, NoAgent, AgentTyped, inbound, outbound
<1>11. CASE Tick \/ UNCHANGED vars
  BY <1>11, <1>a DEF Tick, vars, inbound, outbound
<1> QED
  BY <1>1, <1>2, <1>3, <1>4, <1>5, <1>6, <1>7, <1>8, <1>9, <1>10, <1>11 DEF SessionNext, SweepStep

(* Nothing is lost silently, whatever the runtime, the crashes and the number
   of containers: a completed row has reached the agent, its script or its
   tool, or was a command the poll loop executed.                            *)
THEOREM CompletedWasHandledHolds == SessionSpec => []CompletedWasHandled
<1>1. DoneInv => CompletedWasHandled
  BY DEF DoneInv
<1> QED
  BY <1>1, DoneInvInit, DoneInvStep, PTL DEF SessionSpec
-----------------------------------------------------------------------------
(* Under either runtime a row is given up only when its retries are spent: the
   sweep is the only writer of `tries`, and of 'failed'.                      *)
TriesInv ==
  /\ status \in [Msg -> {"none", "pending", "completed", "failed"}]
  /\ tries \in [Msg -> 0..MaxTries]
  /\ FailedSpentTries

LEMMA TriesInvInit == SessionInit => TriesInv
BY NumbersAssumption DEF SessionInit, TriesInv, FailedSpentTries

LEMMA TriesInvStep == TriesInv /\ [SessionNext]_vars => TriesInv'
<1> SUFFICES ASSUME TriesInv, [SessionNext]_vars PROVE TriesInv'
  OBVIOUS
<1> USE DEF TriesInv, FailedSpentTries
<1>a. ASSUME UNCHANGED tries, status' = status \/ \E m \in Msg : status' = [status EXCEPT ![m] = "pending"]
      PROVE  TriesInv'
  BY <1>a
<1>1. CASE Spawned \/ SpawnSettles \/ SpawnFails \/ Stopped \/ RouterWake \/ HostDies \/ HostBoots
  BY <1>1, <1>a DEF Spawned, SpawnSettles, SpawnFails, Stopped, HostStep, RouterWake, HostDies, HostBoots, inbound
<1>2. ASSUME NEW s \in Slot, HandlesExit(s) \/ Dies(s) \/ Hangs(s) PROVE TriesInv'
  BY <1>2, <1>a DEF HandlesExit, Dies, Hangs, HostStep, inbound
<1>3. ASSUME NEW m \in Msg, Insert(m) \/ Restart(m) PROVE TriesInv'
  BY <1>3, <1>a DEF Insert, Restart
<1>4. CASE SweepSync
  BY <1>4 DEF SweepSync
<1>5. CASE SweepWake \/ SweepWoken \/ SweepCheck \/ SweepKill
  BY <1>5, <1>a DEF SweepWake, SweepWoken, SweepCheck, SweepKill, inbound
<1>6. CASE SweepReset
  <2>1. tries' \in [Msg -> 0..MaxTries]
    BY <1>6, NumbersAssumption DEF SweepReset, Exhausted
  <2>2. \A m \in Msg : status'[m] = "failed" => tries'[m] = MaxTries
    BY <1>6, NumbersAssumption DEF SweepReset, Exhausted, Retried, Claims
  <2>3. status' \in [Msg -> {"none", "pending", "completed", "failed"}]
    BY <1>6 DEF SweepReset
  <2> QED
    BY <2>1, <2>2, <2>3
<1>7. ASSUME NEW s \in Slot, AgentStep(s) PROVE TriesInv'
  BY <1>7, <1>a DEF AgentStep, AgentOnly, Boot, Poll, Scripts, Event, ToolStarts, ToolEnds, Result,
     QueryEnd, FollowPoll, FollowPush, StaleReturn, Ask, AskTimeout, TakeAnswer, inbound
<1>8. CASE Tick \/ UNCHANGED vars
  BY <1>8, <1>a DEF Tick, vars, inbound
<1> QED
  BY <1>1, <1>2, <1>3, <1>4, <1>5, <1>6, <1>7, <1>8 DEF SessionNext, SweepStep

(* A row that is given up has had MAX_TRIES retries, however crashes, restarts
   and failing deletions of claims interleave with the sweep.                 *)
THEOREM FailedSpentTriesHolds == SessionSpec => []FailedSpentTries
<1>1. TriesInv => FailedSpentTries
  BY DEF TriesInv
<1> QED
  BY <1>1, TriesInvInit, TriesInvStep, PTL DEF SessionSpec
-----------------------------------------------------------------------------
(* The whole type invariant. What is left to bound: the ages saturate at their
   cap, a row's place is at most the number of rows, and a backoff is a power
   of two, so that the sum of ticks a row waits stays a natural number.      *)
ClocksTyped ==
  /\ due \in [Msg -> Nat]
  /\ claimAge \in [Msg -> 0..AgeCap]
  /\ tool \in {0, BashTimeout}
  /\ hb \in 0..NoHeartbeat
SweepRecord == [pc : {"idle", "wake", "await", "check", "kill", "reset"}, verdict : Verdict]
PlacesTyped ==
  /\ seq \in [Msg -> 0..Cardinality(Msg)]
  /\ sweep \in SweepRecord
  /\ poke \in BOOLEAN
  /\ carded \in SUBSET Msg
  /\ faults \in 0..MaxFaults

(* A set of n elements has 2^n subsets: the powers of two are naturals. *)
LEMMA PowersOfTwo == \A n \in Nat : 2^n \in Nat
<1> SUFFICES ASSUME NEW n \in Nat PROVE 2^n \in Nat
  OBVIOUS
<1>1. IsFiniteSet(1..n) /\ Cardinality(1..n) = n
  BY FS_Interval
<1>2. IsFiniteSet(SUBSET (1..n)) /\ Cardinality(SUBSET (1..n)) = 2^n
  BY <1>1, FS_SUBSET
<1> QED
  BY <1>2, FS_CardinalityType

LEMMA AgesBounded == AgeCap \in Nat /\ NoHeartbeat = AgeCap + 1 /\ 0 \in 0..AgeCap
BY NumbersAssumption DEF AgeCap, NoHeartbeat, Larger

(* The next sequence number is free: the rows written so far leave one out. *)
LEMMA NextPlace ==
  ASSUME NEW m \in Msg, seq \in [Msg -> 0..Cardinality(Msg)], seq[m] = 0
  PROVE  Cardinality(Written) + 1 \in 0..Cardinality(Msg)
<1>1. Written \in SUBSET (Msg \ {m})
  BY DEF Written
<1>2. IsFiniteSet(Msg \ {m}) /\ Cardinality(Msg \ {m}) = Cardinality(Msg) - 1
  BY KindsAssumption, FS_RemoveElement
<1>3. IsFiniteSet(Written) /\ Cardinality(Written) <= Cardinality(Msg) - 1
  BY <1>1, <1>2, FS_Subset
<1>4. Cardinality(Written) \in Nat /\ Cardinality(Msg) \in Nat
  BY <1>3, KindsAssumption, FS_CardinalityType
<1> QED
  BY <1>3, <1>4

LEMMA IdleTyped == Idle \in SweepRecord
BY DEF Idle, Verdict, SweepRecord

LEMMA SetAckTyped ==
  ASSUME NEW new, SetAck(new), claimAge \in [Msg -> 0..AgeCap]
  PROVE  claimAge' \in [Msg -> 0..AgeCap]
BY AgesBounded DEF SetAck

LEMMA ClocksTypedStep == TriesInv /\ ClocksTyped /\ [SessionNext]_vars => ClocksTyped'
<1> SUFFICES ASSUME TriesInv, ClocksTyped, [SessionNext]_vars PROVE ClocksTyped'
  OBVIOUS
<1>0. /\ 0 \in 0..NoHeartbeat /\ NoHeartbeat \in 0..NoHeartbeat
      /\ claimAge \in [Msg -> 0..AgeCap]
  BY AgesBounded DEF ClocksTyped
<1>a. ASSUME UNCHANGED <<due, claimAge, tool>>, hb' \in {hb, 0, NoHeartbeat} PROVE ClocksTyped'
  BY <1>0, <1>a DEF ClocksTyped
<1>b. ASSUME UNCHANGED due, tool' \in {tool, 0, BashTimeout}, hb' \in {hb, 0},
             claimAge' = claimAge \/ \E new : SetAck(new)
      PROVE  ClocksTyped'
  BY <1>0, <1>b, SetAckTyped DEF ClocksTyped
<1>1. CASE Spawned \/ SpawnSettles \/ SpawnFails \/ Stopped \/ RouterWake \/ HostDies \/ HostBoots
  BY <1>1, <1>a DEF Spawned, SpawnSettles, SpawnFails, Stopped, HostStep, RouterWake, HostDies,
                    HostBoots, inbound, outbound
<1>2. ASSUME NEW s \in Slot, HandlesExit(s) \/ Dies(s) \/ Hangs(s) PROVE ClocksTyped'
  BY <1>2, <1>a DEF HandlesExit, Dies, Hangs, HostStep, inbound, outbound
<1>3. ASSUME NEW m \in Msg, Insert(m) \/ Restart(m) PROVE ClocksTyped'
  <2>1. UNCHANGED <<claimAge, tool, hb>>
    BY <1>3 DEF Insert, Restart, outbound
  <2>2. due' = due \/ \E delay \in 0..1 : due' = [due EXCEPT ![m] = delay]
    BY <1>3, Zenon DEF Insert, Restart
  <2>3. due' \in [Msg -> Nat]
    BY <2>2 DEF ClocksTyped
  <2> QED
    BY <2>1, <2>3 DEF ClocksTyped
<1>4. CASE SweepSync \/ SweepWake \/ SweepWoken \/ SweepCheck \/ SweepKill
  BY <1>4, <1>a DEF SweepSync, SweepWake, SweepWoken, SweepCheck, SweepKill, inbound, outbound
<1>5. CASE SweepReset
  <2>1. \A m \in Msg : BackoffBase * 2^tries[m] \in Nat
    <3>1. \A m \in Msg : 2^tries[m] \in Nat
      BY PowersOfTwo, NumbersAssumption DEF TriesInv
    <3> QED
      BY <3>1, NumbersAssumption
  <2>2. due' \in [Msg -> Nat]
    BY <1>5, <2>1 DEF SweepReset, ClocksTyped
  <2>3. claimAge' \in [Msg -> 0..AgeCap]
    BY <1>0, <1>5, SetAckTyped DEF SweepReset
  <2> QED
    BY <1>5, <2>2, <2>3 DEF SweepReset, ClocksTyped
<1>6. ASSUME NEW s \in Slot, AgentStep(s) PROVE ClocksTyped'
  BY <1>6, <1>b DEF AgentStep, AgentOnly, Boot, Poll, Scripts, ScriptBeat, Event, ToolStarts, ToolEnds,
     Result, QueryEnd, FollowPoll, FollowPush, StaleReturn, Ask, AskTimeout, TakeAnswer, inbound, outbound
<1>7. CASE Tick
  <2>1. hb' \in 0..NoHeartbeat
    BY <1>7, AgesBounded DEF Tick, Beaten, ClocksTyped
  <2>2. claimAge' \in [Msg -> 0..AgeCap]
    BY <1>7, AgesBounded DEF Tick, ClocksTyped
  <2>3. due' \in [Msg -> Nat]
    BY <1>7 DEF Tick, ClocksTyped
  <2> QED
    BY <1>7, <2>1, <2>2, <2>3 DEF Tick, ClocksTyped
<1>8. CASE UNCHANGED vars
  BY <1>8, <1>a DEF vars, inbound, outbound
<1> QED
  BY <1>1, <1>2, <1>3, <1>4, <1>5, <1>6, <1>7, <1>8 DEF SessionNext, SweepStep

LEMMA PlacesTypedStep == AgentTyped /\ PlacesTyped /\ [SessionNext]_vars => PlacesTyped'
<1> SUFFICES ASSUME AgentTyped, PlacesTyped, [SessionNext]_vars PROVE PlacesTyped'
  OBVIOUS
<1>0. Idle \in SweepRecord
  BY IdleTyped
<1>f. Fault => faults' \in 0..MaxFaults
  BY NumbersAssumption DEF Fault, PlacesTyped
<1>a. ASSUME UNCHANGED <<seq, carded>>, sweep' \in {sweep, Idle}, poke' \in {poke, FALSE},
             Fault \/ UNCHANGED faults
      PROVE  PlacesTyped'
  BY <1>0, <1>f, <1>a DEF PlacesTyped
<1>1. CASE Spawned \/ SpawnSettles \/ SpawnFails \/ Stopped \/ RouterWake \/ HostDies \/ HostBoots
  BY <1>1, <1>a DEF Spawned, SpawnSettles, SpawnFails, Stopped, HostStep, RouterWake, HostDies,
                    HostBoots, inbound
<1>2. ASSUME NEW s \in Slot, HandlesExit(s) \/ Dies(s) \/ Hangs(s) PROVE PlacesTyped'
  BY <1>2, <1>a DEF HandlesExit, Dies, Hangs, HostStep, inbound
<1>3. ASSUME NEW m \in Msg, Insert(m) \/ Restart(m) PROVE PlacesTyped'
  <2>1. Cardinality(Written) + 1 \in 0..Cardinality(Msg)
    BY <1>3, NextPlace DEF Insert, Restart, PlacesTyped
  <2>2. seq' \in [Msg -> 0..Cardinality(Msg)]
    BY <1>3, <2>1 DEF Insert, Restart, PlacesTyped
  <2>3. poke' \in BOOLEAN
    BY <1>3, Zenon DEF Insert, Restart, PlacesTyped
  <2> QED
    BY <1>3, <2>2, <2>3 DEF Insert, Restart, PlacesTyped
<1>4. CASE SweepStep
  <2>1. UNCHANGED <<seq, carded, poke>> /\ (Fault \/ UNCHANGED faults)
    BY <1>4 DEF SweepStep, SweepSync, SweepWake, SweepWoken, SweepCheck, SweepKill, SweepReset, inbound
  <2>2. sweep' \in SweepRecord
    <3>1. CASE SweepSync \/ SweepWake \/ SweepWoken \/ SweepReset
      BY <1>0, <3>1 DEF SweepSync, SweepWake, SweepWoken, SweepReset, PlacesTyped, SweepRecord
    <3>2. CASE SweepCheck
      <4>1. Decision \in Verdict /\ "none" \in Verdict
        BY DEF Decision, Verdict
      <4> QED
        BY <1>0, <3>2, <4>1 DEF SweepCheck, SweepRecord
    <3>3. CASE SweepKill
      BY <1>0, <3>3 DEF SweepKill, PlacesTyped, SweepRecord
    <3> QED
      BY <1>4, <3>1, <3>2, <3>3 DEF SweepStep
  <2> QED
    BY <2>1, <2>2, <1>f DEF PlacesTyped
<1>5. ASSUME NEW s \in Slot, AgentStep(s) PROVE PlacesTyped'
  <2>1. UNCHANGED <<seq, sweep, poke, faults>>
    BY <1>5 DEF AgentStep, AgentOnly, Boot, Poll, Scripts, Event, ToolStarts, ToolEnds, Result, QueryEnd,
                FollowPoll, FollowPush, StaleReturn, Ask, AskTimeout, TakeAnswer, inbound
  <2>2. carded' = carded \/ carded' = carded \cup agent[s].batch
    BY <1>5 DEF AgentStep, AgentOnly, Boot, Poll, Scripts, Event, ToolStarts, ToolEnds, Result, QueryEnd,
                FollowPoll, FollowPush, StaleReturn, Ask, AskTimeout, TakeAnswer
  <2>3. agent[s].batch \subseteq Msg
    BY DEF AgentTyped, Agent
  <2> QED
    BY <2>1, <2>2, <2>3 DEF PlacesTyped
<1>6. CASE Tick \/ UNCHANGED vars
  BY <1>6 DEF Tick, vars, inbound, PlacesTyped
<1> QED
  BY <1>1, <1>2, <1>3, <1>4, <1>5, <1>6 DEF SessionNext

(* Every variable of the session keeps its type, under either runtime. *)
THEOREM SessionTypeCorrect == SessionSpec => []SessionTypeOK
<1>1. SessionInit => ClocksTyped
  BY AgesBounded DEF SessionInit, ClocksTyped
<1>2. SessionInit => PlacesTyped
  <2>1. Cardinality(Msg) \in Nat
    BY KindsAssumption, FS_CardinalityType
  <2>2. SessionInit => seq \in [Msg -> 0..Cardinality(Msg)] /\ faults \in 0..MaxFaults
    BY <2>1, NumbersAssumption DEF SessionInit
  <2>3. SessionInit => sweep \in SweepRecord /\ poke \in BOOLEAN /\ carded \in SUBSET Msg
    BY IdleTyped, Zenon DEF SessionInit
  <2> QED
    BY <2>2, <2>3 DEF PlacesTyped
<1>3. RunnerTypeOK /\ DoneInv /\ TriesInv /\ ClocksTyped /\ PlacesTyped => SessionTypeOK
  BY NumbersAssumption DEF DoneInv, AgentTyped, RowsTyped, TriesInv, ClocksTyped, PlacesTyped, SweepRecord, SessionTypeOK
<1>4. DoneInv => AgentTyped
  BY DEF DoneInv
<1>5. SessionSpec => []RunnerTypeOK
  BY SessionImplementsRunner, RunnerTypeCorrect, PTL
<1> QED
  BY <1>1, <1>2, <1>3, <1>4, <1>5, DoneInvInit, DoneInvStep, TriesInvInit, TriesInvStep,
     ClocksTypedStep, PlacesTypedStep, PTL DEF SessionSpec

-----------------------------------------------------------------------------
(* With docker and a `docker stop` that works, claims are exact: a row that some
   live container works on keeps its claim, and the host deletes only claims of
   the dead.  From that follow the finality of a given-up row and the refinement
   of MessageLifecycle.                                                      *)

SweepTyped == sweep \in [pc : {"idle", "wake", "await", "check", "kill", "reset"}, verdict : Verdict]

(* A slot without a process has no agent; what an agent works on is confined
   to the stages of its loop that may hold claims.                           *)
Shaped ==
  \A s \in Slot :
    /\ proc[s] = "off" => agent[s] = NoAgent
    /\ agent[s].pc \in {"none", "boot", "hung"} => Working(s) = {}
    /\ agent[s].pc # "query" => agent[s].follow = {}
    /\ agent[s].pc \notin {"scripts", "query"} => agent[s].batch = {}

(* What is worked on is acknowledged, exists and is not given up. *)
Held == \A s \in Slot : \A m \in Working(s) : ack[m] # "none" /\ status[m] \notin {"none", "failed"}

(* The two databases agree: only rows that exist are acknowledged, and a row
   that is given up is never acknowledged as completed.                      *)
Agree ==
  /\ seq \in [Msg -> Nat]
  /\ \A m \in Msg : /\ seq[m] = 0 => status[m] = "none"
                    /\ status[m] = "none" => ack[m] = "none"
                    /\ status[m] = "failed" => ack[m] # "completed"

(* The sweep runs on a living host, and cleans up only once all is dead. *)
SweepSafe ==
  /\ sweep.pc # "idle" => host = "up"
  /\ sweep.pc = "reset" => \A s \in Slot : proc[s] = "off"

ClaimsInv ==
  ProcInv /\ DoneInv /\ SweepTyped /\ Shaped /\ Held /\ Agree /\ SweepSafe /\ WorkedOnOnce
Rest == SweepTyped /\ Shaped /\ Held /\ Agree /\ SweepSafe /\ WorkedOnOnce

LEMMA EmptyHanded ==
  \A a \in {NoAgent, FreshAgent} :
    a.batch = {} /\ a.follow = {} /\ a.stale = {} /\ a.pc \in {"none", "boot"}
<1>1. NoAgent.batch = {} /\ NoAgent.follow = {} /\ NoAgent.stale = {} /\ NoAgent.pc = "none"
  BY DEF NoAgent
<1>2. FreshAgent.batch = {} /\ FreshAgent.follow = {} /\ FreshAgent.stale = {} /\ FreshAgent.pc = "boot"
  BY DEF FreshAgent, NoAgent
<1> QED
  BY <1>1, <1>2

LEMMA ClaimsInvInit == SessionInit => ClaimsInv
<1> SUFFICES ASSUME SessionInit PROVE ClaimsInv
  OBVIOUS
<1>1. ProcInv /\ DoneInv
  BY ProcInvInit, DoneInvInit DEF SessionInit
<1>2. \A s \in Slot : agent[s] = NoAgent
  BY DEF SessionInit
<1>3. Shaped /\ Held /\ WorkedOnOnce
  BY <1>2, EmptyHanded DEF Shaped, Held, WorkedOnOnce, Working
<1>4. Agree
  BY DEF SessionInit, Agree
<1>5. SweepTyped /\ SweepSafe
  BY DEF SessionInit, SweepTyped, SweepSafe, Idle, Verdict
<1> QED
  BY <1>1, <1>3, <1>4, <1>5 DEF ClaimsInv, DoneInv

(* A step of the host that acknowledges nothing: rows may appear, processes
   may start or end.                                                         *)
LEMMA HostKeeps ==
  ASSUME ClaimsInv, AgentTyped', ack' = ack,
         \/ UNCHANGED <<status, seq>>
         \/ \E m \in Msg, n \in Nat \ {0} :
              status' = [status EXCEPT ![m] = "pending"] /\ seq' = [seq EXCEPT ![m] = n],
         ProcsFollow \/ UNCHANGED <<agent, proc>>
  PROVE  Shaped' /\ Held' /\ Agree' /\ WorkedOnOnce'
<1> USE DEF ClaimsInv, DoneInv, RowsTyped
<1>1. \A s \in Slot : \/ agent'[s] \in {NoAgent, FreshAgent}
                      \/ agent'[s] = agent[s] /\ (proc'[s] = "off" => proc[s] = "off")
  <2>1. CASE ProcsFollow
    <3>1. \A s \in Slot : agent'[s] \in {agent[s], NoAgent, FreshAgent}
      BY <2>1, ProcsFollowTyped
    <3>2. \A s \in Slot : proc'[s] = "off" => agent'[s] = NoAgent
      BY <2>1 DEF ProcsFollow
    <3> QED
      BY <3>1, <3>2
  <2>2. CASE UNCHANGED <<agent, proc>>
    BY <2>2
  <2> QED
    BY <2>1, <2>2
<1>2. \A s \in Slot : proc'[s] = "off" => agent'[s] = NoAgent
  BY DEF ProcsFollow, Shaped
<1>3. \A s \in Slot : agent'[s] \in {NoAgent, FreshAgent} =>
         /\ Working(s)' = {} /\ agent'[s].batch = {} /\ agent'[s].follow = {} /\ agent'[s].stale = {}
         /\ agent'[s].pc \in {"none", "boot"}
  BY EmptyHanded DEF Working
<1>4. \A s \in Slot : agent'[s] = agent[s] => Working(s)' = Working(s)
  BY DEF Working
<1>5. Shaped'
  BY <1>1, <1>2, <1>3, <1>4 DEF Shaped
<1>6. Held'
  <2>1. ASSUME NEW m \in Msg, status[m] \notin {"none", "failed"}
        PROVE  status'[m] \notin {"none", "failed"}
    BY <2>1
  <2>2. \A s \in Slot : Working(s) \subseteq Msg
    BY DEF Working, AgentTyped, Agent
  <2> QED
    BY <1>1, <1>3, <1>4, <2>1, <2>2 DEF Held
<1>7. Agree'
  BY DEF Agree
<1>8. WorkedOnOnce'
  BY <1>1, <1>3, <1>4 DEF WorkedOnOnce
<1> QED
  BY <1>5, <1>6, <1>7, <1>8

(* A step of the container in slot s, which by SingleContainer is the only
   one there is.                                                             *)
LEMMA AgentKeeps ==
  ASSUME ClaimsInv, NEW s \in Slot, proc[s] # "off",
         UNCHANGED <<host, proc, status, seq, sweep>>,
         NEW new \in Agent, Does(s, new),
         new.pc \in {"none", "boot", "hung"} => new.batch = {} /\ new.follow = {} /\ new.stale = {},
         new.pc # "query" => new.follow = {},
         new.pc \notin {"scripts", "query"} => new.batch = {},
         \A m \in new.batch \cup new.follow \cup new.stale :
           ack'[m] # "none" /\ status[m] \notin {"none", "failed"},
         new.batch \cap new.follow = {}, new.batch \cap new.stale = {}, new.follow \cap new.stale = {},
         \A m \in Msg : /\ status[m] = "none" => ack'[m] = "none"
                        /\ status[m] = "failed" => ack'[m] # "completed"
  PROVE  Rest'
<1> USE DEF ClaimsInv, DoneInv
<1>1. agent'[s] = new /\ \A t \in Slot : t # s => agent'[t] = agent[t]
  BY DEF Does, AgentTyped
<1>2. \A t \in Slot : t # s => proc[t] = "off" /\ agent[t] = NoAgent
  BY DEF ProcInv, SingleContainer, Shaped
<1>3. \A t \in Slot : t # s =>
        /\ Working(t)' = {} /\ agent'[t].batch = {} /\ agent'[t].follow = {} /\ agent'[t].stale = {}
        /\ agent'[t].pc = "none"
  BY <1>1, <1>2 DEF Working, NoAgent
<1>4. Working(s)' = new.batch \cup new.follow \cup new.stale
  BY <1>1 DEF Working
<1>5. Shaped'
  BY <1>1, <1>2, <1>3, <1>4 DEF Shaped
<1>6. Held'
  BY <1>3, <1>4 DEF Held
<1>7. Agree'
  BY DEF Agree
<1>8. WorkedOnOnce'
  BY <1>1, <1>3, <1>4 DEF WorkedOnOnce
<1>9. SweepTyped' /\ SweepSafe'
  BY DEF SweepTyped, SweepSafe
<1> QED
  BY <1>5, <1>6, <1>7, <1>8, <1>9 DEF Rest
(* A poll fetches rows nobody has claimed and the host has not settled. *)
LEMMA FetchedAreFree ==
  ASSUME NEW first
  PROVE  \A m \in Fetched(first) : m \in Msg /\ status[m] = "pending" /\ ack[m] = "none"
BY DEF Fetched, Newest

LEMMA ClaimsInvAgent ==
  ASSUME ClaimsInv, NEW s \in Slot, AgentStep(s)
  PROVE  Rest'
<1> USE DEF AgentOnly, inbound, runnerVars, SetAck, Mark
<1>0. agent[s] \in Agent /\ ack \in [Msg -> {"none", "processing", "completed"}]
  BY DEF ClaimsInv, DoneInv, AgentTyped, RowsTyped
<1>1. /\ agent[s].pc \in {"none", "boot", "hung"} =>
           agent[s].batch = {} /\ agent[s].follow = {} /\ agent[s].stale = {}
      /\ agent[s].pc # "query" => agent[s].follow = {}
      /\ agent[s].pc \notin {"scripts", "query"} => agent[s].batch = {}
      /\ agent[s].batch \cap agent[s].follow = {}
      /\ agent[s].batch \cap agent[s].stale = {}
      /\ agent[s].follow \cap agent[s].stale = {}
  BY DEF ClaimsInv, DoneInv, Shaped, WorkedOnOnce, Working
<1>2. \A m \in agent[s].batch \cup agent[s].follow \cup agent[s].stale :
        m \in Msg /\ ack[m] # "none" /\ status[m] \notin {"none", "failed"}
  BY <1>0 DEF ClaimsInv, DoneInv, Held, Working, Agent
<1>3. \A m \in Msg : /\ status[m] = "none" => ack[m] = "none"
                     /\ status[m] = "failed" => ack[m] # "completed"
  BY DEF ClaimsInv, DoneInv, Agree
<1>4. CASE Boot(s)
  <2> DEFINE new == [agent[s] EXCEPT !.pc = "poll"]
  <2>1. new \in Agent /\ new.batch = {} /\ new.follow = {} /\ new.stale = {} /\ new.pc = "poll"
    BY <1>0, <1>1, <1>4 DEF Agent, Boot, Runs
  <2>2. \A m \in Msg : ack'[m] \in {"none", ack[m]}
    BY <1>4 DEF Boot
  <2>3. Does(s, new) /\ proc[s] # "off" /\ UNCHANGED <<host, proc, status, seq, sweep>>
    BY <1>4 DEF Boot, Runs
  <2> HIDE DEF new
  <2> QED
    BY <1>3, <2>1, <2>2, <2>3, AgentKeeps
<1>5. CASE Poll(s)
  <2> DEFINE fetched == Fetched(agent[s].first) \ Answer
             normal  == fetched \ Clear
             after   == [agent[s] EXCEPT !.first = FALSE]
             taken   == [agent[s] EXCEPT !.first = FALSE, !.pc = "scripts", !.batch = normal]
  <2>1. /\ agent[s].pc = "poll" /\ proc[s] # "off"
        /\ UNCHANGED <<host, proc, status, seq, sweep>>
    BY <1>5 DEF Poll, Runs
  <2>2. after \in Agent /\ after.batch = {} /\ after.follow = {} /\ after.stale = agent[s].stale
        /\ after.pc = "poll"
    BY <1>0, <1>1, <2>1 DEF Agent
  <2>3. normal \subseteq Msg /\ \A m \in normal : status[m] = "pending" /\ ack[m] = "none"
    BY FetchedAreFree
  <2>4. taken \in Agent /\ taken.batch = normal /\ taken.follow = {} /\ taken.stale = agent[s].stale
        /\ taken.pc = "scripts"
    BY <1>0, <1>1, <2>1, <2>3 DEF Agent
  <2>5. CASE Does(s, after) /\ ack' = ack
    <3> HIDE DEF after
    <3> QED
      BY <1>2, <1>3, <2>1, <2>2, <2>5, AgentKeeps
  <2>6. CASE /\ ack' = [m \in Msg |-> IF m \in fetched \cap Clear THEN "completed"
                                      ELSE IF m \in fetched THEN "processing" ELSE ack[m]]
             /\ Does(s, after) \/ Does(s, taken)
    <3>1. /\ \A m \in Msg : ack'[m] = ack[m] \/ status[m] = "pending"
          /\ \A m \in normal : ack'[m] = "processing"
          /\ \A m \in Msg : ack[m] # "none" => ack'[m] # "none"
      BY <2>3, <2>6, FetchedAreFree
    <3>2. normal \cap agent[s].stale = {}
      BY <1>2, <2>3
    <3> HIDE DEF after, taken, normal
    <3>3. CASE Does(s, after)
      BY <1>2, <1>3, <2>1, <2>2, <3>1, <3>3, AgentKeeps
    <3>4. CASE Does(s, taken)
      BY <1>2, <1>3, <2>1, <2>3, <2>4, <3>1, <3>2, <3>4, AgentKeeps
    <3> QED
      BY <2>6, <3>3, <3>4
  <2> QED
    BY <1>5, <2>5, <2>6 DEF Poll
<1>6. CASE Scripts(s)
  <2>1. PICK skipped \in SUBSET (agent[s].batch \cap Task) :
          LET keep == agent[s].batch \ skipped IN
          /\ SetAck(Mark(skipped, "completed"))
          /\ Does(s, IF keep = {} THEN [agent[s] EXCEPT !.pc = "poll", !.batch = {}]
                     ELSE [agent[s] EXCEPT !.pc = "query", !.batch = keep, !.turns = 1])
    BY <1>6 DEF Scripts
  <2> DEFINE rest == [agent[s] EXCEPT !.pc = "poll", !.batch = {}]
             asks == [agent[s] EXCEPT !.pc = "query", !.batch = agent[s].batch \ skipped, !.turns = 1]
  <2>2. agent[s].pc = "scripts" /\ proc[s] # "off" /\ UNCHANGED <<host, proc, status, seq, sweep>>
    BY <1>6 DEF Scripts, Runs
  <2>3. \A m \in Msg : \/ ack'[m] = ack[m]
                       \/ ack'[m] = "completed" /\ status[m] \notin {"none", "failed"}
    BY <1>2, <2>1
  <2>4. Does(s, rest) \/ Does(s, asks)
    BY <2>1
  <2>5. rest \in Agent /\ rest.batch = {} /\ rest.follow = {} /\ rest.stale = agent[s].stale
        /\ rest.pc = "poll"
    BY <1>0, <1>1, <2>2 DEF Agent
  <2>6. /\ asks.batch = agent[s].batch \ skipped /\ asks.follow = {}
        /\ asks.stale = agent[s].stale /\ asks.pc = "query"
    BY <1>0, <1>1, <2>2 DEF Agent
  <2>7. asks \in Agent
    <3>1. 1 \in 0..2 /\ agent[s].batch \ skipped \in SUBSET Msg
      BY <1>0 DEF Agent
    <3> QED
      BY <1>0, <3>1, Zenon DEF Agent
  <2> HIDE DEF rest, asks
  <2>8. CASE Does(s, rest)
    BY <1>1, <1>2, <1>3, <2>2, <2>3, <2>5, <2>8, AgentKeeps
  <2>9. CASE Does(s, asks)
    BY <1>1, <1>2, <1>3, <2>2, <2>3, <2>6, <2>7, <2>9, AgentKeeps
  <2> QED
    BY <2>4, <2>8, <2>9
<1>7. CASE Event(s) \/ ToolStarts(s) \/ ToolEnds(s)
  <2>1. Does(s, agent[s]) /\ proc[s] # "off" /\ UNCHANGED <<host, proc, status, seq, sweep, ack>>
    BY <1>7 DEF Event, ToolStarts, ToolEnds, Runs, Does, ClaimsInv, DoneInv, AgentTyped, outbound
  <2> QED
    BY <1>0, <1>1, <1>2, <1>3, <2>1, AgentKeeps
<1>8. CASE Result(s)
  <2>1. agent[s].pc = "query" /\ proc[s] # "off" /\ UNCHANGED <<host, proc, status, seq, sweep>>
    BY <1>8 DEF Result, Runs
  <2>2. \A m \in Msg : \/ ack'[m] = ack[m]
                       \/ ack'[m] = "completed" /\ status[m] \notin {"none", "failed"}
    BY <1>2, <1>8 DEF Result
  <2>3. PICK new \in Agent :
          /\ Does(s, new) /\ new.pc = "query" /\ new.batch = agent[s].batch
          /\ new.follow = agent[s].follow /\ new.stale = agent[s].stale
    <3>1. agent[s].turns - 1 \in 0..2
      BY <1>0, <1>8 DEF Result, Agent
    <3>2. CASE Does(s, [agent[s] EXCEPT !.turns = @ - 1])
      BY <1>0, <2>1, <3>1, <3>2 DEF Agent
    <3>3. CASE Does(s, [agent[s] EXCEPT !.nudged = TRUE])
      <4> DEFINE new == [agent[s] EXCEPT !.nudged = TRUE]
      <4>1. /\ new \in Agent /\ new.pc = "query" /\ new.batch = agent[s].batch
            /\ new.follow = agent[s].follow /\ new.stale = agent[s].stale
        BY <1>0, <2>1 DEF Agent
      <4>2. Does(s, new)
        BY <3>3
      <4> HIDE DEF new
      <4> QED
        BY <4>1, <4>2
    <3> QED
      BY <1>8, <3>2, <3>3 DEF Result
  <2> QED
    BY <1>1, <1>2, <1>3, <2>1, <2>2, <2>3, AgentKeeps
<1>9. CASE QueryEnd(s)
  <2> DEFINE new == [agent[s] EXCEPT !.pc = "poll", !.batch = {}, !.turns = 0, !.follow = {},
                             !.stale = @ \cup agent[s].follow, !.ended = FALSE, !.nudged = FALSE,
                             !.asking = FALSE]
  <2>1. Does(s, new) /\ agent[s].pc = "query" /\ proc[s] # "off" /\ UNCHANGED <<host, proc, status, seq, sweep>>
    BY <1>9 DEF QueryEnd, Runs
  <2>2. \A m \in Msg : \/ ack'[m] = ack[m]
                       \/ ack'[m] = "completed" /\ status[m] \notin {"none", "failed"}
    BY <1>2, <1>9 DEF QueryEnd
  <2>3. new.pc = "poll" /\ new.batch = {} /\ new.follow = {}
        /\ new.stale = agent[s].stale \cup agent[s].follow
    BY <1>0 DEF Agent
  <2>4. new \in Agent
    <3>1. 0 \in 0..2 /\ agent[s].stale \cup agent[s].follow \in SUBSET Msg
      BY <1>0 DEF Agent
    <3> QED
      BY <1>0, <3>1, Zenon DEF Agent
  <2> HIDE DEF new
  <2> QED
    BY <1>1, <1>2, <1>3, <2>1, <2>2, <2>3, <2>4, AgentKeeps
<1>10. CASE FollowPoll(s)
  <2> DEFINE fetched == Fetched(FALSE) \ Answer
             ends    == [agent[s] EXCEPT !.ended = TRUE]
             takes   == [agent[s] EXCEPT !.follow = fetched]
  <2>1. agent[s].pc = "query" /\ agent[s].follow = {} /\ proc[s] # "off" /\ UNCHANGED <<host, proc, status, seq, sweep>>
    BY <1>10 DEF FollowPoll, Runs
  <2>2. fetched \subseteq Msg /\ \A m \in fetched : status[m] = "pending" /\ ack[m] = "none"
    BY FetchedAreFree
  <2>3. /\ ends \in Agent /\ ends.pc = "query" /\ ends.batch = agent[s].batch
        /\ ends.follow = {} /\ ends.stale = agent[s].stale
    BY <1>0, <2>1 DEF Agent
  <2>4. /\ takes \in Agent /\ takes.pc = "query" /\ takes.batch = agent[s].batch
        /\ takes.follow = fetched /\ takes.stale = agent[s].stale
    BY <1>0, <2>1, <2>2 DEF Agent
  <2>5. CASE Does(s, ends) /\ ack' = ack
    <3> HIDE DEF ends
    <3> QED
      BY <1>1, <1>2, <1>3, <2>1, <2>3, <2>5, AgentKeeps
  <2>6. CASE Does(s, takes) /\ ack' = [m \in Msg |-> IF m \in fetched THEN "processing" ELSE ack[m]]
    <3>1. /\ \A m \in Msg : ack'[m] = ack[m] \/ (status[m] = "pending" /\ ack'[m] = "processing")
          /\ \A m \in fetched : ack'[m] = "processing"
      BY <2>2, <2>6
    <3>2. fetched \cap agent[s].stale = {} /\ fetched \cap agent[s].batch = {}
      BY <1>2, <2>2
    <3> HIDE DEF takes, fetched
    <3> QED
      BY <1>1, <1>2, <1>3, <2>1, <2>2, <2>4, <2>6, <3>1, <3>2, AgentKeeps
  <2> QED
    BY <1>10, <2>5, <2>6 DEF FollowPoll
<1>11. CASE FollowPush(s)
  <2>1. agent[s].pc = "query" /\ proc[s] # "off" /\ UNCHANGED <<host, proc, status, seq, sweep>>
    BY <1>11 DEF FollowPush, Runs
  <2>2. \A m \in Msg : \/ ack'[m] = ack[m]
                       \/ ack'[m] = "completed" /\ status[m] \notin {"none", "failed"}
    BY <1>2, <1>11 DEF FollowPush
  <2>3. PICK new \in Agent :
          /\ Does(s, new) /\ new.pc = "query" /\ new.batch = agent[s].batch
          /\ new.follow = {} /\ new.stale = agent[s].stale
    <3>1. (IF agent[s].turns = 2 THEN agent[s].turns ELSE agent[s].turns + 1) \in 0..2
      BY <1>0 DEF Agent
    <3>2. CASE Does(s, [agent[s] EXCEPT !.follow = {}])
      BY <1>0, <2>1, <3>2 DEF Agent
    <3>3. CASE Does(s, [agent[s] EXCEPT !.follow = {}, !.nudged = FALSE,
                                        !.turns = IF @ = 2 THEN @ ELSE @ + 1])
      <4> DEFINE new == [agent[s] EXCEPT !.follow = {}, !.nudged = FALSE,
                                         !.turns = IF @ = 2 THEN @ ELSE @ + 1]
      <4>1. /\ new \in Agent /\ new.pc = "query" /\ new.batch = agent[s].batch
            /\ new.follow = {} /\ new.stale = agent[s].stale
        BY <1>0, <2>1, <3>1 DEF Agent
      <4>2. Does(s, new)
        BY <3>3
      <4> HIDE DEF new
      <4> QED
        BY <4>1, <4>2
    <3> QED
      BY <1>11, <3>2, <3>3 DEF FollowPush
  <2> QED
    BY <1>1, <1>2, <1>3, <2>1, <2>2, <2>3, AgentKeeps
<1>12. CASE StaleReturn(s)
  <2> DEFINE new == [agent[s] EXCEPT !.stale = {}]
  <2>1. Does(s, new) /\ proc[s] # "off" /\ UNCHANGED <<host, proc, status, seq, sweep>>
    BY <1>12 DEF StaleReturn
  <2>2. \A m \in Msg : \/ ack'[m] = ack[m]
                       \/ ack'[m] = "completed" /\ status[m] \notin {"none", "failed"}
    BY <1>2, <1>12 DEF StaleReturn
  <2>3. /\ new \in Agent /\ new.pc = agent[s].pc /\ new.batch = agent[s].batch
        /\ new.follow = agent[s].follow /\ new.stale = {}
    BY <1>0 DEF Agent
  <2> HIDE DEF new
  <2> QED
    BY <1>1, <1>2, <1>3, <2>1, <2>2, <2>3, AgentKeeps
<1>13. CASE Ask(s) \/ AskTimeout(s)
  <2>1. ack' = ack /\ proc[s] # "off" /\ UNCHANGED <<host, proc, status, seq, sweep>>
    BY <1>13 DEF Ask, AskTimeout, Runs, outbound
  <2>2. PICK asks \in BOOLEAN : Does(s, [agent[s] EXCEPT !.asking = asks])
    BY <1>13 DEF Ask, AskTimeout
  <2> DEFINE new == [agent[s] EXCEPT !.asking = asks]
  <2>3. /\ new \in Agent /\ new.pc = agent[s].pc /\ new.batch = agent[s].batch
        /\ new.follow = agent[s].follow /\ new.stale = agent[s].stale
    BY <1>0 DEF Agent
  <2>4. Does(s, new)
    BY <2>2
  <2> HIDE DEF new
  <2> QED
    BY <1>1, <1>2, <1>3, <2>1, <2>3, <2>4, AgentKeeps
<1>14. ASSUME NEW a \in Msg, TakeAnswer(s, a) PROVE Rest'
  <2> DEFINE new == [agent[s] EXCEPT !.asking = FALSE]
  <2>1. Does(s, new) /\ proc[s] # "off" /\ UNCHANGED <<host, proc, status, seq, sweep>>
    BY <1>14 DEF TakeAnswer, Runs
  <2>2. \A m \in Msg : \/ ack'[m] = ack[m]
                       \/ ack'[m] = "completed" /\ status[m] = "pending"
    BY <1>14 DEF TakeAnswer
  <2>3. /\ new \in Agent /\ new.pc = agent[s].pc /\ new.batch = agent[s].batch
        /\ new.follow = agent[s].follow /\ new.stale = agent[s].stale
    BY <1>0 DEF Agent
  <2> HIDE DEF new
  <2> QED
    BY <1>1, <1>2, <1>3, <2>1, <2>2, <2>3, AgentKeeps
<1> QED
  BY <1>4, <1>5, <1>6, <1>7, <1>8, <1>9, <1>10, <1>11, <1>12, <1>13, <1>14 DEF AgentStep

(* The sweep's cleanup: every process is dead, so nothing is worked on. *)
LEMMA ClaimsInvReset == ClaimsInv /\ SweepReset => Rest'
<1> SUFFICES ASSUME ClaimsInv, SweepReset PROVE Rest'
  OBVIOUS
<1> USE DEF ClaimsInv, DoneInv
<1>1. UNCHANGED <<agent, proc, seq>> /\ \A s \in Slot : agent[s] = NoAgent
  BY DEF SweepReset, SweepSafe, Shaped, runnerVars
<1>2. \A s \in Slot : /\ Working(s)' = {} /\ agent'[s].batch = {} /\ agent'[s].follow = {}
                      /\ agent'[s].stale = {} /\ agent'[s].pc \in {"none", "boot"}
  BY <1>1, EmptyHanded DEF Working
<1>3. Shaped' /\ Held' /\ WorkedOnOnce'
  BY <1>1, <1>2 DEF Shaped, Held, WorkedOnOnce
<1>4. Agree'
  <2>1. \A m \in Msg : /\ status'[m] = status[m] \/ (status'[m] = "failed" /\ status[m] = "pending"
                                                     /\ ack[m] = "processing")
                       /\ ack'[m] = ack[m] \/ ack'[m] = "none"
    BY DEF SweepReset, SetAck, Mark, Retried, Claims, RowsTyped
  <2> QED
    BY <1>1, <2>1 DEF Agree
<1>5. SweepTyped' /\ SweepSafe'
  BY DEF SweepReset, SweepTyped, SweepSafe, Idle, Verdict
<1> QED
  BY <1>3, <1>4, <1>5 DEF Rest

LEMMA ClaimsInvSync == ClaimsInv /\ SweepSync => Rest'
<1> SUFFICES ASSUME ClaimsInv, SweepSync PROVE Rest'
  OBVIOUS
<1> USE DEF ClaimsInv, DoneInv
<1>1. UNCHANGED <<agent, proc, seq, ack>> /\ \A s \in Slot : Working(s)' = Working(s)
  BY DEF SweepSync, runnerVars, outbound, Working
<1>2. \A m \in Msg : status'[m] = status[m] \/ (status'[m] = "completed" /\ ack[m] = "completed")
  BY DEF SweepSync
<1>3. Shaped' /\ WorkedOnOnce'
  BY <1>1 DEF Shaped, WorkedOnOnce
<1>4. Held'
  <2>1. \A s \in Slot : Working(s) \subseteq Msg
    BY DEF Working, AgentTyped, Agent
  <2> QED
    BY <1>1, <1>2, <2>1 DEF Held
<1>5. Agree'
  BY <1>1, <1>2 DEF Agree
<1>6. SweepTyped' /\ SweepSafe'
  BY DEF SweepSync, SweepTyped, SweepSafe, runnerVars
<1> QED
  BY <1>3, <1>4, <1>5, <1>6 DEF Rest

(* Other steps of the sweep. It reaches its cleanup either because the map has
   no entry, and then no process runs, or after it killed the one that did.   *)
LEMMA ClaimsInvSweep ==
  ASSUME Reliable, ClaimsInv, AgentTyped', SweepWake \/ SweepWoken \/ SweepCheck \/ SweepKill
  PROVE  Rest'
<1> USE DEF inbound, outbound
<1>1. Shaped' /\ Held' /\ Agree' /\ WorkedOnOnce'
  <2>1. ack' = ack /\ UNCHANGED <<status, seq>>
    BY DEF SweepWake, SweepWoken, SweepCheck, SweepKill
  <2>2. ProcsFollow \/ UNCHANGED <<agent, proc>>
    BY DEF SweepWake, SweepWoken, SweepCheck, SweepKill, CallWake, Wake, runnerVars
  <2> QED
    BY <2>1, <2>2, HostKeeps
<1> USE DEF ClaimsInv, DoneInv
<1>2. SweepTyped'
  <2>1. CASE SweepWake \/ SweepWoken
    BY <2>1 DEF SweepWake, SweepWoken, SweepTyped
  <2>2. CASE SweepCheck
    <3>1. Decision \in Verdict
      BY DEF Decision, Verdict
    <3> QED
      BY <2>2, <3>1 DEF SweepCheck, SweepTyped, Idle, Verdict
  <2>3. CASE SweepKill
    BY <2>3 DEF SweepKill, SweepTyped, Idle, Verdict
  <2> QED
    BY <2>1, <2>2, <2>3
<1>3. SweepSafe'
  <2>1. CASE SweepWake \/ SweepWoken
    BY <2>1 DEF SweepWake, SweepWoken, CallWake, Wake, runnerVars, SweepSafe, SweepTyped
  <2>2. CASE SweepCheck
    <3>1. host = "up" /\ UNCHANGED <<host, proc, active>>
      BY <2>2 DEF SweepCheck, SweepSafe, runnerVars
    <3>2. active = NoSlot => \A s \in Slot : proc[s] = "off"
      BY <3>1, NoSlotIsNone DEF ProcInv, Tracked
    <3> QED
      BY <2>2, <3>1, <3>2 DEF SweepCheck, SweepSafe, Idle
  <2>3. CASE SweepKill
    <3>1. host = "up" /\ host' = "up" /\ active \in Slot
      BY <2>3 DEF SweepKill, Kill, ProcInv, MapsInv, Shape
    <3>2. proc' = [proc EXCEPT ![active] = IF @ = "alive" THEN "off" ELSE @]
      BY <2>3 DEF SweepKill, Kill, StopProc, AfterStop, Reliable
    <3>3. \A s \in Slot : proc'[s] = "off"
      BY <3>1, <3>2 DEF ProcInv, Tracked, MapsInv, Shape, ProcState
    <3> QED
      BY <3>1, <3>3 DEF SweepSafe
  <2> QED
    BY <2>1, <2>2, <2>3
<1> QED
  BY <1>1, <1>2, <1>3 DEF Rest

LEMMA ClaimsInvStep == Reliable /\ ClaimsInv /\ [SessionNext]_vars => ClaimsInv'
<1> SUFFICES ASSUME Reliable, ClaimsInv, [SessionNext]_vars PROVE ClaimsInv'
  OBVIOUS
<1>a. ProcInv' /\ DoneInv' /\ AgentTyped'
  <2>1. ProcInv'
    BY RunnerStep, ProcInvStep DEF ClaimsInv
  <2>2. DoneInv'
    BY DoneInvStep DEF ClaimsInv
  <2> QED
    BY <2>1, <2>2 DEF DoneInv
<1> SUFFICES Rest'
  BY <1>a DEF ClaimsInv, Rest
(* A step of the host outside the sweep. *)
<1>c. ASSUME sweep.pc # "reset", sweep' = sweep \/ (sweep' = Idle), sweep' = sweep => host' = host,
             ack' = ack,
             \/ UNCHANGED <<status, seq>>
             \/ \E m \in Msg, n \in Nat \ {0} :
                  status' = [status EXCEPT ![m] = "pending"] /\ seq' = [seq EXCEPT ![m] = n],
             ProcsFollow \/ UNCHANGED <<agent, proc>>
      PROVE  Rest'
  <2>1. SweepTyped' /\ SweepSafe'
    BY <1>c DEF ClaimsInv, DoneInv, SweepTyped, SweepSafe, Idle, Verdict
  <2> QED
    BY <1>a, <1>c, <2>1, HostKeeps DEF Rest
<1> USE DEF inbound, outbound, HostStep, HostFree
<1>1. CASE Spawned \/ SpawnSettles \/ SpawnFails \/ Stopped
  <2>1. host' = host
    BY <1>1 DEF Spawned, SpawnSettles, SpawnFails, Stopped, SpawnDocker, JobAccepted, JobResponse,
                SpawnRefused, JobResponseLost, Kill
  <2> QED
    BY <1>1, <1>c, <2>1 DEF Spawned, SpawnSettles, SpawnFails, Stopped
<1>2. ASSUME NEW s \in Slot, HandlesExit(s) PROVE Rest'
  <2>1. host' = host
    BY <1>2 DEF HandlesExit, ExitHandled
  <2> QED
    BY <1>2, <1>c, <2>1 DEF HandlesExit
<1>3. ASSUME NEW m \in Msg, Insert(m) \/ Restart(m) PROVE Rest'
  <2>1. Cardinality(Written) + 1 \in Nat \ {0}
    <3>1. IsFiniteSet(Written)
      BY KindsAssumption, FS_Subset DEF Written
    <3> QED
      BY <3>1, FS_CardinalityType
  <2>2. host' = host
    BY <1>3 DEF Insert, Restart, runnerVars, Kill
  <2>3. ProcsFollow \/ UNCHANGED <<agent, proc>>
    BY <1>3 DEF Insert, Restart, runnerVars
  <2>4. /\ sweep.pc # "reset" /\ sweep' = sweep /\ ack' = ack
        /\ status' = [status EXCEPT ![m] = "pending"]
        /\ seq' = [seq EXCEPT ![m] = Cardinality(Written) + 1]
    BY <1>3 DEF Insert, Restart
  <2> QED
    BY <1>c, <2>1, <2>2, <2>3, <2>4
<1>4. CASE RouterWake \/ HostDies \/ HostBoots
  <2>1. CASE RouterWake
    BY <1>c, <2>1 DEF RouterWake, CallWake, Wake, runnerVars
  <2>2. CASE HostDies
    <3>1. Shaped' /\ Held' /\ Agree' /\ WorkedOnOnce'
      BY <1>a, <2>2, HostKeeps DEF HostDies, HostCrash
    <3> QED
      BY <2>2, <3>1 DEF HostDies, Idle, SweepTyped, SweepSafe, Verdict, Rest
  <2>3. CASE HostBoots
    <3>1. sweep.pc = "idle"
      BY <2>3 DEF HostBoots, HostRestart, ClaimsInv, DoneInv, SweepSafe
    <3>2. Shaped' /\ Held' /\ Agree' /\ WorkedOnOnce'
      BY <1>a, <2>3, HostKeeps DEF HostBoots
    <3> QED
      BY <2>3, <3>1, <3>2 DEF HostBoots, SweepTyped, SweepSafe, ClaimsInv, DoneInv, Rest
  <2> QED
    BY <1>4, <2>1, <2>2, <2>3
<1>5. CASE SweepStep
  BY <1>a, <1>5, ClaimsInvSync, ClaimsInvReset, ClaimsInvSweep DEF SweepStep
<1>6. ASSUME NEW s \in Slot, AgentStep(s) PROVE Rest'
  BY <1>6, ClaimsInvAgent
<1>7. ASSUME NEW s \in Slot, Dies(s) PROVE Rest'
  <2>1. Shaped' /\ Held' /\ Agree' /\ WorkedOnOnce'
    BY <1>a, <1>7, HostKeeps DEF Dies
  <2>2. \A t \in Slot : proc[t] = "off" => proc'[t] = "off"
    BY <1>7 DEF Dies, ProcExit, ClaimsInv, DoneInv, ProcInv, MapsInv, Shape
  <2> QED
    BY <1>7, <2>1, <2>2 DEF Dies, ProcExit, SweepTyped, SweepSafe, ClaimsInv, DoneInv, Rest
<1>8. ASSUME NEW s \in Slot, Hangs(s) PROVE Rest'
  <2> DEFINE new == [NoAgent EXCEPT !.pc = "hung"]
  <2>1. new \in Agent /\ new.pc = "hung" /\ new.batch = {} /\ new.follow = {} /\ new.stale = {}
    BY AgentRecords DEF NoAgent
  <2>2. Does(s, new) /\ proc[s] # "off" /\ UNCHANGED <<host, proc, status, seq, sweep, ack>>
    BY <1>8 DEF Hangs, runnerVars
  <2> HIDE DEF new
  <2> QED
    BY <2>1, <2>2, AgentKeeps DEF ClaimsInv, DoneInv, Agree
<1>9. CASE Tick \/ UNCHANGED vars
  <2>1. UNCHANGED <<host, proc, status, seq, ack, agent, sweep>>
    BY <1>9 DEF Tick, vars, runnerVars
  <2>2. Shaped' /\ Held' /\ Agree' /\ WorkedOnOnce'
    BY <1>a, <2>1, HostKeeps
  <2> QED
    BY <2>1, <2>2 DEF SweepTyped, SweepSafe, ClaimsInv, DoneInv, Rest
<1> QED
  BY <1>1, <1>2, <1>3, <1>4, <1>5, <1>6, <1>7, <1>8, <1>9 DEF SessionNext

-----------------------------------------------------------------------------
(* With docker, and as long as `docker stop` works: two containers of one
   session never run at once, also with the sweep, the router and restarts
   acting on them, ...                                                       *)
THEOREM SessionSingleContainer == ASSUME Reliable PROVE SessionSpec => []SingleContainer
BY SessionImplementsRunner, SingleContainerHolds, PTL

(* ... a row that a live container works on keeps its acknowledgement, ... *)
THEOREM ClaimHeldHolds == ASSUME Reliable PROVE SessionSpec => []ClaimHeld
<1>1. ClaimsInv => ClaimHeld
  BY DEF ClaimsInv, Held, ClaimHeld
<1> QED
  BY <1>1, ClaimsInvInit, ClaimsInvStep, PTL DEF SessionSpec

(* ... no row is worked on twice at once, ... *)
THEOREM WorkedOnOnceHolds == ASSUME Reliable PROVE SessionSpec => []WorkedOnOnce
<1>1. ClaimsInv => WorkedOnOnce
  BY DEF ClaimsInv
<1> QED
  BY <1>1, ClaimsInvInit, ClaimsInvStep, PTL DEF SessionSpec

(* ... the host deletes claims only when no container runs, ... *)
THEOREM HostWritesAloneHolds == ASSUME Reliable PROVE SessionSpec => HostWritesAlone
<1>1. ClaimsInv => (sweep.pc = "reset" /\ sweep'.pc = "idle" => \A s \in Slot : proc[s] = "off")
  BY DEF ClaimsInv, SweepSafe
<1>2. ClaimsInv /\ [SessionNext]_vars
        => [sweep.pc = "reset" /\ sweep'.pc = "idle" => \A s \in Slot : proc[s] = "off"]_vars
  BY <1>1
<1> QED
  BY <1>2, ClaimsInvInit, ClaimsInvStep, PTL DEF SessionSpec, HostWritesAlone

(* What one step may do to one row, in both databases. *)
Effect(m) ==
  \/ status'[m] = status[m] /\ ack'[m] = ack[m]
  \/ status[m] = "none" /\ status'[m] = "pending" /\ ack'[m] = ack[m]
  \/ status'[m] = status[m] /\ ack[m] = "processing" /\ ack'[m] = "none"
  \/ status[m] = "pending" /\ status'[m] = "pending" /\ ack[m] = "none" /\ ack'[m] = "processing"
  \/ status'[m] = status[m] /\ status[m] \notin {"none", "failed"} /\ ack[m] # "none" /\ ack'[m] = "completed"
  \/ /\ m \in Clear \cup Answer
     /\ status[m] = "pending" /\ status'[m] = "pending" /\ ack[m] = "none" /\ ack'[m] = "completed"
  \/ status'[m] = "completed" /\ ack[m] = "completed" /\ ack'[m] = "completed"
  \/ /\ status[m] = "pending" /\ status'[m] = "failed"
     /\ ack[m] = "processing" /\ ack'[m] \in {"none", "processing"}

LEMMA AgentEffects ==
  ASSUME ClaimsInv, NEW s \in Slot, AgentStep(s), NEW m \in Msg
  PROVE  Effect(m)
<1> USE DEF AgentOnly, inbound, SetAck, Mark, Effect
<1>0. ack \in [Msg -> {"none", "processing", "completed"}]
  BY DEF ClaimsInv, DoneInv, RowsTyped
<1>1. m \in agent[s].batch \cup agent[s].follow \cup agent[s].stale =>
        ack[m] # "none" /\ status[m] \notin {"none", "failed"}
  BY DEF ClaimsInv, Held, Working
<1>2. \A first : m \in Fetched(first) => status[m] = "pending" /\ ack[m] = "none"
  BY FetchedAreFree
<1>3. CASE Boot(s)
  BY <1>0, <1>3 DEF Boot, Claims
<1>4. CASE Poll(s)
  BY <1>0, <1>2, <1>4 DEF Poll
<1>5. CASE Scripts(s)
  BY <1>0, <1>1, <1>5 DEF Scripts
<1>6. CASE Event(s) \/ ToolStarts(s) \/ ToolEnds(s) \/ Ask(s) \/ AskTimeout(s)
  BY <1>6 DEF Event, ToolStarts, ToolEnds, Ask, AskTimeout, outbound
<1>7. CASE Result(s)
  BY <1>0, <1>1, <1>7 DEF Result
<1>8. CASE QueryEnd(s)
  BY <1>0, <1>1, <1>8 DEF QueryEnd
<1>9. CASE FollowPoll(s)
  BY <1>0, <1>2, <1>9 DEF FollowPoll
<1>10. CASE FollowPush(s)
  BY <1>0, <1>1, <1>10 DEF FollowPush
<1>11. CASE StaleReturn(s)
  BY <1>0, <1>1, <1>11 DEF StaleReturn
<1>12. ASSUME NEW a \in Msg, TakeAnswer(s, a) PROVE Effect(m)
  BY <1>0, <1>12 DEF TakeAnswer
<1> QED
  BY <1>3, <1>4, <1>5, <1>6, <1>7, <1>8, <1>9, <1>10, <1>11, <1>12 DEF AgentStep

LEMMA Effects ==
  ASSUME ClaimsInv, [SessionNext]_vars, NEW m \in Msg
  PROVE  Effect(m)
<1> USE DEF inbound, outbound, HostStep, Effect
<1>1. CASE Spawned \/ SpawnSettles \/ SpawnFails \/ Stopped \/ RouterWake \/ HostDies \/ HostBoots
  BY <1>1 DEF Spawned, SpawnSettles, SpawnFails, Stopped, RouterWake, HostDies, HostBoots
<1>2. ASSUME NEW s \in Slot, HandlesExit(s) \/ Dies(s) \/ Hangs(s) PROVE Effect(m)
  BY <1>2 DEF HandlesExit, Dies, Hangs
<1>3. ASSUME NEW n \in Msg, Insert(n) \/ Restart(n) PROVE Effect(m)
  <2>1. status[n] = "none" /\ status \in [Msg -> {"none", "pending", "completed", "failed"}]
    BY <1>3 DEF Insert, Restart, ClaimsInv, DoneInv, RowsTyped, Agree
  <2> QED
    BY <1>3, <2>1 DEF Insert, Restart
<1>4. CASE SweepSync
  BY <1>4 DEF SweepSync
<1>5. CASE SweepWake \/ SweepWoken \/ SweepCheck \/ SweepKill
  BY <1>5 DEF SweepWake, SweepWoken, SweepCheck, SweepKill
<1>6. CASE SweepReset
  BY <1>6 DEF SweepReset, Retried, Claims, SetAck, Mark
<1>7. ASSUME NEW s \in Slot, AgentStep(s) PROVE Effect(m)
  BY <1>7, AgentEffects
<1>8. CASE Tick \/ UNCHANGED vars
  BY <1>8 DEF Tick, vars
<1> QED
  BY <1>1, <1>2, <1>3, <1>4, <1>5, <1>6, <1>7, <1>8 DEF SessionNext, SweepStep

(* ... a row that was given up stays given up, ... *)
THEOREM FailedIsFinalHolds == ASSUME Reliable PROVE SessionSpec => FailedIsFinal
<1>1. ClaimsInv /\ [SessionNext]_vars => \A m \in Msg : status[m] = "failed" => status'[m] = "failed"
  <2> SUFFICES ASSUME ClaimsInv, [SessionNext]_vars, NEW m \in Msg, status[m] = "failed"
               PROVE  status'[m] = "failed"
    OBVIOUS
  <2>1. ack[m] # "completed"
    BY DEF ClaimsInv, Agree
  <2> QED
    BY <2>1, Effects DEF Effect
<1>2. ClaimsInv /\ [SessionNext]_vars
        => [\A m \in Msg : status[m] = "failed" => status'[m] = "failed"]_vars
  BY <1>1
<1> QED
  BY <1>2, ClaimsInvInit, ClaimsInvStep, PTL DEF SessionSpec, FailedIsFinal

(* ... and the two databases together implement the documented lifecycle of a
   row: every step moves each row along one arrow of it, or leaves it.       *)
THEOREM LifecycleImplemented == ASSUME Reliable PROVE SessionSpec => ImplementsLifecycle
<1> DEFINE stages == [m \in Msg |-> Stage(m)]
<1>1. SessionInit => Lifecycle!Init
  BY DEF SessionInit, Lifecycle!Init, Stage
<1>2. ClaimsInv /\ [SessionNext]_vars => Lifecycle!Next \/ UNCHANGED stages
  <2> SUFFICES ASSUME ClaimsInv, [SessionNext]_vars PROVE Lifecycle!Next
    OBVIOUS
  <2>1. ASSUME NEW m \in Msg
        PROVE  Stage(m)' = Stage(m) \/ <<Stage(m), Stage(m)'>> \in Lifecycle!Moves(m)
    <3>1. Effect(m)
      BY Effects
    <3>2. /\ status[m] \in {"none", "pending", "completed", "failed"}
          /\ ack[m] \in {"none", "processing", "completed"}
          /\ status[m] = "none" => ack[m] = "none"
          /\ status[m] = "failed" => ack[m] # "completed"
      BY DEF ClaimsInv, DoneInv, RowsTyped, Agree
    <3> QED
      BY <3>1, <3>2 DEF Effect, Stage, Lifecycle!Moves
  <2>2. \A m \in Msg : Stage(m)' \in Lifecycle!Stages
    BY DEF Stage, Lifecycle!Stages
  <2> QED
    BY <2>1, <2>2 DEF Lifecycle!Next
<1> QED
  BY <1>1, <1>2, ClaimsInvInit, ClaimsInvStep, PTL DEF SessionSpec, ImplementsLifecycle, Lifecycle!Spec
==============================================================================
