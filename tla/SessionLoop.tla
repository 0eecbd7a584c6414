----------------------------- MODULE SessionLoop -----------------------------
(***************************************************************************)
(* The two-database protocol of ONE session: the host writes messages_in   *)
(* (inbound.db), the container acknowledges in processing_ack              *)
(* (outbound.db), and the host sweep (src/src/host-sweep.ts) reconciles    *)
(* the two, wakes containers for due work, kills silent ones and retries   *)
(* what a dead one had claimed.  It is composed with ContainerRunner,      *)
(* which decides what processes exist; here each process also runs the     *)
(* poll loop of container/agent-runner/src/poll-loop.ts.                   *)
(*                                                                         *)
(* Time is a clock tick that ages the heartbeat file and the claims and    *)
(* counts process_after down; ages saturate at AgeCap, above which no      *)
(* comparison of the code tells two ages apart.                            *)
(***************************************************************************)
EXTENDS ContainerRunner, FiniteSets

CONSTANTS
  Chat,          \* ordinary messages: trigger = 1, on_wake = 0
  Clear,         \* chat messages holding the /clear command
  Task,          \* kind 'task' rows with a pre-task script
  Context,       \* trigger = 0 rows (accumulated context)
  OnWake,        \* on_wake = 1 rows of a restart
  Answer,        \* kind 'system' rows: the answer to ask_user_question
  BatchLimit,    \* maxMessagesPerPrompt
  MaxTries,      \* MAX_TRIES
  BackoffBase,   \* BACKOFF_BASE_MS, in ticks
  ClaimStuck,    \* CLAIM_STUCK_MS, in ticks
  IdleThreshold, \* IDLE_THRESHOLD_MS, in ticks
  Ceiling,       \* ABSOLUTE_CEILING_MS, in ticks
  BashTimeout,   \* the timeout a Bash call may declare, in ticks; 0: none does
  MaxFaults      \* bound: crashes, hangs and refused spawns

Msg == Chat \cup Clear \cup Task \cup Context \cup OnWake \cup Answer

ASSUME KindsAssumption ==
  /\ IsFiniteSet(Msg)
  /\ \A m \in Msg : Cardinality({K \in {Chat, Clear, Task, Context, OnWake, Answer} : m \in K}) = 1
ASSUME NumbersAssumption ==
  /\ {BatchLimit, ClaimStuck, IdleThreshold, Ceiling, BackoffBase} \subseteq Nat \ {0}
  /\ {MaxTries, MaxFaults, BashTimeout} \subseteq Nat
  /\ ClaimStuck <= Ceiling /\ IdleThreshold <= Ceiling

Larger(a, b) == IF a >= b THEN a ELSE b
AgeCap == 1 + Larger(Ceiling, BashTimeout)
NoHeartbeat == AgeCap + 1   \* no file: an age nothing reaches

VARIABLES
  (* inbound.db: messages_in, written by the host *)
  seq,        \* seq, 0 while the row does not exist
  status,     \* status
  tries,      \* tries
  due,        \* ticks until process_after; 0: null or in the past
  (* outbound.db: written by the container, and by the sweep's cleanup *)
  ack,        \* processing_ack.status
  claimAge,   \* ticks since processing_ack.status_changed
  tool,       \* container_state: declared Bash timeout, 0 when none
  (* the .heartbeat file *)
  hb,         \* ticks since its mtime, or NoHeartbeat
  agent,      \* what the container process in each slot is doing
  sweep,      \* where the host sweep is in sweepSession, with its decision
  poke,       \* a router call wrote a row and has yet to call wakeContainer
  carded,     \* history: rows whose turn sent an ask_user_question card
  handled,    \* history: messages whose content reached the agent, its
              \* script or its tool, or that were /clear commands
  faults      \* bound: faults so far

inbound  == <<seq, status, tries, due>>
outbound == <<ack, claimAge, tool>>
vars == <<runnerVars, inbound, outbound, hb, agent, sweep, poke, carded, handled, faults>>

-----------------------------------------------------------------------------
(* The container process. pc: "boot" before clearStaleProcessingAcks, "poll"
   in the outer loop, "scripts" while the pre-task scripts of a batch run,
   "query" inside processQuery, "hung" when it will do nothing more.        *)
Agent == [pc     : {"none", "boot", "poll", "scripts", "query", "hung"},
          first  : BOOLEAN,      \* isFirstPoll
          batch  : SUBSET Msg,   \* processingIds of the outer loop
          turns  : 0..2,         \* prompts given to the query, not yet answered
          follow : SUBSET Msg,   \* claimed by this query's follow-up poll
          stale  : SUBSET Msg,   \* the same of an earlier, finished query
          ended  : BOOLEAN,      \* endedForCommand
          nudged : BOOLEAN,      \* unwrappedNudged
          asking : BOOLEAN]      \* ask_user_question waits for its answer

NoAgent == [pc |-> "none", first |-> FALSE, batch |-> {}, turns |-> 0,
            follow |-> {}, stale |-> {}, ended |-> FALSE, nudged |-> FALSE, asking |-> FALSE]
FreshAgent == [NoAgent EXCEPT !.pc = "boot", !.first = TRUE]

Verdict == {"none", "ceiling", "claim", "idle"}
Idle == [pc |-> "idle", verdict |-> "none"]

SessionTypeOK ==
  /\ RunnerTypeOK
  /\ seq \in [Msg -> 0..Cardinality(Msg)]
  /\ status \in [Msg -> {"none", "pending", "completed", "failed"}]
  /\ tries \in [Msg -> Nat]
  /\ due \in [Msg -> Nat]
  /\ ack \in [Msg -> {"none", "processing", "completed"}]
  /\ claimAge \in [Msg -> 0..AgeCap]
  /\ tool \in {0, BashTimeout}
  /\ hb \in 0..NoHeartbeat
  /\ agent \in [Slot -> Agent]
  /\ sweep \in [pc : {"idle", "wake", "await", "check", "kill", "reset"}, verdict : Verdict]
  /\ poke \in BOOLEAN
  /\ carded \in SUBSET Msg
  /\ handled \in SUBSET Msg
  /\ faults \in 0..MaxFaults

SessionInit ==
  /\ RunnerInit
  /\ seq = [m \in Msg |-> 0]
  /\ status = [m \in Msg |-> "none"]
  /\ tries = [m \in Msg |-> 0]
  /\ due = [m \in Msg |-> 0]
  /\ ack = [m \in Msg |-> "none"]
  /\ claimAge = [m \in Msg |-> 0]
  /\ tool = 0
  /\ hb = NoHeartbeat
  /\ agent = [s \in Slot |-> NoAgent]
  /\ sweep = Idle
  /\ poke = FALSE
  /\ carded = {}
  /\ handled = {}
  /\ faults = 0

-----------------------------------------------------------------------------
(* The event loop is free for other host work while the sweep is not between
   two of its synchronous statements.                                       *)
HostFree == host = "up" /\ sweep.pc \in {"idle", "await"}

Fault == faults < MaxFaults /\ faults' = faults + 1

(* A runner step starts the poll loop of a process it starts, forgets that of
   a process it ends, and removes the heartbeat file just before a spawn
   (spawnContainer, fs.rmSync(heartbeatPath)).                              *)
ProcsFollow ==
  agent' = [s \in Slot |-> IF proc'[s] = "off" THEN NoAgent
                           ELSE IF proc[s] = "off" THEN FreshAgent
                           ELSE agent[s]]

HostStep(step) ==
  /\ HostFree
  /\ step
  /\ ProcsFollow
  /\ UNCHANGED <<inbound, outbound, sweep, carded, handled>>

Spawned == HostStep(SpawnDocker \/ JobAccepted) /\ hb' = NoHeartbeat /\ UNCHANGED <<poke, faults>>
SpawnSettles == HostStep(JobResponse) /\ UNCHANGED <<hb, poke, faults>>
SpawnFails == HostStep(SpawnRefused \/ JobResponseLost) /\ Fault /\ UNCHANGED <<hb, poke>>
HandlesExit(s) == HostStep(ExitHandled(s)) /\ UNCHANGED <<hb, poke, faults>>

(* Fault: the next sequence number is taken one step too far. *)
InsertSkipping(m) ==
  /\ HostFree
  /\ seq[m] = 0
  /\ m \in Answer => carded # {}
  /\ m \notin OnWake
  /\ seq' = [seq EXCEPT ![m] = Cardinality({n \in Msg : seq[n] > 0}) + 2]
  /\ status' = [status EXCEPT ![m] = "pending"]
  /\ poke' = (poke \/ m \notin Context \cup Task)
  /\ UNCHANGED <<runnerVars, tries, due, outbound, hb, agent, sweep, carded, handled, faults>>

(* Router, approvals, agent-to-agent: writeSessionMessage, then (after other
   awaits) wakeContainer unless the row has trigger = 0. schedule_task inserts
   a row that may lie in the future, and leaves the wake to the sweep.      *)
Written == {m \in Msg : seq[m] > 0}
Insert(m) ==
  /\ HostFree
  /\ seq[m] = 0
  /\ m \in Answer => carded # {}
  /\ m \notin OnWake
  /\ seq' = [seq EXCEPT ![m] = Cardinality(Written) + 1]
  /\ status' = [status EXCEPT ![m] = "pending"]
  /\ \E delay \in 0..1 : (delay = 0 \/ m \in Task) /\ due' = [due EXCEPT ![m] = delay]
  /\ poke' = (poke \/ m \notin Context \cup Task)
  /\ UNCHANGED <<runnerVars, tries, outbound, hb, agent, sweep, carded, handled, faults>>

RouterWake ==
  /\ poke
  /\ poke' = FALSE
  /\ HostFree
  /\ CallWake
  /\ UNCHANGED <<inbound, outbound, hb, agent, sweep, carded, handled, faults>>

(* restartAgentGroupContainers, the CLI's restart and self-mod's rebuild: an
   on_wake row, and a kill whose exit callback wakes a fresh container. With
   no container running, the kill does nothing and the sweep does the rest.  *)
Restart(m) ==
  /\ m \in OnWake
  /\ seq[m] = 0
  /\ seq' = [seq EXCEPT ![m] = Cardinality(Written) + 1]
  /\ status' = [status EXCEPT ![m] = "pending"]
  /\ HostFree
  /\ IF active = NoSlot THEN UNCHANGED runnerVars ELSE Kill(TRUE)
  /\ ProcsFollow
  /\ UNCHANGED <<tries, due, outbound, hb, sweep, poke, carded, handled, faults>>

(* The same without a message (`ncl groups restart`, the fugue channel's
   spawn watchdog): a kill and nothing more.                                *)
Stopped == HostStep(Kill(FALSE)) /\ Fault /\ UNCHANGED <<hb, poke>>

HostDies ==
  /\ HostCrash
  /\ Fault
  /\ sweep' = Idle
  /\ poke' = FALSE
  /\ UNCHANGED <<inbound, outbound, hb, agent, carded, handled>>

HostBoots ==
  /\ HostRestart
  /\ ProcsFollow
  /\ UNCHANGED <<inbound, outbound, hb, sweep, poke, carded, handled, faults>>
-----------------------------------------------------------------------------
(* processing_ack rows the host reads as claims (getProcessingClaims). *)
Claims == {m \in Msg : ack[m] = "processing"}

(* INSERT OR REPLACE of, or DELETE from, processing_ack: a new row is young. *)
SetAck(new) ==
  /\ ack' = [m \in Msg |-> new[m]]
  /\ claimAge' = [m \in Msg |-> IF new[m] = ack[m] THEN claimAge[m] ELSE 0]
Mark(ids, state) == [m \in Msg |-> IF m \in ids THEN state ELSE ack[m]]

(* countDueMessages: it looks at neither kind nor acks. *)
DueRows == {m \in Msg : status[m] = "pending" /\ m \notin Context /\ due[m] = 0}

(* Fault: the sync takes claims for completions. *)
SweepSyncEager ==
  /\ host = "up"
  /\ sweep.pc = "idle"
  /\ status' = [m \in Msg |-> IF ack[m] # "none" THEN "completed" ELSE status[m]]
  /\ sweep' = [sweep EXCEPT !.pc = "wake"]
  /\ UNCHANGED <<runnerVars, seq, tries, due, outbound, hb, agent, poke, carded, handled, faults>>

(* sweepSession 1: syncProcessingAcks. The container never writes 'failed'. *)
SweepSync ==
  /\ host = "up"
  /\ sweep.pc = "idle"
  /\ status' = [m \in Msg |-> IF ack[m] = "completed" THEN "completed" ELSE status[m]]
  /\ sweep' = [sweep EXCEPT !.pc = "wake"]
  /\ UNCHANGED <<runnerVars, seq, tries, due, outbound, hb, agent, poke, carded, handled, faults>>

(* sweepSession 2: wake when a row is due and activeContainers has no entry;
   the wake is awaited, otherwise the function runs on.                     *)
SweepWake ==
  /\ sweep.pc = "wake"
  /\ IF DueRows # {} /\ active = NoSlot
     THEN CallWake /\ sweep' = [sweep EXCEPT !.pc = "await"]
     ELSE UNCHANGED runnerVars /\ sweep' = [sweep EXCEPT !.pc = "check"]
  /\ UNCHANGED <<inbound, outbound, hb, agent, poke, carded, handled, faults>>

(* Fault: isContainerRunning is asked before the wake and used after it. *)
SweepWokenStale ==
  /\ sweep.pc = "await"
  /\ ~waking
  /\ sweep' = [sweep EXCEPT !.pc = "reset"]
  /\ UNCHANGED <<runnerVars, inbound, outbound, hb, agent, poke, carded, handled, faults>>

SweepWoken ==
  /\ sweep.pc = "await"
  /\ ~waking
  /\ sweep' = [sweep EXCEPT !.pc = "check"]
  /\ UNCHANGED <<runnerVars, inbound, outbound, hb, agent, poke, carded, handled, faults>>

(* decideStuckAction, its tests in the code's order. status_changed has
   whole seconds, so a heartbeat of the claim's own tick counts as later.   *)
Beaten == hb # NoHeartbeat
PastCeiling == Beaten /\ hb > Larger(Ceiling, tool)
PastIdle == Beaten /\ Claims = {} /\ tool = 0 /\ hb > IdleThreshold
StuckClaim(m) == claimAge[m] > Larger(ClaimStuck, tool) /\ ~(Beaten /\ hb <= claimAge[m])

(* Fault: only claims are looked at, the heartbeat's age alone kills nobody. *)
DecisionOnClaims == IF \E m \in Claims : StuckClaim(m) THEN "claim" ELSE "none"

Decision ==
  IF PastCeiling THEN "ceiling"
  ELSE IF PastIdle THEN "idle"
  ELSE IF \E m \in Claims : StuckClaim(m) THEN "claim"
  ELSE "none"

(* sweepSession 3 and 4: what happens next depends on isContainerRunning. *)
SweepCheck ==
  /\ sweep.pc = "check"
  /\ sweep' = IF active = NoSlot THEN [pc |-> "reset", verdict |-> "none"]
              ELSE IF Decision = "none" THEN Idle
              ELSE [pc |-> "kill", verdict |-> Decision]
  /\ UNCHANGED <<runnerVars, inbound, outbound, hb, agent, poke, carded, handled, faults>>

(* Fault: a stuck container's rows are reset, but the container is not killed. *)
SweepKillSpares ==
  /\ sweep.pc = "kill"
  /\ sweep' = IF sweep.verdict = "idle" THEN Idle ELSE [sweep EXCEPT !.pc = "reset"]
  /\ UNCHANGED <<runnerVars, inbound, outbound, hb, agent, poke, carded, handled, faults>>

(* enforceRunningContainerSla: kill-idle resets no rows. *)
SweepKill ==
  /\ sweep.pc = "kill"
  /\ Kill(FALSE)
  /\ ProcsFollow
  /\ sweep' = IF sweep.verdict = "idle" THEN Idle ELSE [sweep EXCEPT !.pc = "reset"]
  /\ UNCHANGED <<inbound, outbound, hb, poke, carded, handled, faults>>

(* resetStuckProcessingRows: fail or back off each claimed row that is
   pending and not already rescheduled, then delete every claim; a failure of
   the deletion is logged and dropped.                                      *)
Retried == {m \in Claims : status[m] = "pending" /\ due[m] = 0}
(* Fault: the last retry is not made. *)
ExhaustedEarly(m) == tries[m] + 1 >= MaxTries
Exhausted(m) == tries[m] >= MaxTries
SweepReset ==
  /\ sweep.pc = "reset"
  /\ status' = [m \in Msg |-> IF m \in Retried /\ Exhausted(m) THEN "failed" ELSE status[m]]
  /\ tries' = [m \in Msg |-> IF m \in Retried /\ ~Exhausted(m) THEN tries[m] + 1 ELSE tries[m]]
  /\ due' = [m \in Msg |-> IF m \in Retried /\ ~Exhausted(m)
                           THEN BackoffBase * 2^tries[m] ELSE due[m]]
  /\ \/ SetAck(Mark(Claims, "none")) /\ UNCHANGED faults
     \/ Claims # {} /\ UNCHANGED <<ack, claimAge>> /\ Fault
  /\ sweep' = Idle
  /\ UNCHANGED <<runnerVars, seq, tool, hb, agent, poke, carded, handled>>

-----------------------------------------------------------------------------
(* getPendingMessages: the newest BatchLimit due rows, and only then those
   without an ack. Each caller drops 'system' rows itself.                  *)
Newest(rows) == {m \in rows : Cardinality({n \in rows : seq[n] > seq[m]}) < BatchLimit}
(* Fault: rows already in processing_ack are fetched too. *)
FetchedClaimed(first) ==
  Newest({m \in Msg : status[m] = "pending" /\ due[m] = 0 /\ (m \in OnWake => first)})
Fetched(first) ==
  {m \in Newest({m \in Msg : status[m] = "pending" /\ due[m] = 0 /\ (m \in OnWake => first)}) :
     ack[m] = "none"}

Runs(s, pc) == proc[s] # "off" /\ agent[s].pc = pc
Does(s, new) == agent' = [agent EXCEPT ![s] = new]
AgentOnly == UNCHANGED <<runnerVars, inbound, sweep, poke, carded, faults>>

(* Fault: completed rows are deleted from processing_ack too. *)
BootForgetsAll(s) ==
  /\ Runs(s, "boot")
  /\ SetAck([m \in Msg |-> "none"])
  /\ Does(s, [agent[s] EXCEPT !.pc = "poll"])
  /\ AgentOnly /\ UNCHANGED <<tool, hb, handled>>

(* clearStaleProcessingAcks, before the loop. container_state stays. *)
Boot(s) ==
  /\ Runs(s, "boot")
  /\ SetAck(Mark(Claims, "none"))
  /\ Does(s, [agent[s] EXCEPT !.pc = "poll"])
  /\ AgentOnly /\ UNCHANGED <<tool, hb, handled>>

(* One turn of the outer loop up to the pre-task scripts. *)
Poll(s) ==
  LET new     == Fetched(agent[s].first) \ Answer
      normal  == new \ Clear
      trigger == new \ Context # {}
  IN  /\ Runs(s, "poll")
      /\ IF trigger
         THEN /\ SetAck([m \in Msg |-> IF m \in new \cap Clear THEN "completed"
                                       ELSE IF m \in new THEN "processing" ELSE ack[m]])
              /\ handled' = handled \cup (new \cap Clear)
              /\ Does(s, IF normal = {} THEN [agent[s] EXCEPT !.first = FALSE]
                         ELSE [agent[s] EXCEPT !.first = FALSE, !.pc = "scripts", !.batch = normal])
         ELSE /\ agent[s].first
              /\ Does(s, [agent[s] EXCEPT !.first = FALSE])
              /\ UNCHANGED <<ack, claimAge, handled>>
      /\ AgentOnly /\ UNCHANGED <<tool, hb>>

(* applyPreTaskScripts on ids: some tasks are skipped, and each script run
   touches the heartbeat.                                                   *)
ScriptBeat(ids) == hb' = IF ids \cap Task # {} THEN 0 ELSE hb

Scripts(s) ==
  /\ Runs(s, "scripts")
  /\ \E skipped \in SUBSET (agent[s].batch \cap Task) :
       LET keep == agent[s].batch \ skipped IN
       /\ SetAck(Mark(skipped, "completed"))
       /\ Does(s, IF keep = {} THEN [agent[s] EXCEPT !.pc = "poll", !.batch = {}]
                  ELSE [agent[s] EXCEPT !.pc = "query", !.batch = keep, !.turns = 1])
  /\ handled' = handled \cup agent[s].batch
  /\ ScriptBeat(agent[s].batch)
  /\ AgentOnly /\ UNCHANGED tool

(* An event of the provider's stream that is not a result. *)
Event(s) ==
  /\ Runs(s, "query") /\ agent[s].turns > 0
  /\ hb' = 0
  /\ AgentOnly /\ UNCHANGED <<outbound, agent, handled>>

(* preToolUseHook and postToolUseHook: only Bash declares a timeout. *)
ToolStarts(s) ==
  /\ Runs(s, "query") /\ agent[s].turns > 0 /\ BashTimeout > 0
  /\ tool' = BashTimeout
  /\ AgentOnly /\ UNCHANGED <<ack, claimAge, hb, agent, handled>>
ToolEnds(s) ==
  /\ Runs(s, "query") /\ agent[s].turns > 0
  /\ tool' = 0
  /\ AgentOnly /\ UNCHANGED <<ack, claimAge, hb, agent, handled>>

(* A 'result' event: the turn is over, the initial batch is completed, the
   query stays open. A text outside <message> blocks is answered, once per
   push, with a nudge: one more turn.                                       *)
Result(s) ==
  /\ Runs(s, "query") /\ agent[s].turns > 0
  /\ hb' = 0
  /\ SetAck(Mark(agent[s].batch, "completed"))
  /\ \/ Does(s, [agent[s] EXCEPT !.turns = @ - 1])
     \/ ~agent[s].nudged /\ Does(s, [agent[s] EXCEPT !.nudged = TRUE])
  /\ AgentOnly /\ UNCHANGED <<tool, handled>>

(* The follow-up poll of processQuery, up to the scripts. *)
FollowPoll(s) ==
  LET pending == Fetched(FALSE)
      new     == pending \ Answer
  IN  /\ Runs(s, "query") /\ agent[s].follow = {} /\ ~agent[s].ended
      /\ IF pending \cap Clear # {}
         THEN Does(s, [agent[s] EXCEPT !.ended = TRUE]) /\ UNCHANGED <<ack, claimAge>>
         ELSE /\ new \ Context # {}
              /\ SetAck(Mark(new, "processing"))
              /\ Does(s, [agent[s] EXCEPT !.follow = new])
      /\ AgentOnly /\ UNCHANGED <<tool, hb, handled>>

(* The rest of it while the query is open: the kept rows are pushed into the
   query and completed at once, before the agent has answered them.         *)
FollowPush(s) ==
  /\ Runs(s, "query") /\ agent[s].follow # {}
  /\ SetAck(Mark(agent[s].follow, "completed"))
  /\ handled' = handled \cup agent[s].follow
  /\ ScriptBeat(agent[s].follow)
  /\ \E skipped \in SUBSET (agent[s].follow \cap Task) :
       Does(s, IF skipped = agent[s].follow THEN [agent[s] EXCEPT !.follow = {}]
               ELSE [agent[s] EXCEPT !.follow = {}, !.nudged = FALSE,
                                     !.turns = IF @ = 2 THEN @ ELSE @ + 1])
  /\ AgentOnly /\ UNCHANGED tool

(* The stream ends (query.end(), an error, an unexpected close): done is set
   and the outer loop completes its batch whatever happened.                *)
QueryEnd(s) ==
  /\ Runs(s, "query")
  /\ SetAck(Mark(agent[s].batch, "completed"))
  /\ Does(s, [agent[s] EXCEPT !.pc = "poll", !.batch = {}, !.turns = 0, !.follow = {},
                             !.stale = @ \cup agent[s].follow, !.ended = FALSE, !.nudged = FALSE,
                             !.asking = FALSE])
  /\ AgentOnly /\ UNCHANGED <<tool, hb, handled>>

(* A follow-up poll that outlived its query: rows skipped by their script are
   completed, the others keep the claim (`if (done) return`).               *)
StaleReturn(s) ==
  /\ proc[s] # "off" /\ agent[s].pc # "hung" /\ agent[s].stale # {}
  /\ \E skipped \in SUBSET (agent[s].stale \cap Task) :
       /\ SetAck(Mark(skipped, "completed"))
       /\ handled' = handled \cup skipped
  /\ ScriptBeat(agent[s].stale)
  /\ Does(s, [agent[s] EXCEPT !.stale = {}])
  /\ AgentOnly /\ UNCHANGED tool

(* ask_user_question: post the card, poll for the answer, give up in time.
   The row of an answer that comes later stays pending.                     *)
Ask(s) ==
  /\ Runs(s, "query") /\ agent[s].turns > 0 /\ ~agent[s].asking
  /\ Answer # {}
  /\ carded' = carded \cup agent[s].batch
  /\ Does(s, [agent[s] EXCEPT !.asking = TRUE])
  /\ UNCHANGED <<runnerVars, inbound, outbound, hb, sweep, poke, handled, faults>>
TakeAnswer(s, m) ==
  /\ Runs(s, "query") /\ agent[s].asking
  /\ m \in Answer /\ status[m] = "pending" /\ ack[m] = "none"
  /\ SetAck(Mark({m}, "completed"))
  /\ handled' = handled \cup {m}
  /\ Does(s, [agent[s] EXCEPT !.asking = FALSE])
  /\ AgentOnly /\ UNCHANGED <<tool, hb>>
AskTimeout(s) ==
  /\ Runs(s, "query") /\ agent[s].asking
  /\ Does(s, [agent[s] EXCEPT !.asking = FALSE])
  /\ AgentOnly /\ UNCHANGED <<outbound, hb, handled>>

(* The process ends by itself, or stops doing anything while it works. *)
Dies(s) ==
  /\ ProcExit(s)
  /\ IF proc[s] = "alive" THEN Fault ELSE UNCHANGED faults
  /\ ProcsFollow
  /\ UNCHANGED <<inbound, outbound, hb, sweep, poke, carded, handled>>
Hangs(s) ==
  /\ proc[s] = "alive" /\ agent[s].pc \in {"scripts", "query"}
  /\ Fault
  /\ Does(s, [NoAgent EXCEPT !.pc = "hung"])
  /\ UNCHANGED <<runnerVars, inbound, outbound, hb, sweep, poke, carded, handled>>

Tick ==
  /\ hb' = IF Beaten /\ hb < AgeCap THEN hb + 1 ELSE hb
  /\ claimAge' = [m \in Msg |-> IF m \in Claims /\ claimAge[m] < AgeCap
                                THEN claimAge[m] + 1 ELSE claimAge[m]]
  /\ due' = [m \in Msg |-> IF due[m] > 0 THEN due[m] - 1 ELSE 0]
  /\ UNCHANGED <<runnerVars, seq, status, tries, ack, tool, agent, sweep, poke, carded, handled, faults>>

-----------------------------------------------------------------------------
SweepStep == SweepSync \/ SweepWake \/ SweepWoken \/ SweepCheck \/ SweepKill \/ SweepReset

AgentStep(s) ==
  \/ Boot(s) \/ Poll(s) \/ Scripts(s)
  \/ Event(s) \/ ToolStarts(s) \/ ToolEnds(s) \/ Result(s) \/ QueryEnd(s)
  \/ FollowPoll(s) \/ FollowPush(s) \/ StaleReturn(s)
  \/ Ask(s) \/ AskTimeout(s) \/ \E m \in Msg : TakeAnswer(s, m)

SessionNext ==
  \/ Spawned \/ SpawnSettles \/ SpawnFails
  \/ \E s \in Slot : HandlesExit(s)
  \/ \E m \in Msg : Insert(m) \/ Restart(m)
  \/ RouterWake \/ Stopped
  \/ HostDies \/ HostBoots
  \/ SweepStep
  \/ \E s \in Slot : AgentStep(s) \/ Dies(s) \/ Hangs(s)
  \/ Tick

SessionSpec == SessionInit /\ [][SessionNext]_vars

(* The scheduler runs the sweep for as long as the host is up, and the host
   is restarted; the poll loop is a timer. A promise's reactions run although
   the sweep keeps taking the event loop: its queue is first in, first out,
   hence strong fairness. A turn that the provider has been given ends unless
   the process hangs; nothing makes an open query without a turn end, except
   query.end(). Time passes.                                                *)
TurnEnds(s) == agent[s].turns > 0 /\ (Result(s) \/ QueryEnd(s))
Fairness ==
  /\ WF_vars(Tick) /\ WF_vars(SweepStep) /\ WF_vars(HostBoots)
  /\ SF_vars(Spawned \/ SpawnSettles)
  /\ \A s \in Slot :
       /\ SF_vars(HandlesExit(s))
       /\ WF_vars(Boot(s)) /\ WF_vars(Poll(s)) /\ WF_vars(Scripts(s))
       /\ WF_vars(TurnEnds(s))
       /\ WF_vars(agent[s].ended /\ QueryEnd(s))
       /\ WF_vars(FollowPoll(s)) /\ WF_vars(FollowPush(s)) /\ WF_vars(StaleReturn(s))
       /\ WF_vars(AskTimeout(s))
       /\ WF_vars(proc[s] = "loose" /\ Dies(s))

FairSessionSpec == SessionSpec /\ Fairness

-----------------------------------------------------------------------------
(* What a live process works on: the rows it has claimed and neither
   abandoned nor been relieved of.                                          *)
Working(s) == agent[s].batch \cup agent[s].follow \cup agent[s].stale

(* A row some running container works on keeps its acknowledgement, so that
   no other poll, of this container or the next, picks it up again. The host
   deletes claims (deleteOrphanProcessingClaims) and clearStaleProcessingAcks
   does, and both must hit only claims of dead processes.                   *)
ClaimHeld ==
  \A s \in Slot : proc[s] = "alive" => \A m \in Working(s) : ack[m] # "none"

(* No row is worked on twice at once: not by two containers, not by the
   outer loop and a follow-up poll of one.                                  *)
WorkedOnOnce ==
  /\ \A s, t \in Slot : s # t => Working(s) \cap Working(t) = {}
  /\ \A s \in Slot :
       /\ agent[s].batch \cap agent[s].follow = {}
       /\ agent[s].batch \cap agent[s].stale = {}
       /\ agent[s].follow \cap agent[s].stale = {}

(* Nothing is lost silently: a row is completed only after its content
   reached the agent (or its script decided, or it was a command).          *)
CompletedWasHandled ==
  \A m \in Msg : (status[m] = "completed" \/ ack[m] = "completed") => m \in handled

(* A row is given up only after MAX_TRIES retries, and then stays given up:
   no late acknowledgement turns it into 'completed'.                       *)
FailedSpentTries == \A m \in Msg : status[m] = "failed" => tries[m] = MaxTries
FailedIsFinal == [][\A m \in Msg : status[m] = "failed" => status'[m] = "failed"]_vars

(* The host deletes claims only when no container runs (session-db.ts,
   deleteOrphanProcessingClaims: "Safe because the host only writes to
   outbound.db when no container is running (we just killed it)").          *)
HostWritesAlone ==
  [][sweep.pc = "reset" /\ sweep'.pc = "idle" => \A s \in Slot : proc[s] = "off"]_vars

(* Every triggering row is eventually completed or given up, whatever the
   faults (boundedly many), for chat and task rows.                         *)
TriggerSettles ==
  \A m \in Chat \cup Clear \cup Task :
    (status[m] = "pending") ~> (status[m] \in {"completed", "failed"})

(* A resident container that has had its turns is released: once there is a
   heartbeat, no claim and no turn in progress last forever (no Bash timeout
   being declared: the one a dead container leaves behind is never reset).     *)
Resident ==
  /\ active # NoSlot
  /\ agent[active].pc \in {"poll", "query"} /\ agent[active].turns = 0
  /\ Claims = {}
BeatenIsReleased == []<>~(Resident /\ hb # NoHeartbeat /\ tool = 0)

(* The lifecycle documents promise of a row (architecture.md, pending ->
   processing -> completed or failed), as the two databases together show
   it, and the proof obligation that this protocol implements it.           *)
Stage(m) ==
  IF status[m] = "none" THEN "absent"
  ELSE IF status[m] = "failed" THEN "dead"
  ELSE IF status[m] = "completed" \/ ack[m] = "completed" THEN "done"
  ELSE IF ack[m] = "processing" THEN "taken"
  ELSE "queued"
Lifecycle == INSTANCE MessageLifecycle
               WITH stage <- [m \in Msg |-> Stage(m)], Direct <- Clear \cup Answer
ImplementsLifecycle == Lifecycle!Spec
==============================================================================
