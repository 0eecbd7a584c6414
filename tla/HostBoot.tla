------------------------------- MODULE HostBoot -------------------------------
(***************************************************************************)
(* The host process from one start to the next: main() and shutdown() of   *)
(* src/index.ts, the circuit breaker that delays a start after crashes     *)
(* (src/circuit-breaker.ts) and, on Kubernetes, the startup probe that      *)
(* waits for /tmp/host-ready.                                              *)
(*                                                                         *)
(* main() runs without an await up to the end of the breaker's write, so   *)
(* Start is one action.  Time passes in ticks; it stands still while main()*)
(* boots, because a boot slower than the probe never ends on Kubernetes    *)
(* whatever the breaker does.                                              *)
(***************************************************************************)
EXTENDS Naturals, Sequences

CONSTANTS
  Schedule,      \* BACKOFF_SCHEDULE_S: the delay of each attempt, in ticks
  ResetWindow,   \* RESET_WINDOW_MS in ticks
  StartupLimit,  \* failureThreshold * periodSeconds of the startup probe
  MaxHarm        \* bound: crashes, torn writes and signals of one behaviour

ASSUME ScheduleAssumption ==
  /\ Schedule \in Seq(Nat) /\ Len(Schedule) > 0
  /\ \A i, j \in 1..Len(Schedule) : i <= j => Schedule[i] <= Schedule[j]
  /\ 2 * Schedule[Len(Schedule)] <= ResetWindow
ASSUME BootAssumption ==
  ResetWindow \in Nat \ {0} /\ StartupLimit \in Nat /\ MaxHarm \in Nat

VARIABLES
  probed,    \* whether a startup probe watches the process (Kubernetes)
  phase,     \* of the process: "down", "delayed", "booting" or "ready"
  attempt,   \* circuit-breaker.json: its attempt, 0 when none can be read
  age,       \* ticks since its timestamp, at most ResetWindow
  left,      \* ticks the backoff of this start has still to wait
  up,        \* ticks since this start, at most StartupLimit
  stopping,  \* shutdown() is under way
  boots,     \* ages of the boots of one window, the newest first, since the
             \* breaker's file was last removed or lost
  harm

bootVars == <<probed, phase, attempt, age, left, up, stopping, boots, harm>>

BootInit ==
  /\ probed \in BOOLEAN
  /\ phase = "down" /\ attempt = 0 /\ age = ResetWindow
  /\ left = 0 /\ up = 0 /\ stopping = FALSE
  /\ boots = <<>> /\ harm = 0

-----------------------------------------------------------------------------
(* The breaker *)

MinOf(m, n) == IF m < n THEN m ELSE n

\* Mutant: past its end the schedule has no delay (undefined > 0 is false).
GetDelayNoCap(n) == IF n <= Len(Schedule) THEN Schedule[n] ELSE 0

GetDelay(n) == Schedule[MinOf(n, Len(Schedule))]

\* The attempt a start at this moment is.  Attempts past the schedule's end
\* have one delay and are counted as one.
NextAttempt ==
  IF attempt > 0 /\ age < ResetWindow THEN MinOf(attempt + 1, Len(Schedule) + 1) ELSE 1

\* enforceStartupBackoff, up to its await.
Start ==
  /\ phase = "down"
  /\ attempt' = NextAttempt /\ age' = 0
  /\ left' = GetDelay(NextAttempt) /\ up' = 0
  /\ phase' = "delayed"
  /\ UNCHANGED <<probed, stopping, boots, harm>>

\* The write fails half-way (a full disk, a kill): the file is left truncated,
\* which the next start reads as no file; main() ends with exit 1.
DiesWriting ==
  /\ phase = "down" /\ harm < MaxHarm
  /\ attempt' = 0 /\ boots' = <<>>
  /\ harm' = harm + 1
  /\ UNCHANGED <<probed, phase, age, left, up, stopping>>

\* The timer of the backoff fires, or there is no delay: main() goes on, also
\* when a shutdown has begun meanwhile.
LeaveBackoff ==
  /\ phase = "delayed" /\ left = 0
  /\ phase' = "booting"
  /\ boots' = <<0>> \o boots
  /\ UNCHANGED <<probed, attempt, age, left, up, stopping, harm>>

-----------------------------------------------------------------------------
(* The rest of main(), and the ends of the process *)

\* /tmp/host-ready is written.
Ready ==
  /\ phase = "booting"
  /\ phase' = "ready"
  /\ UNCHANGED <<probed, attempt, age, left, up, stopping, boots, harm>>

\* main() throws, an exception nobody catches, SIGKILL, an OOM kill: nothing is
\* said to the breaker, also when shutdown() was waiting for a callback.
Crash ==
  /\ phase # "down" /\ harm < MaxHarm
  /\ phase' = "down" /\ stopping' = FALSE /\ left' = 0
  /\ harm' = harm + 1
  /\ UNCHANGED <<probed, attempt, age, up, boots>>

\* SIGTERM or SIGINT from outside: an operator, a rollout.
Signal ==
  /\ phase # "down" /\ ~stopping /\ harm < MaxHarm
  /\ stopping' = TRUE
  /\ harm' = harm + 1
  /\ UNCHANGED <<probed, phase, attempt, age, left, up, boots>>

\* The startup probe has not seen the file in time: kubelet sends SIGTERM.
ProbeStops ==
  /\ probed /\ phase = "delayed" /\ up = StartupLimit /\ ~stopping
  /\ stopping' = TRUE
  /\ UNCHANGED <<probed, phase, attempt, age, left, up, boots, harm>>

\* Mutant: only a host that came up has its count forgotten.
FinishStopIfReady ==
  /\ stopping
  /\ phase' = "down" /\ stopping' = FALSE /\ left' = 0
  /\ attempt' = IF phase = "ready" THEN 0 ELSE attempt
  /\ boots' = IF phase = "ready" THEN <<>> ELSE boots
  /\ UNCHANGED <<probed, age, up, harm>>

\* The end of shutdown(): resetCircuitBreaker, then exit.
FinishStop ==
  /\ stopping
  /\ phase' = "down" /\ stopping' = FALSE /\ left' = 0
  /\ attempt' = 0 /\ boots' = <<>>
  /\ UNCHANGED <<probed, age, up, harm>>

\* The boots still in the window a tick from now: the newest ones.
Kept == {i \in 1..Len(boots) : boots[i] + 1 < ResetWindow}

\* Time passes, as long as no timer is due and no boot is under way.
Tick ==
  /\ phase = "delayed" => left > 0
  /\ phase # "booting"
  /\ ~(probed /\ phase = "delayed" /\ up = StartupLimit /\ ~stopping)
  /\ age' = MinOf(age + 1, ResetWindow)
  /\ left' = IF left > 0 THEN left - 1 ELSE 0
  /\ up' = IF phase = "delayed" THEN MinOf(up + 1, StartupLimit) ELSE up
  /\ boots' = [i \in Kept |-> boots[i] + 1]
  /\ UNCHANGED <<probed, phase, attempt, stopping, harm>>

BootNext ==
  \/ Start \/ DiesWriting \/ LeaveBackoff \/ Ready \/ Crash
  \/ Signal \/ ProbeStops \/ FinishStop \/ Tick

(* The supervisor starts the process again, the timer fires, main() gets on,
   shutdown() comes to an end and the probe fails in time.                   *)
BootFairness ==
  /\ WF_bootVars(Start) /\ WF_bootVars(LeaveBackoff) /\ WF_bootVars(Ready)
  /\ WF_bootVars(ProbeStops) /\ WF_bootVars(FinishStop) /\ WF_bootVars(Tick)

BootSpec == BootInit /\ [][BootNext]_bootVars /\ BootFairness

-----------------------------------------------------------------------------
(* Properties *)

\* The delays between the first of n boots and the last, the first being the
\* first of its count.
Waits[n \in Nat] ==
  IF n <= 1 THEN 0 ELSE Waits[n - 1] + Schedule[MinOf(n, Len(Schedule))]

(* A host that keeps crashing is slowed down: however its crashes fall (while
   it boots, while it runs, while it waits or while it stops), and although
   the breaker counts starts and measures from one start to the next, no
   window of time holds more boots than the schedule's delays leave room for,
   the boots before a clean stop or a lost file not counted (circuit-breaker.ts
   34-84).                                                                   *)
CrashLoopSlows == boots # <<>> => Waits[Len(boots)] < ResetWindow

(* A host that no longer crashes comes up, although on Kubernetes a delay
   longer than the startup probe waits can never be served to its end: the
   probe's SIGTERM is taken as a clean stop and the next start has no delay
   (index.ts 341-346, k8s/10-orchestrator-statefulset.yaml 296-301).         *)
ComesUp == <>[](phase = "ready")
==============================================================================
