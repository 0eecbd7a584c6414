--------------------------- MODULE ContainerRunner ---------------------------
(***************************************************************************)
(* The host's container lifecycle for ONE session: the in-memory maps      *)
(* activeContainers and wakePromises of src/src/container-runner.ts, the   *)
(* kill/exit-handler protocol around an AgentHandle, and the two runtime   *)
(* providers behind it (adapters/container/docker.ts and k8s.ts).          *)
(*                                                                         *)
(* Both maps are keyed by session id and no operation touches two keys, so *)
(* one session stands for all of them.  The host is a single event loop:   *)
(* an action is what runs between two awaits.  A slot is a place a         *)
(* container process may occupy; slots are reused, so the number of        *)
(* containers ever started is not bounded.                                 *)
(***************************************************************************)
EXTENDS Naturals

CONSTANTS
  Runtime,         \* CONTAINER_PROVIDER: "docker" or "k8s"
  MaxSpawns,       \* bound: spawnContainer calls under way at one time
  MaxContainers,   \* bound: processes of this session existing at one time
  StopFails        \* whether `docker stop` / a Job deletion request may fail

ASSUME RuntimeAssumption == Runtime \in {"docker", "k8s"}
ASSUME SlotAssumption    == MaxContainers \in Nat \ {0}
ASSUME SpawnAssumption   == MaxSpawns \in Nat \ {0}
ASSUME StopAssumption    == StopFails \in BOOLEAN

Slot == 1..MaxContainers
NoSlot == 0

VARIABLES
  host,     \* "up", or "down": the host process does not run
  active,   \* activeContainers.get(session): the slot of the entry, or NoSlot
  waking,   \* wakePromises.has(session)
  setup,    \* spawnContainer calls that have not reached runtime.spawn's result
  born,     \* slot of a Job the API server created, its response still to come
  proc,     \* what really runs in a slot: "off", "alive" or "loose"
  watch,    \* slots whose exit promise has a handler of this host attached
  onExit    \* slots whose exit promise also has a restart callback

runnerVars == <<host, active, waking, setup, born, proc, watch, onExit>>

(* "loose": the process still runs, but its handle will report an exit. In
   k8s the Job was deleted in the background and the pod is terminating; in
   docker the `docker run` client was killed and the container goes on.     *)
ProcState == {"off", "alive", "loose"}

RunnerTypeOK ==
  /\ host \in {"up", "down"}
  /\ active \in Slot \cup {NoSlot}
  /\ waking \in BOOLEAN
  /\ setup \in 0..MaxSpawns
  /\ born \in Slot \cup {NoSlot}
  /\ proc \in [Slot -> ProcState]
  /\ watch \in SUBSET Slot
  /\ onExit \in SUBSET Slot

RunnerInit ==
  /\ host = "up"
  /\ active = NoSlot
  /\ waking = FALSE
  /\ setup = 0
  /\ born = NoSlot
  /\ proc = [s \in Slot |-> "off"]
  /\ watch = {}
  /\ onExit = {}

-----------------------------------------------------------------------------
(* Faults a change to this code could bring in are kept beside the operators
   they would break ("Fault: ..."); no action refers to them. PROJECT.json
   pairs each with the property that finds it.                              *)

(* Fault: no wakePromises, so that a call starts a spawn beside another. *)
WakeBeside ==
  /\ host = "up" /\ setup < MaxSpawns
  /\ active = NoSlot
  /\ waking' = TRUE
  /\ setup' = setup + 1
  /\ UNCHANGED <<host, active, born, proc, watch, onExit>>

(* wakeContainer: joins a running container or a wake in flight, else starts
   spawnContainer. The guard is the two early returns; a call that joins
   changes nothing.                                                         *)
Wake ==
  /\ host = "up"
  /\ active = NoSlot
  /\ ~waking
  /\ setup < MaxSpawns
  /\ waking' = TRUE
  /\ setup' = setup + 1
  /\ UNCHANGED <<host, active, born, proc, watch, onExit>>

(* A call of wakeContainer: it starts a spawn, or joins what is there. *)
CallWake ==
  \/ Wake
  \/ host = "up" /\ (active # NoSlot \/ waking) /\ UNCHANGED runnerVars

(* A slot the next process takes: the first one with nothing in it. *)
Vacant(s) == proc[s] = "off" /\ s \notin watch
FirstVacant(s) == Vacant(s) /\ \A t \in Slot : Vacant(t) => s <= t

(* Fault: the promise is not removed when the spawn ends (no `finally`). *)
SpawnEndsKept ==
  /\ setup > 0
  /\ setup' = setup - 1
  /\ UNCHANGED waking

(* One spawnContainer call ends: the promise's then/catch/finally run. *)
SpawnEnds ==
  /\ setup > 0
  /\ setup' = setup - 1
  /\ waking' = FALSE

(* spawnContainer rejects before or in runtime.spawn (agent group missing,
   provider adk, credentials gateway down, API error).                      *)
SpawnRefused ==
  /\ SpawnEnds
  /\ born = NoSlot
  /\ UNCHANGED <<host, active, born, proc, watch, onExit>>

(* docker: spawn() of the client, activeContainers.set and the exit handler
   run without giving the event loop back.                                  *)
SpawnDocker ==
  /\ Runtime = "docker"
  /\ SpawnEnds
  /\ \E s \in Slot :
       /\ FirstVacant(s)
       /\ proc' = [proc EXCEPT ![s] = "alive"]
       /\ active' = s
       /\ watch' = watch \cup {s}
  /\ UNCHANGED <<host, born, onExit>>

(* k8s: the API server accepts the Job while the host awaits the response. *)
JobAccepted ==
  /\ Runtime = "k8s"
  /\ setup > 0 /\ born = NoSlot
  /\ \E s \in Slot :
       /\ FirstVacant(s)
       /\ proc' = [proc EXCEPT ![s] = "alive"]
       /\ born' = s
  /\ UNCHANGED <<host, active, waking, setup, watch, onExit>>

JobResponse ==
  /\ born # NoSlot
  /\ SpawnEnds
  /\ active' = born
  /\ watch' = watch \cup {born}
  /\ born' = NoSlot
  /\ UNCHANGED <<host, proc, onExit>>

(* The response is lost: createNamespacedJob throws though the Job exists. *)
JobResponseLost ==
  /\ born # NoSlot
  /\ SpawnEnds
  /\ born' = NoSlot
  /\ UNCHANGED <<host, active, proc, watch, onExit>>

-----------------------------------------------------------------------------
(* What handle.kill() does to the process it controls. docker: a blocking
   `docker stop -t 1`; when it fails, SIGKILL of the client. k8s: background
   deletion of the Job, whose failure is logged and dropped.                *)
AfterStop ==
  IF Runtime = "docker"
  THEN {"off"} \cup (IF StopFails THEN {"loose"} ELSE {})
  ELSE {"loose"} \cup (IF StopFails THEN {"alive"} ELSE {})

StopProc(s) ==
  \E after \in AfterStop :
    proc' = [proc EXCEPT ![s] = IF @ = "alive" THEN after ELSE @]

(* killContainer(session, reason, onExit?): a no-op without an entry. *)
Kill(withCallback) ==
  /\ host = "up"
  /\ active # NoSlot
  /\ StopProc(active)
  /\ onExit' = IF withCallback THEN onExit \cup {active} ELSE onExit
  /\ UNCHANGED <<host, active, waking, setup, born, watch>>

(* The process ends by itself: it crashes, exits 75, is evicted, or a
   terminating pod's grace period is over. A container whose docker client
   was killed has no such deadline, but it too may end.                     *)
ProcExit(s) ==
  /\ proc[s] # "off"
  /\ proc' = [proc EXCEPT ![s] = "off"]
  /\ UNCHANGED <<host, active, waking, setup, born, watch, onExit>>

(* Fault: the exit handler leaves the session's entry in the map. *)
ExitHandledZombie(s) ==
  /\ s \in watch
  /\ proc[s] \in {"off", "loose"}
  /\ watch' = watch \ {s}
  /\ onExit' = onExit \ {s}
  /\ UNCHANGED <<host, active, waking, setup, born, proc>>
(* Fault: the restart callback runs before the entry is deleted, so that its
   wakeContainer finds a container running.                                 *)
ExitHandledLate(s) ==
  /\ s \in watch
  /\ proc[s] \in {"off", "loose"}
  /\ watch' = watch \ {s}
  /\ active' = NoSlot
  /\ onExit' = onExit \ {s}
  /\ UNCHANGED <<host, waking, setup, born, proc>>

(* waitForExit() resolves and its reactions run in the order they were
   attached: the handler of spawnContainer deletes the session's entry, then
   the callback of killContainer calls wakeContainer.                       *)
ExitHandled(s) ==
  /\ s \in watch
  /\ proc[s] \in {"off", "loose"}
  /\ watch' = watch \ {s}
  /\ active' = NoSlot
  /\ onExit' = onExit \ {s}
  /\ IF s \in onExit /\ ~waking /\ setup < MaxSpawns
     THEN waking' = TRUE /\ setup' = setup + 1
     ELSE UNCHANGED <<waking, setup>>
  /\ UNCHANGED <<host, born, proc>>

-----------------------------------------------------------------------------
(* The host process dies: both maps and every promise are gone; the
   containers are not its children and go on.                               *)
HostCrash ==
  /\ host = "up"
  /\ host' = "down"
  /\ active' = NoSlot
  /\ waking' = FALSE
  /\ setup' = 0
  /\ born' = NoSlot
  /\ watch' = {}
  /\ onExit' = {}
  /\ UNCHANGED proc

(* Fault: no cleanupOrphans at boot. *)
HostRestartBare ==
  /\ host = "down"
  /\ host' = "up"
  /\ UNCHANGED <<active, waking, setup, born, proc, watch, onExit>>

(* Boot: cleanupOrphans before anything can wake a container. docker stops
   every running container of the install (a failed stop is only logged);
   k8s deletes only Jobs that have finished, so a running pod stays.        *)
HostRestart ==
  /\ host = "down"
  /\ host' = "up"
  /\ \/ /\ Runtime = "docker"
        /\ proc' \in [Slot -> ProcState]
        /\ \A s \in Slot : proc'[s] \in {"off"} \cup (IF StopFails THEN {proc[s]} ELSE {})
     \/ Runtime = "k8s" /\ proc' = proc
  /\ UNCHANGED <<active, waking, setup, born, watch, onExit>>

RunnerNext ==
  \/ Wake
  \/ SpawnRefused
  \/ SpawnDocker
  \/ JobAccepted
  \/ JobResponse
  \/ JobResponseLost
  \/ \E withCallback \in BOOLEAN : Kill(withCallback)
  \/ \E s \in Slot : ProcExit(s)
  \/ \E s \in Slot : ExitHandled(s)
  \/ HostCrash
  \/ HostRestart

RunnerSpec == RunnerInit /\ [][RunnerNext]_runnerVars

(* The host's own continuations run: an exit promise's reactions, and a wake
   in flight settles one way or the other.                                  *)
Settle == SpawnRefused \/ SpawnDocker \/ JobResponse \/ JobResponseLost
RunnerFairness ==
  /\ \A s \in Slot : WF_runnerVars(ExitHandled(s))
  /\ WF_runnerVars(Settle)

-----------------------------------------------------------------------------
(* No two containers of one session run at the same time: they would share
   the session directory and write the same outbound.db (container-runner.ts
   on wakePromises, session-manager.ts "One writer per file").              *)
SingleContainer ==
  \A s, t \in Slot : proc[s] # "off" /\ proc[t] # "off" => s = t

(* The exit handler deletes the session's entry by session id, whichever
   handle it belongs to. It never deletes the entry of a later container:
   the only handle with a pending handler is the tracked one.               *)
HandlerOwnsEntry == watch \subseteq {active}

(* An entry never outlives its handler (a zombie entry would make every
   later wake a no-op), a callback is never left on a handle nobody watches,
   and wakePromises holds exactly the one spawn in flight, which never runs
   beside a tracked container.                                              *)
MapsAgree ==
  /\ active # NoSlot => active \in watch
  /\ onExit \subseteq watch
  /\ waking => active = NoSlot
  /\ waking <=> setup = 1
  /\ setup <= 1

(* Once the host runs again after a crash no container of an earlier host
   runs (types.ts, ContainerRuntimeProvider.cleanupOrphans: "Stop orphan
   containers from this install").                                          *)
OrphansStopped ==
  [][HostRestart => \A s \in Slot : proc'[s] = "off"]_runnerVars

(* A dead container's entry is eventually removed, so that a later wake is
   not swallowed by it. (Or the host died and the entry with it.)           *)
NoZombieEntry ==
  \A s \in Slot : (active = s /\ proc[s] # "alive") ~> (active # s)

(* restartAgentGroupContainers promises a fresh container: a kill with a
   callback whose container ends leads to a new spawn attempt.              *)
RestartWakes ==
  \A s \in Slot :
    (s \in onExit /\ proc[s] # "alive") ~> (waking \/ host = "down")
==============================================================================
