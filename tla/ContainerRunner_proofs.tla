------------------------ MODULE ContainerRunner_proofs ------------------------
(***************************************************************************)
(* Proofs about the container lifecycle of one session: what its two maps   *)
(* promise under either runtime, and what only the docker runtime, when     *)
(* `docker stop` works, promises about the processes themselves.            *)
(***************************************************************************)
EXTENDS ContainerRunner, TLAPS

LEMMA NoSlotIsNone == NoSlot \notin Slot
BY DEF NoSlot, Slot

(* RunnerTypeOK without the one Boolean variable, which is dealt with apart
   because the arithmetic prover does not mix Booleans and numbers well.     *)
Shape ==
  /\ host \in {"up", "down"}
  /\ active \in Slot \cup {NoSlot}
  /\ setup \in 0..MaxSpawns
  /\ born \in Slot \cup {NoSlot}
  /\ proc \in [Slot -> ProcState]
  /\ watch \in SUBSET Slot
  /\ onExit \in SUBSET Slot

(* The maps' invariant. Nothing is said of `proc`: the bookkeeping is right
   whatever the runtime does to the processes.                              *)
MapsInv == waking \in BOOLEAN /\ Shape /\ HandlerOwnsEntry /\ MapsAgree

LEMMA MapsInvTyped == MapsInv => RunnerTypeOK
<1> SUFFICES ASSUME MapsInv PROVE RunnerTypeOK
  OBVIOUS
<1>1. waking \in BOOLEAN /\ Shape
  BY DEF MapsInv
<1> QED
  BY <1>1, Zenon DEF RunnerTypeOK, Shape

LEMMA MapsInvInit == RunnerInit => MapsInv
<1> SUFFICES ASSUME RunnerInit PROVE MapsInv
  OBVIOUS
<1>1. Shape
  BY SpawnAssumption DEF RunnerInit, Shape, ProcState
<1>2. HandlerOwnsEntry /\ MapsAgree
  BY DEF RunnerInit, HandlerOwnsEntry, MapsAgree
<1>3. waking \in BOOLEAN
  BY DEF RunnerInit
<1> QED
  BY <1>1, <1>2, <1>3 DEF MapsInv

(* One runner step keeps the maps' invariant. A spawn that ends finds no
   entry, because the wake that started it did and none came in between; an
   exit handler that runs belongs to the entry it deletes.                  *)
LEMMA MapsInvStep == MapsInv /\ [RunnerNext]_runnerVars => MapsInv'
<1> SUFFICES ASSUME MapsInv, [RunnerNext]_runnerVars PROVE MapsInv'
  OBVIOUS
<1>b. waking' \in BOOLEAN
  BY DEF MapsInv, RunnerNext, runnerVars, Wake, SpawnRefused, SpawnDocker, JobAccepted, JobResponse,
         JobResponseLost, SpawnEnds, Kill, ProcExit, ExitHandled, HostCrash, HostRestart
<1> SUFFICES Shape' /\ HandlerOwnsEntry' /\ MapsAgree'
  BY <1>b DEF MapsInv
<1> USE SpawnAssumption, NoSlotIsNone DEF MapsInv, Shape, HandlerOwnsEntry, MapsAgree
<1>1. CASE Wake
  BY <1>1 DEF Wake
<1>0. ASSUME SpawnEnds PROVE /\ active = NoSlot /\ watch = {} /\ onExit = {}
                             /\ waking' = FALSE /\ setup' = 0
  <2>1. setup = 1 /\ waking
    BY <1>0 DEF SpawnEnds
  <2>2. active = NoSlot /\ watch = {} /\ onExit = {}
    BY <2>1
  <2> QED
    BY <1>0, <2>1, <2>2 DEF SpawnEnds
<1>2. CASE SpawnRefused
  BY <1>2, <1>0 DEF SpawnRefused
<1>3. CASE SpawnDocker
  <2>1. active = NoSlot /\ watch = {} /\ onExit = {} /\ waking' = FALSE /\ setup' = 0
    BY <1>3, <1>0 DEF SpawnDocker
  <2>2. PICK s \in Slot : proc' = [proc EXCEPT ![s] = "alive"] /\ active' = s /\ watch' = {s}
    BY <1>3, <2>1 DEF SpawnDocker
  <2> QED
    BY <1>3, <2>1, <2>2 DEF SpawnDocker, ProcState
<1>4. CASE JobAccepted
  <2>1. PICK s \in Slot : proc' = [proc EXCEPT ![s] = "alive"] /\ born' = s
    BY <1>4 DEF JobAccepted
  <2> QED
    BY <1>4, <2>1 DEF JobAccepted, ProcState
<1>5. CASE JobResponse
  <2>1. active = NoSlot /\ watch = {} /\ onExit = {} /\ waking' = FALSE /\ setup' = 0
    BY <1>5, <1>0 DEF JobResponse
  <2> QED
    BY <1>5, <2>1 DEF JobResponse
<1>6. CASE JobResponseLost
  BY <1>6, <1>0 DEF JobResponseLost
<1>7. ASSUME NEW withCallback \in BOOLEAN, Kill(withCallback) PROVE Shape' /\ HandlerOwnsEntry' /\ MapsAgree'
  <2>1. PICK after \in AfterStop :
          proc' = [proc EXCEPT ![active] = IF @ = "alive" THEN after ELSE @]
    BY <1>7 DEF Kill, StopProc
  <2>2. AfterStop \subseteq ProcState
    BY DEF AfterStop, ProcState
  <2>3. proc' \in [Slot -> ProcState]
    BY <1>7, <2>1, <2>2 DEF Kill
  <2> QED
    BY <1>7, <2>3 DEF Kill
<1>8. ASSUME NEW s \in Slot, ProcExit(s) PROVE Shape' /\ HandlerOwnsEntry' /\ MapsAgree'
  BY <1>8 DEF ProcExit, ProcState
<1>9. ASSUME NEW s \in Slot, ExitHandled(s) PROVE Shape' /\ HandlerOwnsEntry' /\ MapsAgree'
  <2>1. active = s /\ watch' = {} /\ onExit' = {} /\ ~waking /\ setup = 0
    BY <1>9 DEF ExitHandled
  <2> QED
    BY <1>9, <2>1 DEF ExitHandled
<1>10. CASE HostCrash
  BY <1>10 DEF HostCrash
<1>11. CASE HostRestart
  BY <1>11 DEF HostRestart
<1>12. CASE UNCHANGED runnerVars
  BY <1>12 DEF runnerVars
<1> QED
  BY <1>1, <1>2, <1>3, <1>4, <1>5, <1>6, <1>7, <1>8, <1>9, <1>10, <1>11, <1>12 DEF RunnerNext

(* Under either runtime, for any number of containers and of wakes, the maps
   are well typed, ...                                                      *)
THEOREM RunnerTypeCorrect == RunnerSpec => []RunnerTypeOK
<1> QED
  BY MapsInvTyped, MapsInvInit, MapsInvStep, PTL DEF RunnerSpec

(* ... an exit handler only ever deletes the entry of its own container, ... *)
THEOREM HandlerOwnsEntryHolds == RunnerSpec => []HandlerOwnsEntry
<1>1. MapsInv => HandlerOwnsEntry
  BY DEF MapsInv
<1> QED
  BY <1>1, MapsInvInit, MapsInvStep, PTL DEF RunnerSpec

(* ... and entry, wake promise, handler and callback agree: no zombie entry,
   no second spawn beside the first.                                        *)
THEOREM MapsAgreeHolds == RunnerSpec => []MapsAgree
<1>1. MapsInv => MapsAgree
  BY DEF MapsInv
<1> QED
  BY <1>1, MapsInvInit, MapsInvStep, PTL DEF RunnerSpec

-----------------------------------------------------------------------------
(* docker whose `docker stop` works: a process that exists is the tracked one
   while the host runs, and there is at most one while it does not.          *)
Reliable == Runtime = "docker" /\ StopFails = FALSE

Tracked ==
  /\ born = NoSlot
  /\ \A s \in Slot : proc[s] # "loose"
  /\ host = "up" => \A s \in Slot : proc[s] # "off" => s = active
  /\ host = "down" => setup = 0 /\ watch = {}

ProcInv == MapsInv /\ Tracked /\ SingleContainer

LEMMA ProcInvInit == RunnerInit => ProcInv
BY MapsInvInit DEF RunnerInit, ProcInv, Tracked, SingleContainer

LEMMA ProcInvStep == Reliable /\ ProcInv /\ [RunnerNext]_runnerVars => ProcInv'
<1> SUFFICES ASSUME Reliable, ProcInv, [RunnerNext]_runnerVars PROVE ProcInv'
  OBVIOUS
<1>0. MapsInv'
  BY MapsInvStep DEF ProcInv
<1> SUFFICES Tracked' /\ SingleContainer'
  BY <1>0 DEF ProcInv
<1> USE NoSlotIsNone DEF ProcInv, Tracked, SingleContainer, MapsInv, Shape, HandlerOwnsEntry, MapsAgree
<1>1. CASE Wake
  BY <1>1 DEF Wake
<1>2. CASE SpawnRefused
  BY <1>2 DEF SpawnRefused, SpawnEnds
<1>3. CASE SpawnDocker
  <2>1. host = "up" /\ active = NoSlot
    BY <1>3 DEF SpawnDocker, SpawnEnds
  <2>2. \A s \in Slot : proc[s] = "off"
    BY <2>1
  <2>3. PICK s \in Slot : proc' = [proc EXCEPT ![s] = "alive"] /\ active' = s
    BY <1>3 DEF SpawnDocker
  <2>4. \A t \in Slot : proc'[t] # "loose" /\ (proc'[t] # "off" => t = s)
    BY <2>2, <2>3
  <2> QED
    BY <1>3, <2>1, <2>3, <2>4 DEF SpawnDocker, SpawnEnds
<1>4. CASE JobAccepted \/ JobResponse \/ JobResponseLost
  BY <1>4 DEF JobAccepted, JobResponse, JobResponseLost, Reliable
<1>5. ASSUME NEW withCallback \in BOOLEAN, Kill(withCallback) PROVE Tracked' /\ SingleContainer'
  <2>1. AfterStop = {"off"}
    BY DEF AfterStop, Reliable
  <2>2. proc' = [proc EXCEPT ![active] = IF @ = "alive" THEN "off" ELSE @]
    BY <1>5, <2>1 DEF Kill, StopProc
  <2>3. \A t \in Slot : proc'[t] = "off" \/ proc'[t] = proc[t]
    BY <2>2
  <2> QED
    BY <1>5, <2>3 DEF Kill
<1>6. ASSUME NEW s \in Slot, ProcExit(s) PROVE Tracked' /\ SingleContainer'
  <2>1. \A t \in Slot : proc'[t] = "off" \/ proc'[t] = proc[t]
    BY <1>6 DEF ProcExit
  <2> QED
    BY <1>6, <2>1 DEF ProcExit
<1>7. ASSUME NEW s \in Slot, ExitHandled(s) PROVE Tracked' /\ SingleContainer'
  <2>1. active = s /\ host = "up"
    BY <1>7 DEF ExitHandled
  <2>2. \A t \in Slot : proc[t] = "off"
    BY <1>7, <2>1 DEF ExitHandled
  <2> QED
    BY <1>7, <2>1, <2>2 DEF ExitHandled
<1>8. CASE HostCrash
  BY <1>8 DEF HostCrash
<1>9. CASE HostRestart
  <2>1. \A s \in Slot : proc'[s] = "off"
    BY <1>9 DEF HostRestart, Reliable
  <2> QED
    BY <1>9, <2>1 DEF HostRestart
<1>10. CASE UNCHANGED runnerVars
  BY <1>10 DEF runnerVars
<1> QED
  BY <1>1, <1>2, <1>3, <1>4, <1>5, <1>6, <1>7, <1>8, <1>9, <1>10 DEF RunnerNext

(* With docker, and as long as `docker stop` works, two containers of one
   session never run at the same time, host crashes and restarts included.  *)
THEOREM SingleContainerHolds == ASSUME Reliable PROVE RunnerSpec => []SingleContainer
<1>1. ProcInv => SingleContainer
  BY DEF ProcInv
<1> QED
  BY <1>1, ProcInvInit, ProcInvStep, PTL DEF RunnerSpec

(* Under the same condition no container outlives the host that started it
   by more than the host's next start.                                      *)
THEOREM OrphansStoppedHolds == ASSUME Reliable PROVE RunnerSpec => OrphansStopped
<1>1. [RunnerNext]_runnerVars => [HostRestart => \A s \in Slot : proc'[s] = "off"]_runnerVars
  BY DEF HostRestart, Reliable
<1> QED
  BY <1>1, PTL DEF RunnerSpec, OrphansStopped
==============================================================================
