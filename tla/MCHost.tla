-------------------------------- MODULE MCHost --------------------------------
(***************************************************************************)
(* The host process: its starts (HostBoot), and the containers it runs      *)
(* (ContainerRunner) under both providers.  The two share no state, so a    *)
(* behaviour is one of one of them.  The provider is read from the          *)
(* environment at the first spawn and kept from then on                    *)
(* (adapters/container/index.ts, getContainerRuntimeProvider), so it is     *)
(* chosen at the start and never changes.                                  *)
(***************************************************************************)
EXTENDS HostBoot

CONSTANTS MaxSpawns, MaxContainers, StopFails

VARIABLES part, host, active, waking, setup, born, proc, watch, onExit

Docker == INSTANCE ContainerRunner WITH Runtime <- "docker"
K8s    == INSTANCE ContainerRunner WITH Runtime <- "k8s"

runnerVars == <<host, active, waking, setup, born, proc, watch, onExit>>

HostInit ==
  /\ part \in {"boot", "docker", "k8s"}
  /\ BootInit /\ Docker!RunnerInit
  /\ part # "boot" => probed = FALSE

HostNext ==
  /\ UNCHANGED part
  /\ \/ part = "boot" /\ BootNext /\ UNCHANGED runnerVars
     \/ part = "docker" /\ Docker!RunnerNext /\ UNCHANGED bootVars
     \/ part = "k8s" /\ K8s!RunnerNext /\ UNCHANGED bootVars

hostVars == <<part, bootVars, runnerVars>>

HostSpec ==
  /\ HostInit /\ [][HostNext]_hostVars
  /\ part = "boot" => BootFairness
  /\ part = "docker" => Docker!RunnerFairness
  /\ part = "k8s" => K8s!RunnerFairness

-----------------------------------------------------------------------------
(* The properties of ContainerRunner that hold whichever provider is used:
   they speak of the maps and the processes only.                           *)
NoZombieEntry == Docker!NoZombieEntry
RestartWakes  == Docker!RestartWakes

\* ComesUp, for the behaviours of the boot.
HostComesUp == part = "boot" => ComesUp

\* BACKOFF_SCHEDULE_S with its steps shortened and its shape kept.
MCSchedule == <<0, 0, 1, 2, 4>>
==============================================================================
