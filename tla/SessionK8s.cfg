SPECIFICATION SessionSpec
CONSTANTS
  Runtime = "k8s"
  MaxSpawns = 2
  MaxContainers = 2
  StopFails = TRUE
  Chat = {}
  Clear = {}
  Task = {}
  Context = {}
  OnWake = {w1}
  Answer = {a1}
  BatchLimit = 1
  MaxTries = 1
  BackoffBase = 1
  ClaimStuck = 1
  IdleThreshold = 1
  Ceiling = 2
  BashTimeout = 0
  MaxFaults = 1
INVARIANTS
  CompletedWasHandled
  SessionTypeOK
