SPECIFICATION SessionSpec
CONSTANTS
  Runtime = "docker"
  MaxSpawns = 2
  MaxContainers = 2
  StopFails = FALSE
  Chat = {c1}
  Clear = {}
  Task = {}
  Context = {}
  OnWake = {}
  Answer = {}
  BatchLimit = 1
  MaxTries = 1
  BackoffBase = 1
  ClaimStuck = 1
  IdleThreshold = 1
  Ceiling = 2
  BashTimeout = 0
  MaxFaults = 1
PROPERTIES
  LostClaimCostsATry
