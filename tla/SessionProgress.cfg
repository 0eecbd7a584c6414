SPECIFICATION FairSessionSpec
CONSTANTS
  Runtime = "docker"
  MaxSpawns = 1
  MaxContainers = 1
  StopFails = FALSE
  Chat = {c1}
  Clear = {}
  Task = {t1}
  Context = {}
  OnWake = {}
  Answer = {}
  BatchLimit = 2
  MaxTries = 1
  BackoffBase = 1
  ClaimStuck = 1
  IdleThreshold = 1
  Ceiling = 2
  BashTimeout = 0
  MaxFaults = 1
PROPERTIES
  
  BeatenIsReleased
