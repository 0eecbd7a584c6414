SPECIFICATION SessionSpec
CONSTANTS
  Runtime = "docker"
  MaxSpawns = 2
  MaxContainers = 2
  StopFails = FALSE
  Chat = {c1}
  Clear = {k1}
  Task = {}
  Context = {x1}
  OnWake = {}
  Answer = {}
  BatchLimit = 1
  MaxTries = 2
  BackoffBase = 1
  ClaimStuck = 1
  IdleThreshold = 1
  Ceiling = 2
  BashTimeout = 3
  MaxFaults = 2
INVARIANTS
  
  SingleContainer
  ClaimHeld
  WorkedOnOnce
  
PROPERTIES
  HostWritesAlone
  
  ImplementsLifecycle
SYMMETRY RowSymmetry
