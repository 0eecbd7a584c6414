SPECIFICATION HostSpec
CONSTANTS
  MaxSpawns = 2
  MaxContainers = 3
  StopFails = TRUE
  Schedule <- MCSchedule
  ResetWindow = 8
  StartupLimit = 3
  MaxHarm = 9
INVARIANTS
  CrashLoopSlows
PROPERTIES
  
  
  HostComesUp
