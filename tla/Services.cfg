SPECIFICATION ServicesSpec
CONSTANTS
  Biblio = {b1, b2}
  Job = {j1, j2}
  MaxAcquires = 2
  MaxDeaths = 1
  Ask = {r1, r2, r3}
  Thread = {t1, t2}
  MaxCollapses = 1
  JobName = {n1, n2}
  MaxOutages = 2
  Writer = {w1, w2}
  Retries = 2
  MaxNumbers = 4
  MaxBusy = 1
  MaxRows = 4
  MaxFaults = 2
SYMMETRY ServicesSymmetry
INVARIANTS
  
  
  ExitsHeard
  LostWasCrowdedOut
  OneLiveRow
  SeriesAlive
  QuietStopHolds
CHECK_DEADLOCK FALSE
