SPECIFICATION Spec
CONSTANTS
  r1 = r1
  r2 = r2
  Thread <- TwoThreads
  NoThread = NoThread
  NTasks = 1
  Reveal = TRUE
  MaxSubs = 1
  MaxWorlds = 1
  MaxLogs = 2
  MaxEvals = 1
  Others <- Nobody
  Free <- Lookups
INVARIANT GroundedIsAccepted
CHECK_DEADLOCK FALSE
