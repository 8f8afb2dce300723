SPECIFICATION Spec
CONSTANTS
  r1 = r1
  r2 = r2
  Thread <- TwoThreads
  NoThread = NoThread
  NTasks = 2
  Reveal = TRUE
  MaxSubs = 2
  MaxWorlds = 3
  MaxLogs = 2
  MaxEvals = 2
  Others <- Nobody
  Free <- Anything
INVARIANTS IInv OneWorldPerTask ResultsBacked
PROPERTIES ResultsNeverLost MainEnds
CHECK_DEADLOCK FALSE
