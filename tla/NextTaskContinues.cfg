SPECIFICATION Spec
CONSTANTS
  r1 = r1
  r2 = r2
  Req <- TwoReqs
  None = None
  NSubs = 1
  NTasks = 2
  HiddenCount = 2
  Budget = 1
  RateLimit = 2
  MaxAnswers = 2
  Timed = TRUE
SYMMETRY Symmetry
INVARIANT NextTaskContinues
