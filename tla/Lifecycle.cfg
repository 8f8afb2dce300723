SPECIFICATION Spec
CONSTANTS
  t1 = t1
  t2 = t2
  s1 = s1
  s2 = s2
  r1 = r1
  r2 = r2
  None = None
  MayCrash = TRUE
  Team <- TwoTeams
  Sub <- TwoSubs
  Req <- TwoReqs
  Owner <- OwnedByOne
  Ops <- AllOps
  Limit = 1
SYMMETRY Symmetry
INVARIANTS IInv OneActive WithinLimit
PROPERTIES CompletionLostOnlyToPoll NoStartWhileSuspended OnlyOwnerMoves ImplementsFSM
