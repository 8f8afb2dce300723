SPECIFICATION FairSpec
CONSTANTS
  t1 = t1
  t2 = t2
  s1 = s1
  s2 = s2
  r1 = r1
  r2 = r2
  None = None
  MayCrash = TRUE
  Team <- OneTeam
  Sub <- TwoSubs
  Req <- TwoReqs
  Owner <- OwnedByOne
  Ops <- ScoringOps
  Limit = 1
PROPERTIES RequestsAnswered
