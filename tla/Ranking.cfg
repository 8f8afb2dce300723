SPECIFICATION Spec
CONSTANTS
  t1 = t1
  t2 = t2
  Team <- TwoTeams
  MaxRuns <- OneAhead
  Never = 4
  Verdicts <- TwoScores
  Statuses = {"active", "disqualified"}
INVARIANTS  DisqualifiedGone 
PROPERTIES AttemptsNeverHurt
