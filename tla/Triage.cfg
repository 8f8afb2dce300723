SPECIFICATION Spec
CONSTANTS
  Weights <- DefaultWeights
  Budget = 8
  Employees = {"e1"}
  Domains = {"d1"}
  Messages = {"m1", "m2", "m3"}
  Threads = {"t1"}
  ThreadOf <- OneThread
  Calls <- SomeCalls
  Truths <- HiddenTruths
  Answers <- FewAnswers
  Padding <- SomeStrangers
  MaxRuns = 2
  MaxCalls = 3
INVARIANTS WorldFollowsLog EvidenceIsDice FabricationNeverPays DecisionsRank
PROPERTIES EvidenceNeverLost RepeatedReadNeverPays
CHECK_DEADLOCK FALSE
