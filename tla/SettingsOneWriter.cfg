SPECIFICATION Spec
CONSTANTS
  phase = phase
  custom = custom
  r1 = r1
  r2 = r2
  Absent = Absent
  Ranked <- OneKey
  Value <- Ranks
  Key <- OneKey
  Allowed <- OneAccepts
  Default <- OneDefaults
  Req <- Both
  Writers <- One
  Ops <- AllOps
  MayFail = TRUE
  Rows = 4
INVARIANTS
  AuditIsHistory
PROPERTIES
  PhaseForward
