SPECIFICATION Spec
CONSTANTS
  phase = phase
  custom = custom
  r1 = r1
  r2 = r2
  Absent = Absent
  Ranked <- OneKey
  Value <- Ranks
  Key <- Keys
  Allowed <- Accepts
  Default <- Defaults
  Req <- Both
  Writers <- Both
  Ops <- AllOps
  MayFail = TRUE
  Rows = 2
SYMMETRY ReqPerms
INVARIANTS
  StoredIsAudited
  CachedWasCommitted
PROPERTIES
  BackOnlyByStaleRead
