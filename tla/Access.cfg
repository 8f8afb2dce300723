SPECIFICATION Spec
CONSTANTS
  a1 = a1
  a2 = a2
  n1 = n1
  n2 = n2
  t1 = t1
  t2 = t2
  t3 = t3
  c1 = c1
  Admins <- TwoAdmins
  Clients = {c1}
  Names <- TwoNames
  Batches <- OneBatch
  Tokens <- ThreeTokens
  JwtTokens <- OneJwt
  Choices = {"active", "suspended"}
  MaxTeams = 2
  MaxAudit = 2
SYMMETRY Symmetry
INVARIANTS AuthSound NeverLockedOut DisplaysSequential StatusAuditChains RevokedForGood
