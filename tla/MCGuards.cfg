SPECIFICATION Spec
CONSTANTS
  p1 = p1
  p2 = p2
  w1 = w1
  w2 = w2
  s1 = s1
  s2 = s2
  s3 = s3
  r1 = r1
  r2 = r2
  LastTick = 5
  PeerKeys <- MCPeerKeys
  Workers = {w1, w2}
  Window = 3
  QuotaOf <- MCQuotaOf
  TableSize = 2
  MaxLag = 1
  Sessions = {s1, s2, s3}
  Requests = {r1, r2}
  MaxAttempts = 2
  Lockout = 3
  MaxSessions = 2
  SessionLife = 2
  TestGap = 2
SYMMETRY Symmetry
INVARIANTS
  TypeOK
  RefusalsAreEarned
  SignInOpensAgain
  FormsActForTheirSession
PROPERTIES
  QuotaIsKept
  PanelIsThrottled
CHECK_DEADLOCK FALSE
