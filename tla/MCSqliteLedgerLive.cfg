SPECIFICATION SqlSpec
CONSTANTS
  r1 = r1
  r2 = r2
  tA = tA
  ann = ann
  bob = bob
  w1 = w1
  w2 = w2
  w3 = w3
  Requests = {r1}
  Tenants <- MCTenants
  Users <- MCOneUser
  TenantOf <- MCTenantOfOne
  LastDay = 1
  Days <- MCDays
  Amounts <- MCEdgeAmounts
  Charges <- MCEdgeCharges
  LimitsOf <- MCOneLimit
  MaxMicros = 3
  Writers = {w1, w2, w3}
  PoolSize = 2
PROPERTIES
  EveryCallReturns
CHECK_DEADLOCK FALSE
