SPECIFICATION SqlSpec
CONSTANTS
  r1 = r1
  r2 = r2
  tA = tA
  ann = ann
  bob = bob
  w1 = w1
  w2 = w2
  w3 = w3
  Requests <- MCRequests
  Tenants <- MCTenants
  Users <- MCUsers
  TenantOf <- MCTenantOf
  LastDay = 2
  Days <- MCDays
  Amounts <- MCAmounts
  Charges <- MCCharges
  LimitsOf <- MCLimitsOf
  MaxMicros = 3
  Writers = {w1, w2}
  PoolSize = 2
SYMMETRY Symmetry
INVARIANTS
  SqlTypeOK
  OneWinner
PROPERTIES
  ImplementsLedger
CHECK_DEADLOCK FALSE
