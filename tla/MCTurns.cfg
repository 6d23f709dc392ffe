SPECIFICATION TurnSpec
CONSTANTS
  r1 = r1
  r2 = r2
  tA = tA
  ann = ann
  a1 = a1
  a2 = a2
  a3 = a3
  Requests <- MCRequests
  Tenants <- MCTenants
  Users <- MCUsers
  TenantOf <- MCTenantOf
  Days <- MCDays
  Amounts <- MCAmounts
  Charges <- MCCharges
  LimitsOf <- MCLimitsOf
  MaxMicros = 6
  Attempts = {a1, a2, a3}
  OwnerOf <- MCOwnerOf
  Slots = 2
  Capacity = 2
SYMMETRY Symmetry
INVARIANTS
  TurnTypeOK
  PermitsConserved
  InferenceIsReserved
  AskedOnce
  OutcomeMatchesLedger
CHECK_DEADLOCK FALSE
