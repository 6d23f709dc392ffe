SPECIFICATION Spec
CONSTANTS
  r1 = r1
  r2 = r2
  r3 = r3
  tA = tA
  tB = tB
  ann = ann
  bob = bob
  cid = cid
  Requests <- MCRequests
  Tenants <- MCTenants
  Users <- MCUsers
  TenantOf <- MCTenantOf
  Days <- MCDays
  Amounts <- MCAmounts
  Charges <- MCCharges
  LimitsOf <- MCLimitsOf
  MaxMicros <- MCMaxMicros
SYMMETRY RequestSymmetry
INVARIANTS
  TypeOK
  Conservation
  BudgetCap
PROPERTIES
  RefundBySettlementOnly
  RowsAreFinal
CHECK_DEADLOCK FALSE
