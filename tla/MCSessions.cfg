SPECIFICATION Spec
CONSTANTS
  k1 = k1
  k2 = k2
  k3 = k3
  alice = alice
  zoe = zoe
  e1 = e1
  e2 = e2
  e3 = e3
  c1 = c1
  c2 = c2
  Tickets <- MCTickets
  ClaimsOf <- MCClaimsOf
  Logins = {alice, zoe}
  Keys = {k1, k2, k3}
  Exchanges = {e1, e2, e3}
  Calls = {c1, c2}
  TicketLife = 2
  Skew = 0
  CredentialLife = 2
  RegistrationLife = 3
  LastTick = 4
SYMMETRY Symmetry
INVARIANTS
  TypeOK
  RevokedStaysOut
  TicketBuysOnce
  CredentialsAreBounded
  RegistrationsFollowTheLogin
PROPERTIES
  NoCredentialAfterRevoke
CHECK_DEADLOCK FALSE
