SPECIFICATION Spec
CONSTANTS
  shop = shop
  acme = acme
  bolt = bolt
  ann = ann
  m1 = m1
  m2 = m2
  s1 = s1
  s2 = s2
  Issuers = {shop}
  Tenants <- MCTenants
  Subjects = {ann}
  ModelIds = {m1, m2}
  Spellings <- MCSpellings
  NormalOf <- MCNormalOf
  MaxOrigins = 2
  MaxInput = 2
  MaxOutput = 1
  Environments <- MCEnvironments
  SavedPolicies <- MCOnlyNoPolicy
  Saves = {s1, s2}
  Edits <- MCOriginEdits
  Preferences <- MCPreferences
  MaxRegistrations = 0
  MaxTurns = 0
SYMMETRY Symmetry
INVARIANTS
  AnsweredSavesAreLive
