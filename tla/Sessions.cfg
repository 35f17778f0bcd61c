SPECIFICATION Spec
CONSTANTS
  ann = ann
  bob = bob
  acme = acme
  c1 = c1
  c2 = c2
  Staff = Staff
  Nobody = Nobody
  Emails = {ann, bob}
  Tenants = {acme}
  Clients = {c1, c2}
  MaxFailed = 1
  Lockout = 1
  RefreshTTL = 1
  Initially <- Empty
  MaxTokens = 4
  MaxTime = 2
  MaxOrders = 2
  MaxFaults = 1
INVARIANTS
  SpentOnce
PROPERTIES
  SuspendedStaysOut
SYMMETRY Symmetry
CHECK_DEADLOCK FALSE
