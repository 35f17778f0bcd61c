SPECIFICATION Spec
CONSTANTS
  c1 = c1
  c2 = c2
  s1 = s1
  s2 = s2
  basic = basic
  pro = pro
  None = None
  Customers = {c1}
  SubIds = {s1}
  Existing = {s1}
  Owner <- OneSub
  Plans = {basic}
  OnSale = {basic}
  Cycle <- MonthlyOnly
  Sweepers = {w1, w2}
  Admins = {a1, a2}
  Requests = {"renew", "cancel", "pay", "void"}
  Batch = 2
  Horizon = 3
  MaxRequests = 2
  MaxFaults = 1
INVARIANTS
  TypeOK
  OneInvoicePerPeriod
  SweepNeverBillsAhead
  BilledOnlyOnAutoRenew
PROPERTIES
  ExpiresOnlyWhenRunOut
  EndedStaysEnded
  BilledAsPromised
