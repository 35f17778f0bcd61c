SPECIFICATION Spec
CONSTANTS
  c1 = c1
  c2 = c2
  s1 = s1
  s2 = s2
  basic = basic
  pro = pro
  None = None
  Customers = {c1}
  SubIds = {s1, s2}
  Existing = {s1}
  Owner <- SameCustomer
  Plans = {basic, pro}
  OnSale = {basic, pro}
  Cycle <- CycleInTicks
  Sweepers = {w1}
  Admins = {a1, a2}
  Requests = {"changePlan", "subscribe", "renew"}
  Batch = 1
  Horizon = 3
  MaxRequests = 2
  MaxFaults = 1
INVARIANTS
  RenewalInv
PROPERTIES
  RenewsAtFollowsInvoice
