SPECIFICATION Spec
CONSTANTS
  c1 = c1
  c2 = c2
  s1 = s1
  s2 = s2
  basic = basic
  pro = pro
  None = None
  Customers = {c1}
  SubIds = {s1, s2}
  Existing = {s1}
  Owner <- SameCustomer
  Plans = {basic}
  OnSale = {basic}
  Cycle <- MonthlyOnly
  Sweepers = {w1}
  Admins = {a1}
  Requests = {"subscribe"}
  Batch = 2
  Horizon = 3
  MaxRequests = 1
  MaxFaults = 0
INVARIANTS
  OneLivePerCustomer
