SPECIFICATION Spec
CONSTANTS
  kim = kim
  lee = lee
  domain = domain
  site = site
  shop = shop
  store = store
  None = None
  Customers = {kim, lee}
  Keys = {domain, site}
  KindOf <- Kind
  NamesOf <- Reported
  Names = {shop, store}
  Clients = {1, 2}
  Limit = 1
  Window = 1
  Sites <- SiteRows
  Exempt = FALSE
  MaxTime = 3
  MaxOrders = 3
CHECK_DEADLOCK FALSE
INVARIANTS
  ClaimsAgree
  WithinBudget
