SPECIFICATION Spec
CONSTANTS
  None = None
  Lines <- AllLines
  MaxLines = 3
  Discounts = {0, 1, 4, 6}
  Cycles = {"MONTHLY", "QUARTERLY", "BIENNIAL"}
  Starts <- AwkwardDates
  Prices = {365, 1000}
  Lateness <- AroundAPeriod
  MaxPeriods = 3
INVARIANTS
  TypeOK
  TotalsReconcile
  CreditMirrors
  DiscountNearlyShared
  RenewsOnAnniversary
  LeavesThePaidPeriod
  CreditShrinks
CHECK_DEADLOCK FALSE
