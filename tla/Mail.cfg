SPECIFICATION Spec
CONSTANTS
  none = none
  one = one
  c1 = c1
  c2 = c2
  Customers = {none, one}
  Limit <- MCLimit
  Domains = {"d"}
  LocalParts = {"a", "b", "e"}
  CatchAll = "*"
  Targets <- MCTargets
  Clients = {c1, c2}
  MaxDepth = 20
  MaxRows = 2
INVARIANTS
  WalkFindsLoops
  LoopsNeedCatchAll
  OversellBounded
  CarriesOnlyProved
SYMMETRY Symmetry
CHECK_DEADLOCK FALSE
