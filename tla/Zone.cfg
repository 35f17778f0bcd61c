SPECIFICATION ZoneSpec
CONSTANTS
  c1 = c1
  c2 = c2
  c3 = c3
  None = None
  Contents <- Asked
  Policy <- Declared
  Requests = {c1, c2, c3}
  MaxOrders = 4
SYMMETRY Symmetry
CHECK_DEADLOCK FALSE
INVARIANTS
  RulesUnlessSideBySide
  PublishedIsUpstream
