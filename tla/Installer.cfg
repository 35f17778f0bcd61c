SPECIFICATION FairSpec
CONSTANTS
  None = None
  w1 = w1
  w2 = w2
  a = a
  b = b
  d1 = d1
  d2 = d2
  Wizards = {w1, w2}
  Clients = {a, b}
  Databases = {d1, d2}
  Migrations = 2
  MaxTrouble = 3
CHECK_DEADLOCK FALSE
INVARIANT
  LockedIsWhole
PROPERTY
  EndsLocked
