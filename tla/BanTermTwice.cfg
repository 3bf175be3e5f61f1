SPECIFICATION BanSpec
CONSTANTS
  Calls = {c1}
  Grants = {g1, g2}
  NoGrant = NoGrant
  MaxLicenses = 5
  MaxWrites = 8
INVARIANT RestoredOnce
CHECK_DEADLOCK FALSE
