SPECIFICATION FairSpec
CONSTANTS
  Ids = {1, 2}
  Products = {p1}
  NoProd = NoProd
  MaxTime = 2
  Slots = {s1, s2}
  Enabled = {"grant", "assign", "extend", "lapse", "disown"}
  Backfilled = {}
  MaxAsks = 0
  FirstEnd = 1
PROPERTY DueTermEnds
CHECK_DEADLOCK FALSE
