SPECIFICATION Spec
CONSTANTS
  Ids = {1, 2}
  Products = {p1, p2}
  NoProd = NoProd
  MaxTime = 1
  Slots = {s1, s2}
  Enabled = {"grant", "assign", "revoke"}
  Backfilled = {}
  MaxAsks = 0
  FirstEnd = 1
SYMMETRY Symmetry
INVARIANT PlanEndMirror
CHECK_DEADLOCK FALSE
