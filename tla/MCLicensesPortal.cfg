SPECIFICATION Spec
CONSTANTS
  Ids = {1, 2, 3}
  Products = {p1, p2}
  NoProd = NoProd
  MaxTime = 2
  Slots = {s1, s2}
  Enabled = {"grant", "assign", "flag", "ask", "approve", "decline", "lapse"}
  Backfilled = {3}
  MaxAsks = 2
  FirstEnd = 1
SYMMETRY Symmetry
ACTION_CONSTRAINTS SmallWhenHandled LateWhenOpenEnded
INVARIANTS TypeOK FlagHasProduct
PROPERTIES LeavesOnlyByRequest LongestAssignedKeep
CHECK_DEADLOCK FALSE
