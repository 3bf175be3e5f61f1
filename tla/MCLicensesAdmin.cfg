SPECIFICATION Spec
CONSTANTS
  Ids = {1, 2}
  Products = {p1}
  NoProd = NoProd
  MaxTime = 2
  Slots = {s1, s2}
  Enabled = {"grant", "assign", "extend", "revoke", "lapse", "terminate", "seats"}
  Backfilled = {1}
  MaxAsks = 1
  FirstEnd = 0
SYMMETRY Symmetry
ACTION_CONSTRAINT SmallWhenStanding
INVARIANTS MirrorsAgree
PROPERTIES KeepsRegister EndedIsFinal TermNeverShrinks LapseIsDue LastEndSweeps
CHECK_DEADLOCK FALSE
