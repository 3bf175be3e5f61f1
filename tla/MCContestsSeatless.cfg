SPECIFICATION Spec
CONSTANTS
  Filed = {c1, c2}
  Powered = {c1}
  Licenses = {l1}
  Seats = {a, b}
  Slots = {s1, s2}
  Enabled = {"submit", "loss", "return"}
  MaxTime = 1
SYMMETRY Symmetry
INVARIANT SeatlessOwnerHasNone
CHECK_DEADLOCK FALSE
