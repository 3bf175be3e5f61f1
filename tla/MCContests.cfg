SPECIFICATION Spec
CONSTANTS
  Filed = {c1, c2}
  Powered = {c1}
  Licenses = {l1, l2}
  Seats = {a, b}
  Slots = {s1, s2}
  Enabled = {"submit", "decide", "answer", "end", "loss", "return"}
  MaxTime = 1
SYMMETRY Symmetry
INVARIANTS TypeOK StrandedByCollisionOnly
PROPERTIES OwnerDecidesLicensed AeciForGood
CHECK_DEADLOCK FALSE
