SPECIFICATION FairSpec
CONSTANTS
  Ids = {1, 2}
  Products = {p1}
  NoProd = NoProd
  Slots = {daily, hook, second}
  Daily = daily
  Second = second
  MaxTime = 1
  MaxQty = 2
  MaxEvents = 2
  Enabled = {"assign", "flag", "terminate", "toggle"}
INVARIANTS TypeOK BannedIsLast
PROPERTIES KeepsRegister Settles GrantsUpToQuantity
ACTION_CONSTRAINT SecondIsEarly
