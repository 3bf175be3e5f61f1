SPECIFICATION MachinesSpec
CONSTANTS
  Rows = {a, b}
  Settlers = {x, y}
  MaxRefunds = 2
  Jobs = {j}
  Runs = {x, y}
  NoJob = NoJob
  MaxPlans = 3
  Urls = {k, l}
  Reports = {x, y}
  Phases = 3
  Window = 3
  MaxClock = 6
  MaxId = 2
  MaxBatch = 2
  Punctual = FALSE
  People = {a, b}
  Claims = {c}
  Invites = {k, l}
  Desks = {x, y}
  NoOne = NoOne
  NoClaim = NoClaim
  NoInvite = NoInvite
  MaxBegun = 4
  Calls = {x, y}
  Grants = {a, b}
  NoGrant = NoGrant
  MaxLicenses = 5
  MaxWrites = 8
INVARIANTS
  RefundTypeOK
  PaidOnce
  PaidMailIsTrue
  PromoteTypeOK
  IndexNowTypeOK
  OwedIsQueued
  AcceptedOnce
  SeatsTypeOK
  VerdictHolds
  InviteSpentOnce
  GrantedOnce
PROPERTIES
  MergedOnce
  SealedStaysShut
  GrantsOneOwner
CHECK_DEADLOCK FALSE
SYMMETRY Symmetry
