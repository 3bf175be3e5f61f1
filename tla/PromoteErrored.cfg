SPECIFICATION PromoteSpec
CONSTANTS
  Jobs = {j1, j2}
  Runs = {x1, x2}
  NoJob = NoJob
  MaxPlans = 2
INVARIANT BundleMergedOnce
CHECK_DEADLOCK FALSE
