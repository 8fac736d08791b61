SPECIFICATION MCSpec
CONSTANTS
  Backends = {b1, b2}
  Keys = {k1}
  Transactions = {t1, t2}
  Slots = {1, 2}
  MaxCrashes = 1
  MaxDamage = 1
  MaxRefusals = 1
  Nil = Nil
  Homes = {b1, b2}
  Sessions = {t1, t2}
  Settings <- MCSettings
  LiveCap <- MCLiveCap
  MaxJobs = 1
INVARIANTS TypesOK AbortedIsUnpublished LeavesNoFiles NothingRunsOn DamagedIsNotVerified SessionsApart
SYMMETRY Symmetry
CHECK_DEADLOCK FALSE
