SPECIFICATION Spec
CONSTANTS
  Backends = {b1}
  Keys = {k1}
  Transactions = {t1}
  Slots = {1}
  MaxCrashes = 0
  MaxDamage = 0
  MaxRefusals = 0
  Nil = Nil
INVARIANT TimeoutQuarantines
CHECK_DEADLOCK FALSE
