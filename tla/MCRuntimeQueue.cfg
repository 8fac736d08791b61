SPECIFICATION Spec
CONSTANTS
  NRequests = 3
  NBatchers = 2
  Groups = {g1, g2}
  MaxGroups = 1
  MaxBatch = 2
  MaxPending = 2
  MaxWait = 1
  Slo = 1
  MaxTime = 1
  Nil = Nil
INVARIANTS TypeOK ResolvesOnlyRunning NoOvertaking CloseIsClean
PROPERTY EveryRequestAnswered
CHECK_DEADLOCK FALSE
