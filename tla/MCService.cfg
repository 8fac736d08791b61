SPECIFICATION MCSpec
CONSTANTS
  Settings = {s}
  Gens = {g1, g2}
  Runs = {a, b}
  Targets = {local, fast}
  Local = local
  NProviders = 2
  Stored = {2}
  Batch = 2
  PinCap = 1
  HandleCap = 1
  MaxChanges = 2
  MaxTasks = 2
  MaxCooldowns = 1
  Reference = Reference
  Nil = Nil
  Files = {f1, f2}
  Preparers = {p1}
  Policies = {"auto-safe", "auto-throughput"}
  MaxRuns = 2
  MaxEdits = 1
  Receipt = Receipt
  ProfileKeys = {"k1"}
  Candidates = {1, 2, 3, 4, 5}
  Portfolio = {5}
  Explored <- MCExplored
  Failing <- MCFailing
  Measured <- MCMeasured
  Baseline = 4
  AbsoluteMin = 1
  Hysteresis = 1
  Cooldown = 1
  Pause = 1
  MaxPause = 3
  MaxAge = 2
  MaxObservations = 3
  MaxTime = 3
  MaxFailures = 1
INVARIANTS TypesOK SessionChoiceStable ServesAsCommitted ModelsAreGenuine
SYMMETRY Symmetry
PROPERTY EvidenceCounts
