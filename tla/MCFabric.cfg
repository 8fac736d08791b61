SPECIFICATION MCSpec
CONSTANTS
  Workers = {w1, w2}
  Keys = {k1, k2}
  NProviders = 2
  Nil = Nil
  Users = {"u1", "u2"}
  Allocations = {"a1", "a2", "a3"}
  AllocationSize <- MCAllocationSize
  Capacity = 3
  IndexKeys = {"k1", "k2", "k3"}
  KeyGen <- MCKeyGen
  KeySize <- MCKeySize
  Budget = 3
  Replicas = {"h1", "h2", "h3"}
  NDevices = 2
  NRows = 3
  Scores = {1, 2}
  NBuilds = 3
  Files = {"f1", "f2"}
  ContentSize <- MCContentSize
  MaxBytes = 3
  NSessions = 2
  MaxCalls = 1
  Helpers = {"l1", "l2"}
  Foreign = {"l2"}
  GroupBudget = 0
  MaxIO = 1
  Leader = "leader"
  Direct = {"d1"}
  Submitted = {"r1", "r2"}
  Profiles = {"p1", "p2"}
  Slots = 1
  PoolSize = 2
  Fallback = TRUE
  Sparse = "sparse"
  Queries = {"a", "b", "c"}
  CacheSize = 2
  ChunkSize = 2
  MaxBatch = 3
  LastGeneration = 1
  ScopeGenerations = {"g1", "g2"}
  MaxWrites = 4
  Versions = {1, 2}
  Repeats = 2
  Tasks = {"a", "b", "c"}
  Sources <- MCSources
  Maximum = 2
  Traces = {"t1"}
  Observations = {"x", "y"}
  MaxSteps = 2
  Wall = 1
  MaxMessages = 2
INVARIANTS TypesOK OneReadyWorker WorkersContained ResourcesAccounted AnswersBelong ReportsAreTrue
PROPERTIES ResourcesLeased SnapshotsStay ClosingEnds
