SPECIFICATION MCSpec
CONSTANTS
  Workers = {w1, w2}
  Readers = {rd}
  Journals = {j1, j2}
  Roots = {A, B}
  Gens = {g1, g2}
  Runs = {a}
  MaxCrashes = 1
  Nil = Nil
  Procs = {w1, w2}
  EntryTexts = {"t1"}
  Ids = {i1}
  Legacy <- MCLegacy
  LastStage = 1
  LastDay = 1
  MaxRevision = 3
  MentionTexts <- MCTexts
  Required = 3
  Reach = 3
  Cap = 2
  Bounds <- MCBounds
  Days = 0
  Sessions = {j1, j2}
  MaxRecords = 2
  MaxDay = 1
  MaxVersion = 1
  MaxScans = 2
  Builds = {1, 2}
  MaxSource = 1
  MaxDriver = 1
  MaxDamaged = 1
  Damaged = Damaged
SYMMETRY MCSymmetry
INVARIANTS TypesOK SegmentsReadable MemoriesKept ScanIsHonest
PROPERTY MemoriesOnlyGrow
