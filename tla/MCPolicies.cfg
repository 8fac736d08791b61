SPECIFICATION MCSpec
CONSTANTS
    Items = {1, 2, 3, 4}
    Tasks = {"t1", "t2"}
    Units <- MCUnits
    Penalty <- MCPenalty
    Activity <- MCActivity
    Priority <- MCPriority
    Pinned = {4}
    Horizon = 2
    MinTasks = 2
    MinItemDemands = 2
    CandidateTiers = {"T1"}
    CompleteCoverage = TRUE
    None = None
    Actuators = {a1, a2}
    FirstTiers <- MCFirstTiers
    FirstStats <- MCFirstStats
    NewEvents <- MCNewEvents
    Budgets = {3, 4}
    MinimumTasks = 2
    MinimumDemands = 2
    MinimumGain = 1
    Cooldown = 1
    MaxTime = 1
    MaxRevision = 3
    MaxChanges = 1
SYMMETRY Symmetry
INVARIANTS TypesOK CommitsHold AdviceIsSound
PROPERTY PlanIsOptimal
