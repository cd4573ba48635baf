SPECIFICATION Spec
CONSTANTS
    NodeIds = {1, 2, 7}
    CliFabrics = {1, 2}
    Serials <- MCSerials
    RcacDraws = 2
    FirstFreshKey = 10
    LabelMaxBytes = 3
    MaxBoots = 2
    MaxEdits = 1
    CommitOps <- MCCommitOps
    FirstCommits <- MCFirstCommits
    MaxCommits = 2
    MaxSegments = 2
    MaxSnapshots = 2
    U64 = 8
    U16 = 65536
    Leftovers <- MCLeftovers
    MaxToolRuns = 2
INVARIANTS
    ReplayIsExact
    MigratedIsAccepted
    WroteIsComplete
    PlanIsExact
    ServedIsStored
    MintedIsStrict
PROPERTY FabricIsKept
CHECK_DEADLOCK FALSE
