SPECIFICATION FairSpec
CONSTANTS
    g1 = g1
    g2 = g2
    Job <- WorkJobs
    NoJob = no_job
    NoKey = no_key
    KindOf <- WorkKind
    KeyOf <- WorkKey
    Batches <- WorkBatch
    Inline = {}
    Roots <- WorkRoots
    Slot = {"g1", "v1", "m1", "s1"}
    LaneOf <- WorkLane
    BatchLimit = 2
    Drainer = {"loop"}
    Faults = {"lost_write"}
    Tick = TRUE
    MaxAttempts = 1
    MaxRequests = 0
    MaxRestarts = 1
INVARIANT WaitingHasChild
INVARIANT ChildrenSettleFirst
INVARIANT CompleteMeansChildrenComplete
PROPERTY EveryJobSettles
ACTION_CONSTRAINT OneScenario
CHECK_DEADLOCK FALSE
