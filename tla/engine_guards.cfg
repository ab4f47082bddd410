SPECIFICATION Spec
CONSTANTS
    Job <- GuardJobs
    NoJob = no_job
    NoKey = no_key
    KindOf <- GuardKind
    KeyOf <- GuardKey
    Batches <- GuardBatch
    Inline = {5}
    Roots <- GuardRoots
    g1 = g1
    g2 = g2
    Slot <- GuardSlot
    LaneOf <- GuardLane
    BatchLimit = 2
    Drainer = {"loop", "http"}
    Faults = {"lost_write", "lost_lookup", "cancel", "retry"}
    Tick = FALSE
    MaxAttempts = 0
    MaxRequests = 1
    MaxRestarts = 1
INVARIANT KeyExclusion
INVARIANT OneTurnPerSession
INVARIANT NoLostWakeup
PROPERTY KeepsContract
ACTION_CONSTRAINT TurnsOrWake
SYMMETRY AlikeSlots
CHECK_DEADLOCK FALSE
