SPECIFICATION FairSpec
CONSTANTS
    Wake = { 1, 2 }
    Segment = { 1, 2 }
    Worker = { 1, 2 }
    WakerOf <- mcWakerOf
    VoiceOf <- mcVoiceOf
    MinPost = 1
    Idle = 1
    MaxWindow = 2
    Additive = 1
    Independent = 2
    Settlement = 1
    LastInput = 1
    LastTick = 4
    MaxCrashes = 1
ACTION_CONSTRAINT Prompt
ACTION_CONSTRAINT Brief
ACTION_CONSTRAINT Untimely
ACTION_CONSTRAINT InTurn
ACTION_CONSTRAINT Alone
CHECK_DEADLOCK FALSE
INVARIANT ClosedOnce
INVARIANT LaterWakeIsHeardOut
PROPERTY RequestIsWhole
PROPERTY EveryWakeIsAnswered
