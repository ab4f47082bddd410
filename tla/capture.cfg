SPECIFICATION FairSpec
CONSTANTS
    Segment = {"a", "b"}
    Mux = {m1}
    Planner = {"w1"}
    MaxStreams = 1
    BatchDelay = TRUE
    MaxFaults = 1
    None = None
    Window = {"b"}
    Duration <- Lengths
    Flow <- Speakers
    MaxSlots = 2
    MaxAudio = 10
    Guard = 1
INVARIANT WorkersHoldTheirSlots
INVARIANT OneEventPerSegment
PROPERTY SpeechSettles
ACTION_CONSTRAINT Apart
CHECK_DEADLOCK FALSE
