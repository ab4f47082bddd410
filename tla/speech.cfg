SPECIFICATION FairSpec
CONSTANTS
    User = {"ann"}
    Ssrc = {1, 2}
    None = None
    Start = 2
    Preroll = 3
    EndSilence = 2
    MinUtterance = 3
    MaxSegment = 5
    Timeout = 3
    Jitter = 1
    WakeMin = 2
    WakeNext = 2
    WakeInterval = 2
    MaxInput = 6
    MaxNow = 9
INVARIANT SpeechKept
PROPERTY SegmentsInOrder
PROPERTY SpeechIsRecorded
CHECK_DEADLOCK FALSE
