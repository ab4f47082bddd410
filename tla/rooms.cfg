SPECIFICATION FairSpec
CONSTANTS
    Capture = {1}
    Room = {"r1"}
    Bot = {"b1"}
    Nothing = Nothing
    MaxEvents = 2
    Crowd = {"gone", "deaf", "enough"}
INVARIANT AudioOnce
PROPERTY LeaveHonoured
PROPERTY CapturesClose
PROPERTY OrphansLeave
