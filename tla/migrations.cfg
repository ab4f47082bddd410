SPECIFICATION MigrationSpec
CONSTANTS
    Jobs = {"job"}
    Events = {"event"}
    Sessions = {"session"}
    Autos = {"automation"}
    MaxStarts = 2
INVARIANT RunningIsSettled
INVARIANT SoundRowsAreTaken
CHECK_DEADLOCK FALSE
