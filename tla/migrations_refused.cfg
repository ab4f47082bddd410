SPECIFICATION MigrationSpec
CONSTANTS
    Jobs = {"job"}
    Events = {"event"}
    Sessions = {"session"}
    Autos = {"automation"}
    MaxStarts = 2
INVARIANT WakesAreTerminalized
CHECK_DEADLOCK FALSE
