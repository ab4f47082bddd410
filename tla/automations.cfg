SPECIFICATION FairSpec
CONSTANTS
    Automation = {"echo", "later", "clock"}
    SpecOf <- MCSpecOf
    Kind = {"joined"}
    MaxEvents = 2
    Late = 1
    LastTick = 3
    MaxCrashes = 1
ACTION_CONSTRAINT Few
INVARIANT WithinBudget
INVARIANT OneActivePerSource
PROPERTY EveryTriggerIsAnswered
