SPECIFICATION FairSpec
CONSTANTS
    Delivery = {1, 2}
    Existing = {"old"}
    Fresh = {"new1", "new2"}
    NoThread = "none"
    Mortal = {"old"}
    Tries = 2
    MaxRestarts = 1
INVARIANT AnswerSurvivesFailure
INVARIANT CancelIsKept
INVARIANT OneConversation
PROPERTY AnsweredNotRerun
PROPERTY TurnSettles
CHECK_DEADLOCK FALSE
