SPECIFICATION FairConfirmationSpec
CONSTANTS
    Slot = {"w1", "w2"}
    Control = {"yes", "no"}
    ActionOf <- Contested
    Requester = {"yes", "no"}
    Card = {"k1", "k2"}
    MaxRestarts = 1
INVARIANT PendingIsPosted
PROPERTY ComesToRest
CHECK_DEADLOCK FALSE
