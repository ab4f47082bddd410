SPECIFICATION FairSpec
CONSTANTS
    Session = {1, 2, 3}
    Earlier = {1}
    Home <- FirstHome
    Voice = {"a", "b"}
    Dm = {"d"}
    Request = {1, 2}
    Nobody = Nobody
    Delivery = Delivery
    MaxEvents = 1
INVARIANT OneSelectablePerRoute
PROPERTY OnlyResumeRevives
PROPERTY RoutesKeepContract
PROPERTY RequestsSettle
PROPERTY DueSessionsRetire
CHECK_DEADLOCK FALSE
