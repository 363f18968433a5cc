SPECIFICATION LSpec
CONSTANTS
    Sessions = {1, 2}
    Offers = {"r1"}
    MaxEvents = 3
    MaxSteps = 1
    MaxPending = 3
    Reserve = 1
    Reacquire = FALSE
INVARIANTS ContextsAccounted RevokedRunStops OffersAccounted
PROPERTIES OpenDialogueIsKept EveryRequestEnds
CHECK_DEADLOCK FALSE
