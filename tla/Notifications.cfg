SPECIFICATION OSpec
CONSTANTS
    Cores <- TwoCores
    Natives <- NativeCores
    Answers = {r1}
    Replies = {p1}
    Bound <- OneOfEach
INVARIANTS AckedAnswerIsSafe
PROPERTIES DeliveredStaysDelivered EverythingArrives
CHECK_DEADLOCK TRUE
