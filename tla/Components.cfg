SPECIFICATION ComponentsSpec
CONSTANTS
    MaxCalls = 3
    MaxRequests = 2
    Users = {"turn", "task"}
    Parts = 2
    MaxFragmentRuns = 4
    MaxToolCalls = 3
    MaxLinks = 3
    Retries = 1
    Pieces = 2
    MaxPosts = 6
    Readers = {"r1", "r2"}
    MaxAge = 1
    Timeout = 2
    MaxMessages = 3
    ChatCount = 3
    MaxConversations = 9
    Descendants = {"k1", "k2"}
    MaxCommands = 2
    litertCore = litertCore
    otherCore = otherCore
    NoWorker = NoWorker
    Workers = {litertCore, otherCore}
    ExecutorOf <- MCExecutorOf
    Policies = {"litert"}
    Periods = {FALSE}
    Outcomes = {"done"}
    MaxTasks = 2
    Keep = 1
    MaxQueue = 2
    MaxRuns = 3
    MaxGen = 2
    MaxOffers = 1
    MaxUnacked = 2
    MaxAcked = 1
    Active = "true"
    MaxObjects = 3
    Helpers = {"a1"}
    MaxCallsOfTurn = 3
    MaxDelegated = 2
    Window = 10
    Reply = 1
    MaxResult = 2
    MaxManagerTurns = 1
    s1 = s1
    s2 = s2
    Manager = managerSystem
    Part = partSystem
    Systems = {s1, s2}
    MaxTurns = 6
SYMMETRY CoreSymmetry
INVARIANTS
    AgentComesHome
    DoubtfulNotRepeated
    NotSentIsTrue
    TimedOutGroupIsGone
    NothingHalfDone
    TurnIsBounded
    FailuresAreTold
    ConversationsAccounted
    ReadsItsOwnTurns
    ShownIsTheAnswer
PROPERTIES
    FreshReads
    NoOldPayload
    UnackedNeverLost
CHECK_DEADLOCK FALSE
