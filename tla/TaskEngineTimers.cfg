\* Timer-driven tasks under two numbers, one CORE, two open RUNs and one finished RUN kept.
SPECIFICATION Spec
CONSTANTS
    openaiCore = openaiCore
    litertCore = litertCore
    otherCore = otherCore
    NoWorker = NoWorker
    Workers = {litertCore}
    ExecutorOf <- MCExecutorOf
    Policies = {"litert"}
    Periods = {TRUE}
    Outcomes = {"done"}
    MaxTasks = 2
    Keep = 1
    MaxQueue = 2
    MaxRuns = 2
    MaxGen = 2
    MaxOffers = 1
INVARIANTS
    TimerMatchesTask
    TimerCoalesced
PROPERTIES
    NothingLost
