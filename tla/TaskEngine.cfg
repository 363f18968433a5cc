\* Two CORE processes of different executors, one task number, two RUNs.
SPECIFICATION Spec
CONSTANTS
    openaiCore = openaiCore
    litertCore = litertCore
    otherCore = otherCore
    NoWorker = NoWorker
    Workers <- MCWorkers
    ExecutorOf <- MCExecutorOf
    Policies = {"auto", "litert"}
    Periods = {FALSE}
    Outcomes = {"done"}
    MaxTasks = 1
    Keep = 1
    MaxQueue = 2
    MaxRuns = 2
    MaxGen = 2
    MaxOffers = 2
INVARIANTS
    OneGrantPerTask
PROPERTIES
    NoReplay
    ExpiredLeaseForfeitsOffer
    RevokedForGood
    ImplementsLedger
