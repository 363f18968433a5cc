\* Two COREs of one executor: one can die with a RUN while the other polls.  Two timers
\* that are due together are more than the journal takes, so that every tick fails.
SPECIFICATION MCUnreported
CONSTANTS
    openaiCore = openaiCore
    litertCore = litertCore
    otherCore = otherCore
    NoWorker = NoWorker
    Workers = {litertCore, otherCore}
    ExecutorOf <- MCExecutorOf
    Policies = {"litert"}
    Periods = {TRUE}
    Outcomes = {"done"}
    MaxTasks = 2
    Keep = 1
    MaxQueue = 1
    MaxRuns = 3
    MaxGen = 1
    MaxOffers = 1
PROPERTIES
    DeadOwnerReleased
