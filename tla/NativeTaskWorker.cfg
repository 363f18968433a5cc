\* The native worker with two agents and another worker of the same executor: one
\* RUN that can be offered twice, one request under way.
SPECIFICATION NSpec
CONSTANTS
    litertCore = litertCore
    otherCore = otherCore
    NoWorker = NoWorker
    Native = litertCore
    Workers = {litertCore, otherCore}
    ExecutorOf <- MCExecutorOf
    Policies = {"litert"}
    Periods = {FALSE}
    Outcomes = {"done"}
    MaxTasks = 1
    Keep = 2
    MaxQueue = 2
    MaxRuns = 1
    MaxGen = 1
    MaxOffers = 2
    MaxUnacked = 1
    MaxAcked = 1
    Agents = {"agent", "helper"}
    MaxUnacknowledged = 2
    MaxPending = 1
    MaxLate = 1
INVARIANTS
    NeverCalledAgain
    AgentWorksOnARunningRun
    NothingLeaks
    DoneMeansSaved
