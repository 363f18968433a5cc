\* One token in hand, one place for an unacknowledged answer, two RUNs.
SPECIFICATION NSpec
CONSTANTS
    litertCore = litertCore
    otherCore = otherCore
    NoWorker = NoWorker
    Native = litertCore
    Workers = {litertCore}
    ExecutorOf <- MCExecutorOf
    Policies = {"litert"}
    Periods = {FALSE}
    Outcomes = {"done"}
    MaxTasks = 1
    Keep = 1
    MaxQueue = 1
    MaxRuns = 2
    MaxGen = 1
    MaxOffers = 1
    MaxUnacked = 1
    MaxAcked = 2
    Agents = {"agent"}
    MaxUnacknowledged = 1
    MaxPending = 1
    MaxLate = 0
PROPERTIES
    EveryTokenSettles
