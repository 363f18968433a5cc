\* The same instance, for what the documentation says of edges.
SPECIFICATION MSpec
CONSTANTS
    NoWorker = NoWorker
    Workers = {}
    ExecutorOf <- MCExecutorOf
    Policies = {"litert"}
    Periods = {FALSE}
    Outcomes = {"done"}
    MaxTasks = 2
    Keep = 1
    MaxQueue = 2
    MaxRuns = 3
    MaxGen = 2
    MaxOffers = 0
    Active = "true"
    MaxObjects = 4
PROPERTIES
    EveryEdgeIsARun
