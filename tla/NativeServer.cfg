\* Two sessions of one client or of two, one agent of the pool, two operations that
\* wait, a background job of two slices.
SPECIFICATION SSpec
CONSTANTS
    Manager = Manager
    None = None
    agent = agent
    MaxClients = 2
    Agents <- MCAgents
    Steps = 2
    MaxDelegations = 1
    MaxPending = 2
    MaxSessions = 2
    MaxJobs = 2
INVARIANTS
    EveryJobIsCarriedOn
    DialoguesAreOwn
    RunHasItsAgentAlone
    DroppedSessionStops
PROPERTIES
    CancelledJobsEnd
CHECK_DEADLOCK FALSE
