\* Against the comment of release_session: no dialogue of the last owner in a new
\* session.
SPECIFICATION SSpec
CONSTANTS
    Manager = Manager
    None = None
    agent = agent
    MaxClients = 2
    Agents <- MCAgents
    Steps = 2
    MaxDelegations = 1
    MaxPending = 2
    MaxSessions = 2
    MaxJobs = 2
CHECK_DEADLOCK FALSE
INVARIANTS NoOldDialogueInANewSession
