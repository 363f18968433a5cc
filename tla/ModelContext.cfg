SPECIFICATION ContextSpec
CONSTANTS
    s1 = s1
    s2 = s2
    Manager = manager
    Part = part
    Systems = {s1, s2}
    MaxTurns = 6
INVARIANTS SessionIsTheHistory
CHECK_DEADLOCK FALSE
