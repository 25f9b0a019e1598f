SPECIFICATION HostSpec
CONSTANTS
    official = official
    content = content
    Matches = {official, content}
    Plan <- MCPlan
    MinPort <- MCPort
    MaxPort <- MCLastPort
    MaxMatches = 2
    Lease = 1
    Idle = 1
    Sweeps = {s1}
    Faults = {"envelope", "listen", "register", "settlement", "replay", "unregister", "renew", "hangup", "shutdown"}
INVARIANTS
    PortAccounting
    SettledBeforeUnregistered
PROPERTIES
    OnlyIdleMatchesAreCondemned
SYMMETRY Symmetry
CHECK_DEADLOCK FALSE
