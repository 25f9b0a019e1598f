SPECIFICATION HostSpec
CONSTANTS
    official = official
    content = content
    Matches = {official, content}
    Plan <- MCPlan
    MinPort <- MCPort
    MaxPort <- MCLastPort
    MaxMatches = 2
    Lease = 1
    Idle = 1
    Sweeps = {s1}
    Faults = {"shutdown"}
INVARIANTS
    NoOrphans
CHECK_DEADLOCK FALSE
