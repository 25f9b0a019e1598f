SPECIFICATION HostSpec
CONSTANTS
    official = official
    content = content
    Matches = {official, content}
    Plan <- MCPlan
    MinPort <- MCPort
    MaxPort <- MCLastPort
    MaxMatches = 1
    Lease = 1
    Idle = 1
    Sweeps = {s1}
    Faults = {"settlement"}
INVARIANTS
    EndedMeansUnregistered
CHECK_DEADLOCK FALSE
