SPECIFICATION FairHostSpec
CONSTANTS
    official = official
    content = content
    Matches = {m1, m2}
    Plan <- MCPlan
    MinPort <- MCPort
    MaxPort <- MCLastPort
    MaxMatches = 2
    Lease = 1
    Idle = 2
    Sweeps = {s1}
    Faults = {"settlement"}
PROPERTIES
    ResultIsStored
    AbandonedMatchIsReclaimed
CHECK_DEADLOCK FALSE
