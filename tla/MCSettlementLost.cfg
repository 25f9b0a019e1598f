SPECIFICATION FairSettlementSpec

CONSTANTS
    Retain = 2
    MaxRacers = 2
    HeartbeatEvery = 2
    MaxTick = 4

PROPERTY
    BastionResultIsReported
