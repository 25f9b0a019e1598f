SPECIFICATION ServicesSpec

CONSTANTS
    Names = {"n1", "n2", "n_"}
    Passwords = {"p"}
    Malformed = {"n_"}
    Docs = {"d1", "d2", "huge"}
    LargeDocs = {"huge"}
    MaxAccounts = 2
    MaxGuests = 2
    MaxSessions = 2
    Ids = {"c1", "c2"}
    ReservedIds = {"c2"}
    bundle1 = "b1"
    bundle2 = "b2"
    Contents = {"b1", "b2"}
    GameplayOf <- MCGameplayOf
    BagsOf <- MCBagsOf
    SchemaOf <- MCSchemaOf
    TagBags <- MCTagBags
    TagLists <- MCTagLists
    PatchOps = {"fx_revision", "durability", "frozen"}
    ContentOwners = {"o"}
    Matches = {"m1"}
    Raters = {"r1"}
    Stars = {5, 6}
    MaxVersions = 3
    MaxPatches = 2
    ReplayOwners = {"o1", "o2"}
    ReplayMatches = {"m1", "m2", "m3"}
    TapeCourses = {"course_01"}
    Ring = 2
    MaxClock = 2
    MaxReplays = 4
    Retain = 2
    MaxRacers = 3
    HeartbeatEvery = 2
    MaxTick = 4
    Courses = {"course_01", "course_02"}
    DefaultCourse = "course_01"
    Blueprints = {"blueprint_01", "blueprint_02"}
    DefaultBlueprint = "blueprint_01"
    ContentIds = {"ugc", "nobody"}
    Stored <- MCStored
    MaxSeats = 3
    MaxWaiting = 1
    MaxRooms = 2
    LaunchIds = {"l1", "l2"}
    ContentLaunches = {"l1"}
    FirstPort = 1
    LastPort = 1

INVARIANTS
    DraftsAreReachable
    HistoryHasNoGaps
    PlazaFollowsLatest
    CountsMatchRows
    OneReplayPerMatch
    ResultsAreAccepted
    PlayersMeetTheirGame
    LaunchLeavesNothing
    ProbeReachesItsMatch
PROPERTIES
    ClaimMovesDrafts
    RingDropsOldest
    FinishedGamesAreStored
CHECK_DEADLOCK FALSE
