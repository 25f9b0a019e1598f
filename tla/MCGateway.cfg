SPECIFICATION FairGatewaySpec
CONSTANTS
    room = room
    Matches = {m1}
    Specs = {room}
    SeatsOf <- MCSeatsOf
    RoomCodes = {}
    NoCode = NoCode
    Players = {}
    Anonymous = Anonymous
    Results = {}
    TicketTtl = 1
    MaxTickets = 2
    MaxTime = 0
    Conns = {k1, k2}
INVARIANTS
    OneUpgradePerTicket
    SeatSharedOnlyByReconnect
    NoFrameLost
PROPERTIES
    PairsCloseTogether
    EveryUpgradeIsAnswered
    ShutdownEnds
CHECK_DEADLOCK FALSE
