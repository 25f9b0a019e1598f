SPECIFICATION FairGatewaySpec
CONSTANTS
    room = room
    Matches = {m1}
    Specs = {room}
    SeatsOf <- MCSeatsOf
    RoomCodes = {}
    NoCode = NoCode
    Players = {}
    Anonymous = Anonymous
    Results = {}
    TicketTtl = 1
    MaxTickets = 2
    MaxTime = 0
    Conns = {k1}
PROPERTIES
    EitherSideClosesTheOther
CHECK_DEADLOCK FALSE
