SPECIFICATION MatchSpec
CONSTANTS
    solo = solo
    duo = duo
    alice = alice
    Specs = {solo, duo}
    SeatsOf <- MCSeatsOf
    Matches = {m1, m2}
    RoomCodes = {c1, c2}
    NoCode = NoCode
    Players = {alice, Operator}
    Anonymous = Anonymous
    Results = {}
    Requests = {r1, r2}
    Identity <- MCIdentity
    Operator = Operator
    Kinds = {"quick", "create_room"}
    Capacity = 1
    TicketTtl = 1
    QueueTtl = 1
    Faults = {"start", "timeout", "unregister", "ops"}
    MaxTickets = 3
    MaxTime = 1
INVARIANTS
    MatchTypeOK
    EveryTicketHasOnePlayer
    ReadyRowHasSeat
PROPERTIES
    RowsOnlyMoveOn
SYMMETRY Symmetry
CHECK_DEADLOCK FALSE
