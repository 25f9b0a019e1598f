SPECIFICATION StoreSpec
CONSTANTS
    solo = solo
    duo = duo
    Specs = {duo}
    SeatsOf <- MCSeatsOf
    Matches = {m1, m2}
    RoomCodes = {c1, c2}
    NoCode = NoCode
    Players = {alice}
    Anonymous = Anonymous
    Results = {r1}
    TicketTtl = 1
    MaxTickets = 3
    MaxTime = 2
INVARIANTS
    SeatsFillInOrder
    OneLiveTicketPerSeat
    OneAdmissiblePerSeat
    SeatHasOneOwner
    TicketsHaveSessions
    KeysAreUnique
PROPERTIES
    NoSecondAdmission
    RoomIsStable
    LedgerSpec
SYMMETRY Symmetry
CHECK_DEADLOCK FALSE
