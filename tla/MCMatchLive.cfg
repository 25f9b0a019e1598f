SPECIFICATION FairMatchSpec
CONSTANTS
    solo = solo
    duo = duo
    alice = alice
    Specs = {duo}
    SeatsOf <- MCSeatsOf
    Matches = {m1, m2}
    RoomCodes = {c1, c2}
    NoCode = NoCode
    Players = {alice, Operator}
    Anonymous = Anonymous
    Results = {}
    Requests = {r1, r2, r3}
    Identity <- MCIdentity
    Operator = Operator
    Kinds = {"quick"}
    Capacity = 1
    TicketTtl = 1
    QueueTtl = 1
    Faults = {}
    MaxTickets = 3
    MaxTime = 0
INVARIANTS
    NoIdleWait
PROPERTIES
    ServedInOrder
    EveryRequestIsAnswered
    EveryRowIsServed
CHECK_DEADLOCK FALSE
