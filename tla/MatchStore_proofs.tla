--------------------------- MODULE MatchStore_proofs ---------------------------
(***************************************************************************)
(* What MatchStore's runs check on two matches, for any number of matches, *)
(* tickets, players and clock ticks; and that MatchStore implements        *)
(* SeatLedger: every step of the tables opens or closes a match, gives out *)
(* its next seat, or leaves the ledger alone.                              *)
(***************************************************************************)
EXTENDS MatchStore, FiniteSetTheorems, SequenceTheorems, TLAPS

(* The effect of each operation that rewrites a row: which rows are there  *)
(* afterwards, and what they keep of the row they came from.               *)
LEMMA AssignEffect ==
    ASSUME StoreTypeOK,
           NEW m \in Matches, NEW code \in RoomCodes, AssignRoomCode(m, code)
    PROVE  \E s \in sessions, c \in Session :
              /\ sessions' = (sessions \ {s}) \cup {c}
              /\ c.match = s.match /\ s.match = m
              /\ c.spec = s.spec
              /\ c.code = code /\ s.code = NoCode
              /\ \A r \in sessions : r.code # code
              /\ tickets' = tickets /\ settlements' = settlements
              /\ minted' = minted /\ now' = now
<1>1. PICK s \in NeedsCode(m) :
          sessions' = (sessions \ {s}) \cup {[s EXCEPT !.code = code]}
  BY DEF AssignRoomCode
<1>2. s \in sessions /\ s \in Session /\ s.match = m /\ s.code = NoCode
  BY DEF NeedsCode, StoreTypeOK
<1>3. PICK c : c = [s EXCEPT !.code = code]
  OBVIOUS
<1>4. c \in Session /\ c.match = s.match /\ c.spec = s.spec /\ c.code = code
  BY <1>2, <1>3 DEF Session
<1>5. \A r \in sessions : r.code # code
  BY DEF AssignRoomCode, CodeTaken
<1> QED BY <1>1, <1>2, <1>3, <1>4, <1>5 DEF AssignRoomCode

LEMMA NewTicketIsTicket ==
    ASSUME StoreTypeOK,
           NEW m \in Matches, NEW seat \in Nat, NEW owner \in Owners
    PROVE  \E c \in Ticket :
              /\ c = NewTicket(m, seat, owner)
              /\ c.id = minted + 1
              /\ c.match = m /\ c.seat = seat /\ c.owner = owner
              /\ ~c.consumed /\ ~c.superseded
<1>1. PICK c : c = NewTicket(m, seat, owner)
  OBVIOUS
<1>2. now + TicketTtl \in Nat /\ minted + 1 \in Nat \ {0}
  BY TtlType DEF StoreTypeOK
<1>3. c \in Ticket
  BY <1>1, <1>2 DEF NewTicket, Ticket
<1>4. /\ c.id = minted + 1
      /\ c.match = m /\ c.seat = seat /\ c.owner = owner
      /\ ~c.consumed /\ ~c.superseded
  BY <1>1 DEF NewTicket
<1> QED BY <1>1, <1>3, <1>4

(* nextSeat returns a free seat of the room, and the lowest one.           *)
LEMMA IssueEffect ==
    ASSUME StoreTypeOK,
           NEW m \in Matches, NEW owner \in Owners, IssueTicket(m, owner)
    PROVE  \E s \in sessions, c \in Ticket :
              /\ s.match = m
              /\ tickets' = tickets \cup {c}
              /\ c.id = minted + 1 /\ c.match = m /\ c.owner = owner
              /\ ~c.consumed /\ ~c.superseded
              /\ c.seat < SeatsOf[s.spec]
              /\ c.seat \notin UsedSeats(m)
              /\ \A n \in 0 .. (SeatsOf[s.spec] - 1) : n \notin UsedSeats(m) => c.seat <= n
              /\ sessions' = sessions /\ settlements' = settlements
              /\ minted' = minted + 1 /\ now' = now
<1>1. PICK s \in sessions :
          /\ s.match = m
          /\ \E seat \in NextSeat(s) : tickets' = tickets \cup {NewTicket(m, seat, owner)}
  BY DEF IssueTicket
<1>2. PICK seat \in NextSeat(s) : tickets' = tickets \cup {NewTicket(m, seat, owner)}
  BY <1>1
<1>3. SeatsOf[s.spec] \in Nat
  BY SeatsOfType DEF StoreTypeOK, Session
<1>4. /\ seat \in 0 .. (SeatsOf[s.spec] - 1)
      /\ seat \notin UsedSeats(m)
      /\ \A n \in 0 .. (SeatsOf[s.spec] - 1) : n \notin UsedSeats(m) => seat <= n
  BY <1>1, <1>2 DEF NextSeat, FreeSeats
<1>5. seat \in Nat /\ seat < SeatsOf[s.spec]
  BY <1>3, <1>4
<1>6. PICK c \in Ticket :
          /\ c = NewTicket(m, seat, owner)
          /\ c.id = minted + 1
          /\ c.match = m /\ c.seat = seat /\ c.owner = owner
          /\ ~c.consumed /\ ~c.superseded
  BY <1>5, NewTicketIsTicket
<1>7. tickets' = tickets \cup {c}
  BY <1>2, <1>6
<1>8. sessions' = sessions /\ settlements' = settlements /\ minted' = minted + 1 /\ now' = now
  BY DEF IssueTicket
<1> QED BY <1>1, <1>4, <1>5, <1>6, <1>7, <1>8

LEMMA ConsumeEffect ==
    ASSUME StoreTypeOK, NEW t \in tickets, ConsumeTicket(t)
    PROVE  \E c \in Ticket :
              /\ tickets' = (tickets \ {t}) \cup {c}
              /\ c.id = t.id /\ c.match = t.match /\ c.seat = t.seat /\ c.owner = t.owner
              /\ c.expires = t.expires /\ c.superseded = t.superseded
              /\ c.consumed
              /\ sessions' = sessions /\ settlements' = settlements
              /\ minted' = minted /\ now' = now
<1>1. PICK c : c = [t EXCEPT !.consumed = TRUE]
  OBVIOUS
<1>2. t \in Ticket
  BY DEF StoreTypeOK
<1>3. /\ c \in Ticket
      /\ c.id = t.id /\ c.match = t.match /\ c.seat = t.seat /\ c.owner = t.owner
      /\ c.expires = t.expires /\ c.superseded = t.superseded
      /\ c.consumed
  BY <1>1, <1>2 DEF Ticket
<1> QED BY <1>1, <1>3 DEF ConsumeTicket

(* c is what the old ticket t becomes, d the ticket that takes over.       *)
LEMMA ReconnectEffect ==
    ASSUME StoreTypeOK, NEW m \in Matches, NEW t \in tickets, ReconnectTicket(m, t)
    PROVE  \E c, d \in Ticket :
              /\ tickets' = (tickets \ {t}) \cup {c, d}
              /\ t.match = m /\ m \in Registered
              /\ t.consumed /\ ~t.superseded
              /\ c.id = t.id /\ c.match = t.match /\ c.seat = t.seat /\ c.owner = t.owner
              /\ c.expires = t.expires /\ c.consumed /\ c.superseded
              /\ d.id = minted + 1
              /\ d.match = t.match /\ d.seat = t.seat /\ d.owner = t.owner
              /\ ~d.consumed /\ ~d.superseded
              /\ sessions' = sessions /\ settlements' = settlements
              /\ minted' = minted + 1 /\ now' = now
<1>1. PICK c : c = Superseded(t)
  OBVIOUS
<1>2. t \in Ticket
  BY DEF StoreTypeOK
<1>3. /\ c \in Ticket
      /\ c.id = t.id /\ c.match = t.match /\ c.seat = t.seat /\ c.owner = t.owner
      /\ c.expires = t.expires /\ c.consumed = t.consumed
      /\ c.superseded
  BY <1>1, <1>2 DEF Superseded, Ticket
<1>4. t.match = m /\ m \in Registered /\ t.consumed /\ ~t.superseded
  BY DEF ReconnectTicket, CanReconnect
<1>5. t.match \in Matches /\ t.seat \in Nat /\ t.owner \in Owners
  BY <1>2 DEF Ticket
<1>6. PICK d \in Ticket :
          /\ d = NewTicket(t.match, t.seat, t.owner)
          /\ d.id = minted + 1
          /\ d.match = t.match /\ d.seat = t.seat /\ d.owner = t.owner
          /\ ~d.consumed /\ ~d.superseded
  BY <1>5, NewTicketIsTicket
<1>7. tickets' = (tickets \ {t}) \cup {c, d}
  BY <1>1, <1>6 DEF ReconnectTicket, Successor
<1>8. sessions' = sessions /\ settlements' = settlements /\ minted' = minted + 1 /\ now' = now
  BY DEF ReconnectTicket
<1> QED BY <1>3, <1>4, <1>6, <1>7, <1>8

-----------------------------------------------------------------------------
LEMMA TypeInductive == StoreTypeOK /\ [StoreNext]_storeVars => StoreTypeOK'
<1> SUFFICES ASSUME StoreTypeOK, [StoreNext]_storeVars PROVE StoreTypeOK'
  OBVIOUS
<1>1. CASE Tick
  BY <1>1 DEF Tick, StoreTypeOK
<1>2. ASSUME NEW m \in Matches, NEW spec \in Specs, RegisterSession(m, spec)
      PROVE  StoreTypeOK'
  BY <1>2 DEF RegisterSession, StoreTypeOK, Session
<1>3. ASSUME NEW m \in Matches, UnregisterSession(m) PROVE StoreTypeOK'
  BY <1>3 DEF UnregisterSession, TicketsWithout, StoreTypeOK
<1>4. ASSUME NEW m \in Matches, NEW code \in RoomCodes, AssignRoomCode(m, code)
      PROVE  StoreTypeOK'
  BY <1>4, AssignEffect DEF StoreTypeOK
<1>5. ASSUME NEW m \in Matches, NEW owner \in Owners, IssueTicket(m, owner)
      PROVE  StoreTypeOK'
  BY <1>5, IssueEffect DEF StoreTypeOK
<1>6. ASSUME NEW m \in Matches, NEW t \in tickets, ReconnectTicket(m, t)
      PROVE  StoreTypeOK'
  BY <1>6, ReconnectEffect DEF StoreTypeOK
<1>7. ASSUME NEW m \in Matches, NEW x \in Results, RecordSettlement(m, x)
      PROVE  StoreTypeOK'
  BY <1>7 DEF RecordSettlement, StoreTypeOK, Settlement
<1>8. ASSUME NEW t \in tickets, ConsumeTicket(t) PROVE StoreTypeOK'
  BY <1>8, ConsumeEffect DEF StoreTypeOK
<1>9. CASE UNCHANGED storeVars
  BY <1>9 DEF storeVars, StoreTypeOK
<1> QED
  BY <1>1, <1>2, <1>3, <1>4, <1>5, <1>6, <1>7, <1>8, <1>9 DEF StoreNext

(* The tables always hold rows of their types, and the clock and the       *)
(* ticket counter stay natural numbers.                                    *)
THEOREM TypeCorrect == StoreSpec => []StoreTypeOK
<1>1. StoreInit => StoreTypeOK
  BY DEF StoreInit, StoreTypeOK
<1> QED BY <1>1, TypeInductive, PTL DEF StoreSpec

-----------------------------------------------------------------------------
(* The inductive invariant.  A ticket is superseded only after it was      *)
(* consumed; that is what makes the verdict of POST /tickets/verify, which *)
(* does not read superseded_at, agree with the seats.                      *)
SupersededWasConsumed == \A t \in tickets : t.superseded => t.consumed

StoreInv ==
    /\ StoreTypeOK
    /\ KeysAreUnique
    /\ TicketsHaveSessions
    /\ SupersededWasConsumed
    /\ SeatHasOneOwner
    /\ OneLiveTicketPerSeat
    /\ SeatsFillInOrder

(* A registered match id, a code in use, the id of a fresh ticket and a    *)
(* settled match are each refused a second time.                           *)
LEMMA KeysInductive ==
    ASSUME StoreTypeOK, KeysAreUnique, [StoreNext]_storeVars
    PROVE  KeysAreUnique'
<1>1. CASE Tick
  BY <1>1 DEF Tick, KeysAreUnique
<1>2. ASSUME NEW m \in Matches, NEW spec \in Specs, RegisterSession(m, spec)
      PROVE  KeysAreUnique'
  <2>1. PICK c : c = [match |-> m, spec |-> spec, code |-> NoCode, created |-> now]
    OBVIOUS
  <2>2. c.match = m /\ c.code = NoCode
    BY <2>1
  <2>3. sessions' = sessions \cup {c} /\ \A r \in sessions : r.match # m
    BY <1>2, <2>1 DEF RegisterSession, Registered
  <2> QED BY <1>2, <2>2, <2>3 DEF RegisterSession, KeysAreUnique
<1>3. ASSUME NEW m \in Matches, UnregisterSession(m) PROVE KeysAreUnique'
  BY <1>3 DEF UnregisterSession, TicketsWithout, KeysAreUnique
<1>4. ASSUME NEW m \in Matches, NEW code \in RoomCodes, AssignRoomCode(m, code)
      PROVE  KeysAreUnique'
  BY <1>4, AssignEffect DEF KeysAreUnique
<1>5. ASSUME NEW m \in Matches, NEW owner \in Owners, IssueTicket(m, owner)
      PROVE  KeysAreUnique'
  <2>1. \A t \in tickets : t.id \in Nat
    BY DEF StoreTypeOK, Ticket
  <2> QED BY <1>5, <2>1, IssueEffect DEF KeysAreUnique, StoreTypeOK
<1>6. ASSUME NEW m \in Matches, NEW t \in tickets, ReconnectTicket(m, t)
      PROVE  KeysAreUnique'
  <2>1. \A u \in tickets : u.id \in Nat
    BY DEF StoreTypeOK, Ticket
  <2> QED BY <1>6, <2>1, ReconnectEffect DEF KeysAreUnique, StoreTypeOK
<1>7. ASSUME NEW m \in Matches, NEW x \in Results, RecordSettlement(m, x)
      PROVE  KeysAreUnique'
  <2>1. PICK c : c = [match |-> m, result |-> x]
    OBVIOUS
  <2>2. c.match = m
    BY <2>1
  <2> QED BY <1>7, <2>1, <2>2 DEF RecordSettlement, KeysAreUnique
<1>8. ASSUME NEW t \in tickets, ConsumeTicket(t) PROVE KeysAreUnique'
  BY <1>8, ConsumeEffect DEF KeysAreUnique
<1>9. CASE UNCHANGED storeVars
  BY <1>9 DEF storeVars, KeysAreUnique
<1> QED
  BY <1>1, <1>2, <1>3, <1>4, <1>5, <1>6, <1>7, <1>8, <1>9 DEF StoreNext

(* Tickets are minted for sessions and go with them.                       *)
LEMMA SessionsInductive ==
    ASSUME StoreTypeOK, TicketsHaveSessions, [StoreNext]_storeVars
    PROVE  TicketsHaveSessions'
<1>1. CASE Tick
  BY <1>1 DEF Tick, TicketsHaveSessions, Registered
<1>2. ASSUME NEW m \in Matches, NEW spec \in Specs, RegisterSession(m, spec)
      PROVE  TicketsHaveSessions'
  BY <1>2 DEF RegisterSession, TicketsHaveSessions, Registered
<1>3. ASSUME NEW m \in Matches, UnregisterSession(m) PROVE TicketsHaveSessions'
  BY <1>3 DEF UnregisterSession, TicketsWithout, TicketsHaveSessions, Registered
<1>4. ASSUME NEW m \in Matches, NEW code \in RoomCodes, AssignRoomCode(m, code)
      PROVE  TicketsHaveSessions'
  BY <1>4, AssignEffect DEF TicketsHaveSessions, Registered
<1>5. ASSUME NEW m \in Matches, NEW owner \in Owners, IssueTicket(m, owner)
      PROVE  TicketsHaveSessions'
  BY <1>5, IssueEffect DEF TicketsHaveSessions, Registered
<1>6. ASSUME NEW m \in Matches, NEW t \in tickets, ReconnectTicket(m, t)
      PROVE  TicketsHaveSessions'
  BY <1>6, ReconnectEffect DEF TicketsHaveSessions, Registered
<1>7. ASSUME NEW m \in Matches, NEW x \in Results, RecordSettlement(m, x)
      PROVE  TicketsHaveSessions'
  BY <1>7 DEF RecordSettlement, TicketsHaveSessions, Registered
<1>8. ASSUME NEW t \in tickets, ConsumeTicket(t) PROVE TicketsHaveSessions'
  BY <1>8, ConsumeEffect DEF TicketsHaveSessions, Registered
<1>9. CASE UNCHANGED storeVars
  BY <1>9 DEF storeVars, TicketsHaveSessions, Registered
<1> QED
  BY <1>1, <1>2, <1>3, <1>4, <1>5, <1>6, <1>7, <1>8, <1>9 DEF StoreNext

(* Five of the operations leave every ticket alone or delete some.         *)
LEMMA OtherTicketSteps ==
    ASSUME StoreTypeOK, [StoreNext]_storeVars
    PROVE  \/ tickets' = tickets
           \/ \E m \in Matches : UnregisterSession(m)
           \/ \E m \in Matches, owner \in Owners : IssueTicket(m, owner)
           \/ \E m \in Matches, t \in tickets : ReconnectTicket(m, t)
           \/ \E t \in tickets : ConsumeTicket(t)
BY AssignEffect DEF StoreNext, storeVars, Tick, RegisterSession, RecordSettlement

LEMMA SupersededInductive ==
    ASSUME StoreTypeOK, SupersededWasConsumed, [StoreNext]_storeVars
    PROVE  SupersededWasConsumed'
<1>1. CASE tickets' = tickets
  BY <1>1 DEF SupersededWasConsumed
<1>2. ASSUME NEW m \in Matches, UnregisterSession(m) PROVE SupersededWasConsumed'
  BY <1>2 DEF UnregisterSession, TicketsWithout, SupersededWasConsumed
<1>3. ASSUME NEW m \in Matches, NEW owner \in Owners, IssueTicket(m, owner)
      PROVE  SupersededWasConsumed'
  BY <1>3, IssueEffect DEF SupersededWasConsumed
<1>4. ASSUME NEW m \in Matches, NEW t \in tickets, ReconnectTicket(m, t)
      PROVE  SupersededWasConsumed'
  BY <1>4, ReconnectEffect DEF SupersededWasConsumed
<1>5. ASSUME NEW t \in tickets, ConsumeTicket(t) PROVE SupersededWasConsumed'
  BY <1>5, ConsumeEffect DEF SupersededWasConsumed
<1> QED BY <1>1, <1>2, <1>3, <1>4, <1>5, OtherTicketSteps

(* A seat that is used has a ticket that is not superseded, so nextSeat    *)
(* gives out only seats no ticket was ever issued for.                     *)
LEMMA FreeSeatIsFresh ==
    ASSUME OneLiveTicketPerSeat, NEW m, NEW seat, seat \notin UsedSeats(m)
    PROVE  \A t \in tickets : ~(t.match = m /\ t.seat = seat)
BY DEF OneLiveTicketPerSeat, UsedSeats, Live

LEMMA OwnerInductive ==
    ASSUME StoreTypeOK, OneLiveTicketPerSeat, SeatHasOneOwner, [StoreNext]_storeVars
    PROVE  SeatHasOneOwner'
<1>1. CASE tickets' = tickets
  BY <1>1 DEF SeatHasOneOwner
<1>2. ASSUME NEW m \in Matches, UnregisterSession(m) PROVE SeatHasOneOwner'
  BY <1>2 DEF UnregisterSession, TicketsWithout, SeatHasOneOwner
<1>3. ASSUME NEW m \in Matches, NEW owner \in Owners, IssueTicket(m, owner)
      PROVE  SeatHasOneOwner'
  BY <1>3, IssueEffect, FreeSeatIsFresh DEF SeatHasOneOwner
<1>4. ASSUME NEW m \in Matches, NEW t \in tickets, ReconnectTicket(m, t)
      PROVE  SeatHasOneOwner'
  BY <1>4, ReconnectEffect DEF SeatHasOneOwner
<1>5. ASSUME NEW t \in tickets, ConsumeTicket(t) PROVE SeatHasOneOwner'
  BY <1>5, ConsumeEffect DEF SeatHasOneOwner
<1> QED BY <1>1, <1>2, <1>3, <1>4, <1>5, OtherTicketSteps

LEMMA LiveInductive ==
    ASSUME StoreTypeOK, OneLiveTicketPerSeat, [StoreNext]_storeVars
    PROVE  OneLiveTicketPerSeat'
<1>1. CASE tickets' = tickets
  BY <1>1 DEF OneLiveTicketPerSeat, Live
<1>2. ASSUME NEW m \in Matches, UnregisterSession(m) PROVE OneLiveTicketPerSeat'
  BY <1>2 DEF UnregisterSession, TicketsWithout, OneLiveTicketPerSeat, Live
<1>3. ASSUME NEW m \in Matches, NEW owner \in Owners, IssueTicket(m, owner)
      PROVE  OneLiveTicketPerSeat'
  BY <1>3, IssueEffect, FreeSeatIsFresh DEF OneLiveTicketPerSeat, Live
<1>4. ASSUME NEW m \in Matches, NEW t \in tickets, ReconnectTicket(m, t)
      PROVE  OneLiveTicketPerSeat'
  BY <1>4, ReconnectEffect DEF OneLiveTicketPerSeat, Live
<1>5. ASSUME NEW t \in tickets, ConsumeTicket(t) PROVE OneLiveTicketPerSeat'
  BY <1>5, ConsumeEffect DEF OneLiveTicketPerSeat, Live
<1> QED BY <1>1, <1>2, <1>3, <1>4, <1>5, OtherTicketSteps

(* How an operation changes the used seats of a match: only an issue adds  *)
(* one, only unregistering the match takes any away.                       *)
LEMMA SeatsStay ==
    ASSUME StoreTypeOK,
           \/ tickets' = tickets
           \/ \E m \in Matches, t \in tickets : ReconnectTicket(m, t)
           \/ \E t \in tickets : ConsumeTicket(t),
           NEW n
    PROVE  UsedSeats(n)' = UsedSeats(n)
<1>1. CASE tickets' = tickets
  BY <1>1 DEF UsedSeats, Live
<1>2. ASSUME NEW m \in Matches, NEW t \in tickets, ReconnectTicket(m, t)
      PROVE  UsedSeats(n)' = UsedSeats(n)
  <2>1. PICK c, d \in Ticket :
            /\ tickets' = (tickets \ {t}) \cup {c, d}
            /\ ~t.superseded /\ c.superseded /\ ~d.superseded
            /\ d.match = t.match /\ d.seat = t.seat
    BY <1>2, ReconnectEffect
  <2>2. \A u : u \in Live(n)' <=> \/ u \in Live(n) /\ u # t
                                  \/ u = d /\ t \in Live(n)
    BY <2>1 DEF Live
  <2> QED BY <2>1, <2>2 DEF UsedSeats
<1>3. ASSUME NEW t \in tickets, ConsumeTicket(t) PROVE UsedSeats(n)' = UsedSeats(n)
  <2>1. PICK c \in Ticket :
            /\ tickets' = (tickets \ {t}) \cup {c}
            /\ c.superseded = t.superseded
            /\ c.match = t.match /\ c.seat = t.seat
    BY <1>3, ConsumeEffect
  <2>2. \A u : u \in Live(n)' <=> \/ u \in Live(n) /\ u # t
                                  \/ u = c /\ t \in Live(n)
    BY <2>1 DEF Live
  <2> QED BY <2>1, <2>2 DEF UsedSeats
<1> QED BY <1>1, <1>2, <1>3

LEMMA FillInductive ==
    ASSUME StoreTypeOK, KeysAreUnique, TicketsHaveSessions, SeatsFillInOrder,
           [StoreNext]_storeVars
    PROVE  SeatsFillInOrder'
<1> DEFINE Filled(r) == \E k \in 0 .. SeatsOf[r.spec] : UsedSeats(r.match) = 0 .. (k - 1)
<1>1. ASSUME sessions' = sessions, \A r \in sessions : UsedSeats(r.match)' = UsedSeats(r.match)
      PROVE  SeatsFillInOrder'
  BY <1>1 DEF SeatsFillInOrder
<1>2. CASE Tick
  BY <1>1, <1>2, SeatsStay DEF Tick
<1>3. ASSUME NEW m \in Matches, NEW spec \in Specs, RegisterSession(m, spec)
      PROVE  SeatsFillInOrder'
  <2>1. PICK c : c = [match |-> m, spec |-> spec, code |-> NoCode, created |-> now]
    OBVIOUS
  <2>2. c.match = m /\ c.spec = spec
    BY <2>1
  <2>3. sessions' = sessions \cup {c} /\ tickets' = tickets /\ m \notin Registered
    BY <1>3, <2>1 DEF RegisterSession
  <2>4. UsedSeats(m) = {}
    BY <2>3 DEF TicketsHaveSessions, UsedSeats, Live
  <2>5. SeatsOf[spec] \in Nat
    BY SeatsOfType
  <2>6. 0 \in 0 .. SeatsOf[spec] /\ UsedSeats(m) = 0 .. (0 - 1)
    BY <2>4, <2>5
  <2>7. \A r \in sessions' : UsedSeats(r.match)' = UsedSeats(r.match)
    BY <2>3, SeatsStay
  <2> QED BY <2>2, <2>3, <2>6, <2>7 DEF SeatsFillInOrder
<1>4. ASSUME NEW m \in Matches, UnregisterSession(m) PROVE SeatsFillInOrder'
  <2>1. sessions' = {s \in sessions : s.match # m}
    BY <1>4 DEF UnregisterSession
  <2>2. ASSUME NEW n, n # m PROVE UsedSeats(n)' = UsedSeats(n)
    BY <1>4, <2>2 DEF UnregisterSession, TicketsWithout, UsedSeats, Live
  <2> QED BY <2>1, <2>2 DEF SeatsFillInOrder
<1>5. ASSUME NEW m \in Matches, NEW code \in RoomCodes, AssignRoomCode(m, code)
      PROVE  SeatsFillInOrder'
  <2>1. PICK s \in sessions, c \in Session :
            /\ sessions' = (sessions \ {s}) \cup {c}
            /\ c.match = s.match /\ c.spec = s.spec
            /\ tickets' = tickets
    BY <1>5, AssignEffect
  <2>2. \A n : UsedSeats(n)' = UsedSeats(n)
    BY <2>1, SeatsStay
  <2> QED BY <2>1, <2>2 DEF SeatsFillInOrder
<1>6. ASSUME NEW m \in Matches, NEW owner \in Owners, IssueTicket(m, owner)
      PROVE  SeatsFillInOrder'
  <2>1. PICK s \in sessions, c \in Ticket :
            /\ s.match = m
            /\ tickets' = tickets \cup {c}
            /\ c.match = m /\ ~c.superseded
            /\ c.seat < SeatsOf[s.spec] /\ c.seat \notin UsedSeats(m)
            /\ \A n \in 0 .. (SeatsOf[s.spec] - 1) : n \notin UsedSeats(m) => c.seat <= n
            /\ sessions' = sessions
    BY <1>6, IssueEffect
  <2>2. c.seat \in Nat /\ SeatsOf[s.spec] \in Nat
    BY SeatsOfType DEF StoreTypeOK, Session, Ticket
  <2>3. PICK k \in 0 .. SeatsOf[s.spec] : UsedSeats(m) = 0 .. (k - 1)
    BY <2>1 DEF SeatsFillInOrder
  <2>4. k \in Nat /\ k <= SeatsOf[s.spec]
    BY <2>2, <2>3
  <2>5. c.seat >= k
    BY <2>1, <2>2, <2>3, <2>4
  <2>6. k \in 0 .. (SeatsOf[s.spec] - 1) /\ k \notin UsedSeats(m)
    BY <2>1, <2>2, <2>3, <2>4, <2>5
  <2>7. c.seat = k
    BY <2>1, <2>2, <2>4, <2>5, <2>6
  <2>8. UsedSeats(m)' = UsedSeats(m) \cup {c.seat}
    BY <2>1 DEF UsedSeats, Live
  <2>9. UsedSeats(m)' = 0 .. ((k + 1) - 1) /\ k + 1 \in 0 .. SeatsOf[s.spec]
    BY <2>2, <2>3, <2>4, <2>6, <2>7, <2>8
  <2>10. ASSUME NEW n, n # m PROVE UsedSeats(n)' = UsedSeats(n)
    BY <2>1, <2>10 DEF UsedSeats, Live
  <2>11. \A r \in sessions : r.match = m => r = s
    BY <2>1 DEF KeysAreUnique
  <2> QED BY <2>1, <2>9, <2>10, <2>11 DEF SeatsFillInOrder
<1>7. ASSUME NEW m \in Matches, NEW t \in tickets, ReconnectTicket(m, t)
      PROVE  SeatsFillInOrder'
  BY <1>1, <1>7, SeatsStay DEF ReconnectTicket
<1>8. ASSUME NEW m \in Matches, NEW x \in Results, RecordSettlement(m, x)
      PROVE  SeatsFillInOrder'
  BY <1>1, <1>8, SeatsStay DEF RecordSettlement
<1>9. ASSUME NEW t \in tickets, ConsumeTicket(t) PROVE SeatsFillInOrder'
  BY <1>1, <1>9, SeatsStay DEF ConsumeTicket
<1>10. CASE UNCHANGED storeVars
  BY <1>1, <1>10, SeatsStay DEF storeVars
<1> QED
  BY <1>2, <1>3, <1>4, <1>5, <1>6, <1>7, <1>8, <1>9, <1>10 DEF StoreNext

-----------------------------------------------------------------------------
LEMMA InitStoreInv == StoreInit => StoreInv
<1> SUFFICES ASSUME StoreInit PROVE StoreInv
  OBVIOUS
<1>1. sessions = {} /\ tickets = {} /\ settlements = {} /\ now = 0 /\ minted = 0
  BY DEF StoreInit
<1> QED BY <1>1 DEF StoreInv, StoreTypeOK, KeysAreUnique, TicketsHaveSessions,
                  SupersededWasConsumed, SeatHasOneOwner, OneLiveTicketPerSeat, SeatsFillInOrder

LEMMA NextStoreInv == StoreInv /\ [StoreNext]_storeVars => StoreInv'
BY TypeInductive, KeysInductive, SessionsInductive, SupersededInductive, OwnerInductive,
   LiveInductive, FillInductive DEF StoreInv

(* The tables keep their invariant through every sequence of operations.   *)
THEOREM StoreInvariant == StoreSpec => []StoreInv
BY InitStoreInv, NextStoreInv, PTL DEF StoreSpec

(* The seats in use of a match are always the first k of its room.         *)
THEOREM SeatsFill == StoreSpec => []SeatsFillInOrder
<1>1. StoreInv => SeatsFillInOrder
  BY DEF StoreInv
<1> QED BY <1>1, StoreInvariant, PTL

(* A seat once given has exactly one ticket that is not superseded.        *)
THEOREM LiveTicket == StoreSpec => []OneLiveTicketPerSeat
<1>1. StoreInv => OneLiveTicketPerSeat
  BY DEF StoreInv
<1> QED BY <1>1, StoreInvariant, PTL

(* All tickets of a seat, in one life of a match, have the same owner.     *)
THEOREM SeatOwner == StoreSpec => []SeatHasOneOwner
<1>1. StoreInv => SeatHasOneOwner
  BY DEF StoreInv
<1> QED BY <1>1, StoreInvariant, PTL

(* The random codes and ids that registration and tickets draw stand for   *)
(* one row each, through unregistrations and second lives of a match.      *)
THEOREM Keys == StoreSpec => []KeysAreUnique
<1>1. StoreInv => KeysAreUnique
  BY DEF StoreInv
<1> QED BY <1>1, StoreInvariant, PTL

(* No ticket outlives the session it was issued for: DELETE leaves none    *)
(* behind for a match that is registered again under the same id.          *)
THEOREM TicketsBelong == StoreSpec => []TicketsHaveSessions
<1>1. StoreInv => TicketsHaveSessions
  BY DEF StoreInv
<1> QED BY <1>1, StoreInvariant, PTL

(* POST /tickets/verify would let in at most one ticket of a seat, though  *)
(* it does not look at superseded_at.                                      *)
THEOREM Admission == StoreSpec => []OneAdmissiblePerSeat
<1>1. StoreInv => OneAdmissiblePerSeat
  <2> SUFFICES ASSUME StoreInv,
                      NEW t \in tickets, NEW u \in tickets,
                      Admissible(t), Admissible(u), t.match = u.match, t.seat = u.seat
               PROVE  t = u
    BY DEF OneAdmissiblePerSeat
  <2>1. ~t.superseded /\ ~u.superseded
    BY DEF StoreInv, SupersededWasConsumed, Admissible
  <2> QED BY <2>1 DEF StoreInv, OneLiveTicketPerSeat
<1> QED BY <1>1, StoreInvariant, PTL

(* No step makes an unusable ticket usable: a row that is rewritten comes  *)
(* out consumed, and a row that is not was as good before as it is after.  *)
LEMMA UsableWasUsable ==
    ASSUME StoreInv, [StoreNext]_storeVars,
           NEW t \in tickets, NEW u \in tickets', t.id = u.id, Admissible(u)'
    PROVE  Admissible(t)
<1>1. ~u.consumed /\ u.expires > now'
  BY DEF Admissible
<1>2. \A x, y \in tickets : x.id = y.id => x = y
  BY DEF StoreInv, KeysAreUnique
<1>3. \A x \in tickets : x.id # minted + 1
  BY DEF StoreInv, KeysAreUnique, StoreTypeOK, Ticket
<1>4. u = t
  <2>1. CASE tickets' = tickets
    BY <1>2, <2>1
  <2>2. ASSUME NEW m \in Matches, UnregisterSession(m) PROVE u = t
    BY <1>2, <2>2 DEF UnregisterSession, TicketsWithout
  <2>3. ASSUME NEW m \in Matches, NEW owner \in Owners, IssueTicket(m, owner) PROVE u = t
    BY <1>2, <1>3, <2>3, IssueEffect DEF StoreInv
  <2>4. ASSUME NEW m \in Matches, NEW x \in tickets, ReconnectTicket(m, x) PROVE u = t
    BY <1>1, <1>2, <1>3, <2>4, ReconnectEffect DEF StoreInv
  <2>5. ASSUME NEW x \in tickets, ConsumeTicket(x) PROVE u = t
    BY <1>1, <1>2, <2>5, ConsumeEffect DEF StoreInv
  <2> QED BY <2>1, <2>2, <2>3, <2>4, <2>5, OtherTicketSteps DEF StoreInv
<1>5. t.match \in Registered
  BY DEF StoreInv, TicketsHaveSessions
<1>6. now \in Nat /\ now' \in Nat /\ now <= now'
  <2>1. now' = now \/ now' = now + 1
    BY AssignEffect DEF StoreInv, StoreNext, storeVars, Tick, RegisterSession, UnregisterSession,
       IssueTicket, ReconnectTicket, RecordSettlement, ConsumeTicket
  <2> QED BY <2>1 DEF StoreInv, StoreTypeOK
<1>7. t.expires \in Nat
  BY DEF StoreInv, StoreTypeOK, Ticket
<1>8. t.expires > now
  BY <1>1, <1>4, <1>6, <1>7
<1> QED BY <1>1, <1>4, <1>5, <1>8 DEF Admissible

(* A ticket the gateway turned away once is never let in later.            *)
THEOREM SecondAdmission == StoreSpec => NoSecondAdmission
<1>1. StoreInv /\ [StoreNext]_storeVars
          => [\A t \in tickets, u \in tickets' :
                 (t.id = u.id /\ Admissible(u)') => Admissible(t)]_storeVars
  BY UsableWasUsable
<1> QED BY <1>1, StoreInvariant, PTL DEF StoreSpec, NoSecondAdmission

LEMMA RoomStays ==
    ASSUME StoreInv, [StoreNext]_storeVars,
           NEW s \in sessions, NEW r \in sessions', s.match = r.match
    PROVE  /\ UsedSeats(s.match) \subseteq UsedSeats(s.match)'
           /\ s.code # NoCode => r.code = s.code
<1>1. StoreTypeOK /\ \A x, y \in sessions : x.match = y.match => x = y
  BY DEF StoreInv, KeysAreUnique
<1>2. UsedSeats(s.match) \subseteq UsedSeats(s.match)'
  <2>1. CASE tickets' = tickets
    BY <1>1, <2>1, SeatsStay
  <2>2. ASSUME NEW m \in Matches, UnregisterSession(m)
        PROVE  UsedSeats(s.match) \subseteq UsedSeats(s.match)'
    <3>1. s.match # m
      BY <2>2 DEF UnregisterSession
    <3> QED BY <2>2, <3>1 DEF UnregisterSession, TicketsWithout, UsedSeats, Live
  <2>3. ASSUME NEW m \in Matches, NEW owner \in Owners, IssueTicket(m, owner)
        PROVE  UsedSeats(s.match) \subseteq UsedSeats(s.match)'
    <3>1. tickets \subseteq tickets'
      BY <1>1, <2>3, IssueEffect
    <3> QED BY <3>1 DEF UsedSeats, Live
  <2>4. ASSUME NEW m \in Matches, NEW t \in tickets, ReconnectTicket(m, t)
        PROVE  UsedSeats(s.match) \subseteq UsedSeats(s.match)'
    BY <1>1, <2>4, SeatsStay
  <2>5. ASSUME NEW t \in tickets, ConsumeTicket(t)
        PROVE  UsedSeats(s.match) \subseteq UsedSeats(s.match)'
    BY <1>1, <2>5, SeatsStay
  <2> QED BY <1>1, <2>1, <2>2, <2>3, <2>4, <2>5, OtherTicketSteps
<1>3. s.code # NoCode => r.code = s.code
  <2>1. CASE sessions' \subseteq sessions
    BY <1>1, <2>1
  <2>2. ASSUME NEW m \in Matches, NEW spec \in Specs, RegisterSession(m, spec)
        PROVE  s.code # NoCode => r.code = s.code
    <3>1. PICK c : c = [match |-> m, spec |-> spec, code |-> NoCode, created |-> now]
      OBVIOUS
    <3>2. c.match = m /\ sessions' = sessions \cup {c} /\ s.match # m
      BY <2>2, <3>1 DEF RegisterSession, Registered
    <3> QED BY <1>1, <3>2
  <2>3. ASSUME NEW m \in Matches, NEW code \in RoomCodes, AssignRoomCode(m, code)
        PROVE  s.code # NoCode => r.code = s.code
    BY <1>1, <2>3, AssignEffect
  <2>4. \/ sessions' \subseteq sessions
        \/ \E m \in Matches, spec \in Specs : RegisterSession(m, spec)
        \/ \E m \in Matches, code \in RoomCodes : AssignRoomCode(m, code)
    BY DEF StoreNext, storeVars, Tick, UnregisterSession, IssueTicket, ReconnectTicket,
       RecordSettlement, ConsumeTicket
  <2> QED BY <2>1, <2>2, <2>3, <2>4
<1> QED BY <1>2, <1>3

(* While a match stays registered it keeps its seats and its code.         *)
THEOREM StableRoom == StoreSpec => RoomIsStable
<1>1. StoreInv /\ [StoreNext]_storeVars
          => [\A s \in sessions, r \in sessions' :
                 s.match = r.match =>
                     /\ UsedSeats(s.match) \subseteq UsedSeats(s.match)'
                     /\ s.code # NoCode => r.code = s.code]_storeVars
  BY RoomStays
<1> QED BY <1>1, StoreInvariant, PTL DEF StoreSpec, RoomIsStable

-----------------------------------------------------------------------------
(* The ledger.                                                             *)

(* The ledger's variables, as MatchStore maps them.                        *)
LedgerSize == [m \in Matches |-> SizeOf(m)]

LedgerHolder ==
    [m \in Matches |-> [i \in 1 .. Cardinality(UsedSeats(m)) |-> HolderOf(m, i - 1)]]

LEMMA SizeIs ==
    StoreInv => /\ \A s \in sessions : SizeOf(s.match) = SeatsOf[s.spec]
                /\ \A m \in Matches : m \notin Registered => SizeOf(m) = 0
<1> SUFFICES ASSUME StoreInv
             PROVE  /\ \A s \in sessions : SizeOf(s.match) = SeatsOf[s.spec]
                    /\ \A m \in Matches : m \notin Registered => SizeOf(m) = 0
  OBVIOUS
<1>1. ASSUME NEW s \in sessions PROVE SizeOf(s.match) = SeatsOf[s.spec]
  <2>1. \A r \in sessions : r.match = s.match => r = s
    BY DEF StoreInv, KeysAreUnique
  <2>2. (CHOOSE r \in sessions : r.match = s.match) = s
    BY <2>1
  <2>3. s.match \in Registered
    BY DEF Registered
  <2> QED BY <2>2, <2>3 DEF SizeOf
<1>2. ASSUME NEW m \in Matches, m \notin Registered PROVE SizeOf(m) = 0
  BY <1>2 DEF SizeOf
<1> QED BY <1>1, <1>2

(* The holder of a seat is the owner of each of its tickets.               *)
LEMMA HolderIs ==
    StoreInv => \A t \in tickets : HolderOf(t.match, t.seat) = t.owner
<1> SUFFICES ASSUME StoreInv, NEW t \in tickets PROVE HolderOf(t.match, t.seat) = t.owner
  OBVIOUS
<1>1. \E u \in Live(t.match) : u.seat = t.seat
  BY DEF StoreInv, OneLiveTicketPerSeat
<1>2. PICK u : u = (CHOOSE x \in Live(t.match) : x.seat = t.seat)
  OBVIOUS
<1>3. u \in Live(t.match) /\ u.seat = t.seat
  BY <1>1, <1>2
<1>4. u \in tickets /\ u.match = t.match
  BY <1>3 DEF Live
<1>5. u.owner = t.owner
  BY <1>3, <1>4 DEF StoreInv, SeatHasOneOwner
<1> QED BY <1>2, <1>5 DEF HolderOf

(* The used seats of a match, counted.                                     *)
LEMMA CountIs ==
    StoreInv => \A m \in Matches :
                    /\ Cardinality(UsedSeats(m)) \in Nat
                    /\ UsedSeats(m) = 0 .. (Cardinality(UsedSeats(m)) - 1)
                    /\ m \notin Registered => Cardinality(UsedSeats(m)) = 0
<1> SUFFICES ASSUME StoreInv, NEW m \in Matches
             PROVE  /\ Cardinality(UsedSeats(m)) \in Nat
                    /\ UsedSeats(m) = 0 .. (Cardinality(UsedSeats(m)) - 1)
                    /\ m \notin Registered => Cardinality(UsedSeats(m)) = 0
  OBVIOUS
<1>1. CASE m \in Registered
  <2>1. PICK s \in sessions : s.match = m
    BY <1>1 DEF Registered
  <2>2. PICK k \in 0 .. SeatsOf[s.spec] : UsedSeats(m) = 0 .. (k - 1)
    BY <2>1 DEF StoreInv, SeatsFillInOrder
  <2>3. SeatsOf[s.spec] \in Nat
    BY SeatsOfType DEF StoreInv, StoreTypeOK, Session
  <2>4. k \in Nat
    BY <2>2, <2>3
  <2>5. Cardinality(0 .. (k - 1)) = IF 0 > k - 1 THEN 0 ELSE (k - 1) - 0 + 1
    BY <2>4, FS_Interval
  <2>6. Cardinality(0 .. (k - 1)) = k
    BY <2>4, <2>5
  <2> QED BY <1>1, <2>2, <2>4, <2>6
<1>2. CASE m \notin Registered
  <2>1. UsedSeats(m) = {}
    BY <1>2 DEF StoreInv, TicketsHaveSessions, UsedSeats, Live
  <2>2. Cardinality(UsedSeats(m)) = 0
    BY <2>1, FS_EmptySet
  <2> QED BY <2>1, <2>2
<1> QED BY <1>1, <1>2

(* Every seat in use was given to somebody.                                *)
LEMMA UsedSeatHasTicket ==
    ASSUME NEW m, NEW seat \in UsedSeats(m)
    PROVE  \E t \in tickets : t.match = m /\ t.seat = seat
BY DEF UsedSeats, Live

LEMMA HolderTypeOK ==
    StoreInv => \A m \in Matches :
        /\ LedgerHolder[m] \in Seq(Owners)
        /\ Len(LedgerHolder[m]) = Cardinality(UsedSeats(m))
        /\ \A i \in 1 .. Len(LedgerHolder[m]) : LedgerHolder[m][i] = HolderOf(m, i - 1)
<1> SUFFICES ASSUME StoreInv, NEW m \in Matches
             PROVE  /\ LedgerHolder[m] \in Seq(Owners)
                    /\ Len(LedgerHolder[m]) = Cardinality(UsedSeats(m))
                    /\ \A i \in 1 .. Len(LedgerHolder[m]) :
                           LedgerHolder[m][i] = HolderOf(m, i - 1)
  OBVIOUS
<1>1. PICK k : k = Cardinality(UsedSeats(m))
  OBVIOUS
<1>2. k \in Nat /\ UsedSeats(m) = 0 .. (k - 1)
  BY <1>1, CountIs
<1>3. LedgerHolder[m] = [i \in 1 .. k |-> HolderOf(m, i - 1)]
  BY <1>1 DEF LedgerHolder
<1>4. ASSUME NEW i \in 1 .. k PROVE HolderOf(m, i - 1) \in Owners
  <2>1. i - 1 \in UsedSeats(m)
    BY <1>2
  <2>2. PICK t \in tickets : t.match = m /\ t.seat = i - 1
    BY <2>1, UsedSeatHasTicket
  <2>3. HolderOf(m, i - 1) = t.owner
    BY <2>2, HolderIs
  <2>4. t.owner \in Owners
    BY DEF StoreInv, StoreTypeOK, Ticket
  <2> QED BY <2>3, <2>4
<1>5. [i \in 1 .. k |-> HolderOf(m, i - 1)] \in [1 .. k -> Owners]
  BY <1>4
<1>6. LedgerHolder[m] \in Seq(Owners)
  BY <1>2, <1>3, <1>5, SeqDef
<1>7. DOMAIN LedgerHolder[m] = 1 .. k
  BY <1>3
<1>8. Len(LedgerHolder[m]) \in Nat /\ DOMAIN LedgerHolder[m] = 1 .. Len(LedgerHolder[m])
  BY <1>6, LenProperties
<1>9. Len(LedgerHolder[m]) = k
  BY <1>2, <1>7, <1>8
<1> QED BY <1>1, <1>3, <1>6, <1>9

-----------------------------------------------------------------------------
(* The same facts of the state after a step.                               *)
LEMMA SizeIsNext ==
    (StoreInv => /\ \A s \in sessions : SizeOf(s.match) = SeatsOf[s.spec]
                 /\ \A m \in Matches : m \notin Registered => SizeOf(m) = 0)'
BY SizeIs, PTL

LEMMA HolderIsNext ==
    (StoreInv => \A t \in tickets : HolderOf(t.match, t.seat) = t.owner)'
BY HolderIs, PTL

LEMMA HolderTypeNext ==
    (StoreInv => \A m \in Matches :
        /\ LedgerHolder[m] \in Seq(Owners)
        /\ Len(LedgerHolder[m]) = Cardinality(UsedSeats(m))
        /\ \A i \in 1 .. Len(LedgerHolder[m]) : LedgerHolder[m][i] = HolderOf(m, i - 1))'
BY HolderTypeOK, PTL

(* When a step leaves the ledger's view of a match alone.                  *)
LEMMA HolderStays ==
    ASSUME StoreInv, StoreInv', NEW m \in Matches,
           \A t \in tickets : t.match = m =>
               \E u \in tickets' : u.match = m /\ u.seat = t.seat /\ u.owner = t.owner,
           NEW seat \in UsedSeats(m)
    PROVE  HolderOf(m, seat)' = HolderOf(m, seat)
<1>1. PICK t \in tickets : t.match = m /\ t.seat = seat
  BY UsedSeatHasTicket
<1>2. PICK u \in tickets' : u.match = m /\ u.seat = seat /\ u.owner = t.owner
  BY <1>1
<1>3. HolderOf(m, seat) = t.owner
  BY <1>1, HolderIs
<1>4. HolderOf(m, seat)' = u.owner
  BY <1>2, HolderIsNext
<1> QED BY <1>2, <1>3, <1>4

LEMMA RowStays ==
    ASSUME StoreInv, StoreInv', NEW m \in Matches,
           UsedSeats(m)' = UsedSeats(m),
           \A t \in tickets : t.match = m =>
               \E u \in tickets' : u.match = m /\ u.seat = t.seat /\ u.owner = t.owner
    PROVE  LedgerHolder'[m] = LedgerHolder[m]
<1>1. PICK k : k = Cardinality(UsedSeats(m))
  OBVIOUS
<1>2. k \in Nat /\ UsedSeats(m) = 0 .. (k - 1)
  BY <1>1, CountIs
<1>3. Cardinality(UsedSeats(m))' = k
  BY <1>1
<1>4. \A i \in 1 .. k : HolderOf(m, i - 1)' = HolderOf(m, i - 1)
  <2> SUFFICES ASSUME NEW i \in 1 .. k PROVE HolderOf(m, i - 1)' = HolderOf(m, i - 1)
    OBVIOUS
  <2>1. i - 1 \in UsedSeats(m)
    BY <1>2
  <2> QED BY <2>1, HolderStays
<1>5. LedgerHolder[m] = [i \in 1 .. k |-> HolderOf(m, i - 1)]
  BY <1>1 DEF LedgerHolder
<1>6. LedgerHolder'[m] = [i \in 1 .. k |-> HolderOf(m, i - 1)']
  BY <1>3 DEF LedgerHolder
<1> QED BY <1>4, <1>5, <1>6

LEMMA SizeStays ==
    ASSUME StoreInv, StoreInv', NEW m \in Matches,
           \A s \in sessions : s.match = m =>
               \E r \in sessions' : r.match = m /\ r.spec = s.spec,
           m \in Registered' => m \in Registered
    PROVE  SizeOf(m)' = SizeOf(m)
<1>1. CASE m \in Registered
  <2>1. PICK s \in sessions : s.match = m
    BY <1>1 DEF Registered
  <2>2. PICK r \in sessions' : r.match = m /\ r.spec = s.spec
    BY <2>1
  <2> QED BY <2>1, <2>2, SizeIs, SizeIsNext
<1>2. CASE m \notin Registered
  BY <1>2, SizeIs, SizeIsNext
<1> QED BY <1>1, <1>2

(* The steps that touch neither a seat's owner nor a room's size.          *)
LEMMA Invisible ==
    ASSUME StoreInv, StoreInv',
           \A m \in Matches : UsedSeats(m)' = UsedSeats(m),
           \A t \in tickets :
               \E u \in tickets' : u.match = t.match /\ u.seat = t.seat /\ u.owner = t.owner,
           \A s \in sessions : \E r \in sessions' : r.match = s.match /\ r.spec = s.spec,
           Registered' \subseteq Registered
    PROVE  LedgerSize' = LedgerSize /\ LedgerHolder' = LedgerHolder
<1>1. \A m \in Matches : SizeOf(m)' = SizeOf(m)
  BY SizeStays
<1>2. \A m \in Matches : LedgerHolder'[m] = LedgerHolder[m]
  BY RowStays
<1> QED BY <1>1, <1>2 DEF LedgerSize, LedgerHolder

-----------------------------------------------------------------------------
LEMMA RegisterOpens ==
    ASSUME StoreInv, StoreInv',
           NEW m \in Matches, NEW spec \in Specs, RegisterSession(m, spec)
    PROVE  /\ LedgerSize[m] = 0
           /\ LedgerSize' = [LedgerSize EXCEPT ![m] = SeatsOf[spec]]
           /\ LedgerHolder' = LedgerHolder
<1>1. PICK c : c = [match |-> m, spec |-> spec, code |-> NoCode, created |-> now]
  OBVIOUS
<1>2. c.match = m /\ c.spec = spec
  BY <1>1
<1>3. sessions' = sessions \cup {c} /\ tickets' = tickets /\ m \notin Registered
  BY <1>1 DEF RegisterSession
<1>4. SizeOf(m) = 0
  BY <1>3, SizeIs
<1>5. SizeOf(m)' = SeatsOf[spec]
  BY <1>2, <1>3, SizeIsNext
<1>6. ASSUME NEW n \in Matches, n # m PROVE SizeOf(n)' = SizeOf(n)
  <2>1. n \in Registered' => n \in Registered
    BY <1>2, <1>3, <1>6 DEF Registered
  <2> QED BY <1>3, <2>1, SizeStays
<1>7. \A n \in Matches : LedgerHolder'[n] = LedgerHolder[n]
  <2>1. \A n \in Matches : UsedSeats(n)' = UsedSeats(n)
    BY <1>3, SeatsStay DEF StoreInv
  <2> QED BY <1>3, <2>1, RowStays
<1>8. LedgerHolder' = LedgerHolder
  BY <1>7 DEF LedgerHolder
<1> QED BY <1>4, <1>5, <1>6, <1>8 DEF LedgerSize

LEMMA UnregisterCloses ==
    ASSUME StoreInv, StoreInv', NEW m \in Matches, UnregisterSession(m)
    PROVE  /\ LedgerSize[m] # 0
           /\ LedgerSize' = [LedgerSize EXCEPT ![m] = 0]
           /\ LedgerHolder' = [LedgerHolder EXCEPT ![m] = << >>]
<1>1. /\ sessions' = {s \in sessions : s.match # m}
      /\ tickets' = {t \in tickets : t.match # m}
      /\ m \in Registered
  BY DEF UnregisterSession, TicketsWithout
<1>2. PICK s \in sessions : s.match = m
  BY <1>1 DEF Registered
<1>3. SeatsOf[s.spec] # 0
  BY SeatsOfType DEF StoreInv, StoreTypeOK, Session
<1>4. SizeOf(m) # 0
  BY <1>2, <1>3, SizeIs
<1>5. m \notin Registered'
  BY <1>1 DEF Registered
<1>6. SizeOf(m)' = 0
  BY <1>5, SizeIsNext
<1>7. ASSUME NEW n \in Matches, n # m
      PROVE  SizeOf(n)' = SizeOf(n) /\ LedgerHolder'[n] = LedgerHolder[n]
  <2>1. UsedSeats(n)' = UsedSeats(n)
    BY <1>1, <1>7 DEF UsedSeats, Live
  <2>2. n \in Registered' => n \in Registered
    BY <1>1 DEF Registered
  <2>3. SizeOf(n)' = SizeOf(n)
    BY <1>1, <1>7, <2>2, SizeStays
  <2>4. LedgerHolder'[n] = LedgerHolder[n]
    BY <1>1, <1>7, <2>1, RowStays
  <2> QED BY <2>3, <2>4
<1>8. LedgerHolder'[m] = << >>
  <2>1. UsedSeats(m)' = {}
    BY <1>1 DEF UsedSeats, Live
  <2>2. Cardinality(UsedSeats(m))' = 0
    BY <2>1, FS_EmptySet
  <2>3. LedgerHolder'[m] \in Seq(Owners) /\ Len(LedgerHolder'[m]) = 0
    BY <2>2, HolderTypeNext
  <2> QED BY <2>3, EmptySeq
<1>9. LedgerHolder' = [LedgerHolder EXCEPT ![m] = << >>]
  BY <1>7, <1>8 DEF LedgerHolder
<1> QED BY <1>4, <1>6, <1>7, <1>9 DEF LedgerSize

LEMMA IssueTakes ==
    ASSUME StoreInv, StoreInv',
           NEW m \in Matches, NEW owner \in Owners, IssueTicket(m, owner)
    PROVE  /\ Len(LedgerHolder[m]) < LedgerSize[m]
           /\ LedgerSize' = LedgerSize
           /\ LedgerHolder' = [LedgerHolder EXCEPT ![m] = Append(LedgerHolder[m], owner)]
<1>1. PICK s \in sessions, c \in Ticket :
          /\ s.match = m
          /\ tickets' = tickets \cup {c}
          /\ c.match = m /\ c.owner = owner /\ ~c.superseded
          /\ c.seat < SeatsOf[s.spec] /\ c.seat \notin UsedSeats(m)
          /\ \A n \in 0 .. (SeatsOf[s.spec] - 1) : n \notin UsedSeats(m) => c.seat <= n
          /\ sessions' = sessions
  BY IssueEffect DEF StoreInv
<1>2. PICK k : k = Cardinality(UsedSeats(m))
  OBVIOUS
<1>3. k \in Nat /\ UsedSeats(m) = 0 .. (k - 1)
  BY <1>2, CountIs
<1>4. c.seat \in Nat /\ SeatsOf[s.spec] \in Nat
  BY SeatsOfType DEF StoreInv, StoreTypeOK, Session, Ticket
<1>5. k <= c.seat
  BY <1>1, <1>3, <1>4
<1>6. k < SeatsOf[s.spec] /\ k \in 0 .. (SeatsOf[s.spec] - 1) /\ k \notin UsedSeats(m)
  BY <1>1, <1>3, <1>4, <1>5
<1>7. c.seat = k
  BY <1>1, <1>3, <1>4, <1>5, <1>6
<1>8. Len(LedgerHolder[m]) < LedgerSize[m]
  <2>1. Len(LedgerHolder[m]) = k
    BY <1>2, HolderTypeOK
  <2>2. LedgerSize[m] = SeatsOf[s.spec]
    BY <1>1, SizeIs DEF LedgerSize
  <2> QED BY <1>6, <2>1, <2>2
<1>9. LedgerSize' = LedgerSize
  <2>1. \A n \in Matches : SizeOf(n)' = SizeOf(n)
    BY <1>1, SizeStays DEF Registered
  <2> QED BY <2>1 DEF LedgerSize
<1>10. ASSUME NEW n \in Matches, n # m PROVE LedgerHolder'[n] = LedgerHolder[n]
  <2>1. UsedSeats(n)' = UsedSeats(n)
    BY <1>1, <1>10 DEF UsedSeats, Live
  <2> QED BY <1>1, <2>1, RowStays
<1>11. LedgerHolder'[m] = Append(LedgerHolder[m], owner)
  <2>1. UsedSeats(m)' = 0 .. k
    <3>1. UsedSeats(m)' = UsedSeats(m) \cup {c.seat}
      BY <1>1 DEF UsedSeats, Live
    <3> QED BY <1>3, <1>7, <3>1
  <2>2. Cardinality(UsedSeats(m))' = k + 1
    <3>1. Cardinality(0 .. k) = IF 0 > k THEN 0 ELSE k - 0 + 1
      BY <1>3, FS_Interval
    <3>2. Cardinality(0 .. k) = k + 1
      BY <1>3, <3>1
    <3> QED BY <2>1, <3>2
  <2> DEFINE old == LedgerHolder[m]
             new == LedgerHolder'[m]
  <2>3. /\ old \in Seq(Owners) /\ Len(old) = k
        /\ \A i \in 1 .. k : old[i] = HolderOf(m, i - 1)
    BY <1>2, HolderTypeOK
  <2>4. /\ new \in Seq(Owners) /\ Len(new) = k + 1
        /\ \A i \in 1 .. (k + 1) : new[i] = HolderOf(m, i - 1)'
    BY <2>2, HolderTypeNext
  <2>5. ASSUME NEW i \in 1 .. k PROVE new[i] = old[i]
    <3>1. i - 1 \in UsedSeats(m)
      BY <1>3
    <3>2. \A t \in tickets : t.match = m =>
              \E u \in tickets' : u.match = m /\ u.seat = t.seat /\ u.owner = t.owner
      BY <1>1
    <3>3. HolderOf(m, i - 1)' = HolderOf(m, i - 1)
      BY <3>1, <3>2, HolderStays
    <3>4. i \in 1 .. (k + 1)
      BY <1>3
    <3> QED BY <2>3, <2>4, <3>3, <3>4
  <2>6. new[k + 1] = owner
    <3>1. c \in tickets' /\ c.seat = (k + 1) - 1
      BY <1>1, <1>3, <1>7
    <3>2. HolderOf(m, (k + 1) - 1)' = owner
      BY <1>1, <3>1, HolderIsNext
    <3>3. k + 1 \in 1 .. (k + 1)
      BY <1>3
    <3> QED BY <2>4, <3>2, <3>3
  <2>7. /\ Append(old, owner) \in Seq(Owners)
        /\ Len(Append(old, owner)) = k + 1
        /\ \A i \in 1 .. k : Append(old, owner)[i] = old[i]
        /\ Append(old, owner)[k + 1] = owner
    BY <2>3, AppendProperties
  <2> HIDE DEF old, new
  <2>8. \A i \in 1 .. (k + 1) : new[i] = Append(old, owner)[i]
    BY <1>3, <2>5, <2>6, <2>7
  <2>9. new = Append(old, owner)
    BY <2>4, <2>7, <2>8, SeqEqual
  <2> QED BY <2>9 DEF old, new
<1>12. LedgerHolder' = [LedgerHolder EXCEPT ![m] = Append(LedgerHolder[m], owner)]
  BY <1>10, <1>11 DEF LedgerHolder
<1> QED BY <1>8, <1>9, <1>12

-----------------------------------------------------------------------------
LEMMA InitRefines == StoreInit => Ledger!LedgerInit
<1> SUFFICES ASSUME StoreInit PROVE Ledger!LedgerInit
  OBVIOUS
<1>1. StoreInv
  BY InitStoreInv
<1>2. sessions = {} /\ tickets = {}
  BY DEF StoreInit
<1>3. \A m \in Matches : SizeOf(m) = 0
  BY <1>2 DEF SizeOf, Registered
<1>4. ASSUME NEW m \in Matches PROVE LedgerHolder[m] = << >>
  <2>1. UsedSeats(m) = {}
    BY <1>2 DEF UsedSeats, Live
  <2>2. Cardinality(UsedSeats(m)) = 0
    BY <2>1, FS_EmptySet
  <2>3. LedgerHolder[m] \in Seq(Owners) /\ Len(LedgerHolder[m]) = 0
    BY <1>1, <2>2, HolderTypeOK
  <2> QED BY <2>3, EmptySeq
<1>5. LedgerSize = [m \in Matches |-> 0]
  BY <1>3 DEF LedgerSize
<1>6. LedgerHolder = [m \in Matches |-> << >>]
  BY <1>4 DEF LedgerHolder
<1> QED BY <1>5, <1>6 DEF Ledger!LedgerInit, LedgerSize, LedgerHolder

LEMMA StepRefines ==
    StoreInv /\ StoreInv' /\ [StoreNext]_storeVars => [Ledger!LedgerNext]_(Ledger!ledgerVars)
<1> SUFFICES ASSUME StoreInv, StoreInv', [StoreNext]_storeVars
             PROVE  [Ledger!LedgerNext]_(Ledger!ledgerVars)
  OBVIOUS
<1>1. ASSUME LedgerSize' = LedgerSize, LedgerHolder' = LedgerHolder
      PROVE  UNCHANGED Ledger!ledgerVars
  BY <1>1 DEF Ledger!ledgerVars, LedgerSize, LedgerHolder
<1>2. ASSUME sessions' = sessions, tickets' = tickets PROVE UNCHANGED Ledger!ledgerVars
  <2>1. \A m \in Matches : UsedSeats(m)' = UsedSeats(m)
    BY <1>2, SeatsStay DEF StoreInv
  <2>2. Registered' \subseteq Registered
    BY <1>2 DEF Registered
  <2> QED BY <1>1, <1>2, <2>1, <2>2, Invisible
<1>3. ASSUME NEW m \in Matches, NEW spec \in Specs, RegisterSession(m, spec)
      PROVE  Ledger!LedgerNext
  <2>1. /\ LedgerSize[m] = 0
        /\ LedgerSize' = [LedgerSize EXCEPT ![m] = SeatsOf[spec]]
        /\ LedgerHolder' = LedgerHolder
    BY <1>3, RegisterOpens
  <2>2. SeatsOf[spec] \in {SeatsOf[x] : x \in Specs}
    OBVIOUS
  <2>3. \E n \in {SeatsOf[x] : x \in Specs} : LedgerSize' = [LedgerSize EXCEPT ![m] = n]
    BY <2>1, <2>2
  <2>4. Ledger!Open(m)
    BY <2>1, <2>3 DEF Ledger!Open, LedgerSize, LedgerHolder
  <2> QED BY <2>4 DEF Ledger!LedgerNext
<1>4. ASSUME NEW m \in Matches, UnregisterSession(m) PROVE Ledger!LedgerNext
  <2>1. Ledger!Close(m)
    BY <1>4, UnregisterCloses DEF Ledger!Close, LedgerSize, LedgerHolder
  <2> QED BY <2>1 DEF Ledger!LedgerNext
<1>5. ASSUME NEW m \in Matches, NEW code \in RoomCodes, AssignRoomCode(m, code)
      PROVE  UNCHANGED Ledger!ledgerVars
  <2>1. PICK s \in sessions, c \in Session :
            /\ sessions' = (sessions \ {s}) \cup {c}
            /\ c.match = s.match /\ c.spec = s.spec
            /\ tickets' = tickets
    BY <1>5, AssignEffect DEF StoreInv
  <2>2. \A n \in Matches : UsedSeats(n)' = UsedSeats(n)
    BY <2>1, SeatsStay DEF StoreInv
  <2>3. Registered' \subseteq Registered
    BY <2>1 DEF Registered
  <2>4. \A x \in sessions : \E r \in sessions' : r.match = x.match /\ r.spec = x.spec
    BY <2>1
  <2> QED BY <1>1, <2>1, <2>2, <2>3, <2>4, Invisible
<1>6. ASSUME NEW m \in Matches, NEW owner \in Owners, IssueTicket(m, owner)
      PROVE  Ledger!LedgerNext
  <2>1. Ledger!Take(m, owner)
    BY <1>6, IssueTakes DEF Ledger!Take, LedgerSize, LedgerHolder
  <2> QED BY <2>1 DEF Ledger!LedgerNext
<1>7. ASSUME NEW m \in Matches, NEW t \in tickets, ReconnectTicket(m, t)
      PROVE  UNCHANGED Ledger!ledgerVars
  <2>1. PICK c, d \in Ticket :
            /\ tickets' = (tickets \ {t}) \cup {c, d}
            /\ d.match = t.match /\ d.seat = t.seat /\ d.owner = t.owner
            /\ sessions' = sessions
    BY <1>7, ReconnectEffect DEF StoreInv
  <2>2. \A n \in Matches : UsedSeats(n)' = UsedSeats(n)
    BY <1>7, SeatsStay DEF StoreInv
  <2>3. Registered' \subseteq Registered
    BY <2>1 DEF Registered
  <2>4. \A x \in tickets :
            \E u \in tickets' : u.match = x.match /\ u.seat = x.seat /\ u.owner = x.owner
    BY <2>1
  <2> QED BY <1>1, <2>1, <2>2, <2>3, <2>4, Invisible
<1>8. ASSUME NEW t \in tickets, ConsumeTicket(t) PROVE UNCHANGED Ledger!ledgerVars
  <2>1. PICK c \in Ticket :
            /\ tickets' = (tickets \ {t}) \cup {c}
            /\ c.match = t.match /\ c.seat = t.seat /\ c.owner = t.owner
            /\ sessions' = sessions
    BY <1>8, ConsumeEffect DEF StoreInv
  <2>2. \A n \in Matches : UsedSeats(n)' = UsedSeats(n)
    BY <1>8, SeatsStay DEF StoreInv
  <2>3. Registered' \subseteq Registered
    BY <2>1 DEF Registered
  <2>4. \A x \in tickets :
            \E u \in tickets' : u.match = x.match /\ u.seat = x.seat /\ u.owner = x.owner
    BY <2>1
  <2> QED BY <1>1, <2>1, <2>2, <2>3, <2>4, Invisible
<1>9. CASE \/ Tick \/ UNCHANGED storeVars
           \/ \E m \in Matches, x \in Results : RecordSettlement(m, x)
  <2>1. sessions' = sessions /\ tickets' = tickets
    BY <1>9 DEF Tick, storeVars, RecordSettlement
  <2> QED BY <1>2, <2>1
<1> QED
  BY <1>3, <1>4, <1>5, <1>6, <1>7, <1>8, <1>9 DEF StoreNext

(* Seats are given in order, kept through every reconnect, and given up    *)
(* only by unregistering the match.                                        *)
THEOREM StoreImplementsLedger == StoreSpec => LedgerSpec
<1>1. StoreSpec => StoreInit /\ [][StoreNext]_storeVars
  BY DEF StoreSpec
<1> QED BY <1>1, InitRefines, StepRefines, StoreInvariant, PTL DEF LedgerSpec, Ledger!LedgerSpec

=============================================================================
