------------------------------ MODULE MatchStore ------------------------------
(***************************************************************************)
(* The control plane's tables match_sessions, match_tickets and            *)
(* match_settlements, and every operation that writes them.  Node runs a   *)
(* handler without interruption up to its first await and every SQLite     *)
(* call is synchronous, so each operation below is one step.               *)
(*                                                                         *)
(* A row is a record and a table a set of records.  Random ids (tickets)   *)
(* are numbers handed out in order; the bytes, hashes and timestamps of a  *)
(* row are dropped where no operation compares them.                       *)
(***************************************************************************)
EXTENDS Integers, FiniteSets

CONSTANTS
    Matches,     \* match ids a host may register
    Specs,       \* what a match plays: a course, a blueprint or a UGC version
    SeatsOf,     \* SeatsOf[spec]: how many seats the spec asks for
    RoomCodes,   \* public room codes
    NoCode,      \* the room_code of a row that has none
    Players,     \* signed-in guests and accounts
    Anonymous,   \* the owner of a ticket issued without an identity
    Results,     \* settlements a host may report
    TicketTtl,   \* life of a ticket, in clock units
    MaxTickets,  \* bound: tickets ever minted
    MaxTime      \* bound: how far the clock runs

ASSUME SeatsOfType == SeatsOf \in [Specs -> Nat \ {0}]
ASSUME TtlType == TicketTtl \in Nat \ {0}
ASSUME BoundTypes == MaxTickets \in Nat /\ MaxTime \in Nat
ASSUME NoCodeIsNone == NoCode \notin RoomCodes
ASSUME AnonymousIsNobody == Anonymous \notin Players

Owners == Players \cup {Anonymous}

VARIABLES
    now,         \* the clock: now() of the server, moved by Tick
    sessions,    \* match_sessions: [match, spec, code, created]
    tickets,     \* match_tickets: [id, match, seat, expires, consumed, superseded, owner]
    settlements, \* match_settlements: [match, result]
    minted       \* how many tickets were ever generated; 1..minted are their ids

storeVars == <<now, sessions, tickets, settlements, minted>>

Session == [match : Matches, spec : Specs, code : RoomCodes \cup {NoCode}, created : Nat]

Ticket == [id : Nat \ {0}, match : Matches, seat : Nat, expires : Nat,
           consumed : BOOLEAN, superseded : BOOLEAN, owner : Owners]

Settlement == [match : Matches, result : Results]

StoreTypeOK ==
    /\ now \in Nat
    /\ sessions \subseteq Session
    /\ tickets \subseteq Ticket
    /\ settlements \subseteq Settlement
    /\ minted \in Nat

-----------------------------------------------------------------------------
(* Reads.                                                                  *)

Registered == {s.match : s \in sessions}

Live(m) == {t \in tickets : t.match = m /\ ~t.superseded}

(* countTickets: a seat counts while a ticket of it is not superseded,     *)
(* however long ago that ticket expired.                                   *)
(* Mutant: an expired ticket gives its seat back.                          *)
UsedSeatsUnexpired(m) == {t.seat : t \in {u \in Live(m) : u.expires > now}}

UsedSeats(m) == {t.seat : t \in Live(m)}

(* Mutant: the loop over the seats runs one too far.                       *)
FreeSeatsOneTooMany(s) == {n \in 0 .. SeatsOf[s.spec] : n \notin UsedSeats(s.match)}

FreeSeats(s) == {n \in 0 .. (SeatsOf[s.spec] - 1) : n \notin UsedSeats(s.match)}

(* nextSeat: the loop over 0 .. seats-1 stops at the lowest unused one.    *)
NextSeat(s) == {n \in FreeSeats(s) : \A other \in FreeSeats(s) : n <= other}

(* findOldestOpenRoom and its content and blueprint twins: rooms without a *)
(* code are not public; ORDER BY created_at leaves ties to the database.   *)
(* The queries compare the count of distinct seats with the seats of the   *)
(* room, which is the same as long as seats fill in order.                 *)
OpenRooms(spec) ==
    {s \in sessions : s.code # NoCode /\ s.spec = spec /\ FreeSeats(s) # {}}

OldestOpen(spec) ==
    {s \in OpenRooms(spec) : \A other \in OpenRooms(spec) : s.created <= other.created}

(* The verdict of POST /tickets/verify.  It asks for the ticket's session, *)
(* consumed_at and expires_at; it does not look at superseded_at.          *)
(* Mutant: consumed_at is not looked at either.                            *)
AdmissibleAgain(t) == t.match \in Registered /\ t.expires > now

Admissible(t) == t.match \in Registered /\ ~t.consumed /\ t.expires > now

-----------------------------------------------------------------------------
StoreInit ==
    /\ now = 0
    /\ sessions = {}
    /\ tickets = {}
    /\ settlements = {}
    /\ minted = 0

Tick ==
    /\ now < MaxTime
    /\ now' = now + 1
    /\ UNCHANGED <<sessions, tickets, settlements, minted>>

(* POST /match-sessions: 409 when the id is already registered.            *)
RegisterSession(m, spec) ==
    /\ m \notin Registered
    /\ sessions' = sessions \cup
           {[match |-> m, spec |-> spec, code |-> NoCode, created |-> now]}
    /\ UNCHANGED <<now, tickets, settlements, minted>>

(* Mutant: only the session row is deleted.                                *)
TicketsLeftBehind(m) == tickets

TicketsWithout(m) == {t \in tickets : t.match # m}

(* DELETE /match-sessions/:id deletes the tickets with the session; the    *)
(* settlement stays.                                                       *)
UnregisterSession(m) ==
    /\ m \in Registered
    /\ sessions' = {s \in sessions : s.match # m}
    /\ tickets' = TicketsWithout(m)
    /\ UNCHANGED <<now, settlements, minted>>

(* Mutant: a generated code is not looked up.                              *)
CodeNeverTaken(code) == FALSE

CodeTaken(code) == \E s \in sessions : s.code = code

(* Mutant: a room that has a code gets another.                            *)
NeedsCodeAgain(m) == {s \in sessions : s.match = m}

NeedsCode(m) == {s \in sessions : s.match = m /\ s.code = NoCode}

(* A code is generated and retried until it is not taken; that eight in a  *)
(* row are, which is an error, is left out here and where a room of a      *)
(* launch gets its code.                                                   *)
AssignRoomCode(m, code) ==
    /\ ~CodeTaken(code)
    /\ \E s \in NeedsCode(m) :
          sessions' = (sessions \ {s}) \cup {[s EXCEPT !.code = code]}
    /\ UNCHANGED <<now, tickets, settlements, minted>>

NewTicket(m, seat, owner) ==
    [id |-> minted + 1, match |-> m, seat |-> seat, expires |-> now + TicketTtl,
     consumed |-> FALSE, superseded |-> FALSE, owner |-> owner]

CanMint == minted < MaxTickets

(* issueTicket; 404 and 409 leave the tables alone.                        *)
IssueTicket(m, owner) ==
    /\ CanMint
    /\ \E s \in sessions :
          /\ s.match = m
          /\ \E seat \in NextSeat(s) :
                tickets' = tickets \cup {NewTicket(m, seat, owner)}
    /\ minted' = minted + 1
    /\ UNCHANGED <<now, sessions, settlements>>

(* consumeTicket, called by the gateway for every upgrade.                 *)
ConsumeTicket(t) ==
    /\ t \in tickets
    /\ Admissible(t)
    /\ tickets' = (tickets \ {t}) \cup {[t EXCEPT !.consumed = TRUE]}
    /\ UNCHANGED <<now, sessions, settlements, minted>>

(* Mutant: consumed_at is not looked at.                                   *)
CanReconnectUnconsumed(m, t) == m \in Registered /\ t.match = m /\ ~t.superseded

CanReconnect(m, t) ==
    /\ m \in Registered
    /\ t.match = m
    /\ t.consumed
    /\ ~t.superseded

(* Mutant: the old ticket is left as it was.                               *)
SupersededNot(t) == t

(* Mutant: the old ticket is reset with superseded_at set.                 *)
SupersededAfresh(t) == [t EXCEPT !.superseded = TRUE, !.consumed = FALSE]

Superseded(t) == [t EXCEPT !.superseded = TRUE]

(* Mutant: the owner is not copied to the new ticket.                      *)
SuccessorUnowned(t) == NewTicket(t.match, t.seat, Anonymous)

Successor(t) == NewTicket(t.match, t.seat, t.owner)

(* reconnectTicket: the old ticket is superseded, however old, and a fresh *)
(* one takes over its seat and its owner.                                  *)
ReconnectTicket(m, t) ==
    /\ CanMint
    /\ t \in tickets
    /\ CanReconnect(m, t)
    /\ tickets' = (tickets \ {t}) \cup {Superseded(t), Successor(t)}
    /\ minted' = minted + 1
    /\ UNCHANGED <<now, sessions, settlements>>

(* POST /match-sessions/:id/settlement: 404 unknown match, 409 second one. *)
RecordSettlement(m, result) ==
    /\ m \in Registered
    /\ \A x \in settlements : x.match # m
    /\ settlements' = settlements \cup {[match |-> m, result |-> result]}
    /\ UNCHANGED <<now, sessions, tickets, minted>>

StoreNext ==
    \/ Tick
    \/ \E m \in Matches :
          \/ \E spec \in Specs : RegisterSession(m, spec)
          \/ UnregisterSession(m)
          \/ \E code \in RoomCodes : AssignRoomCode(m, code)
          \/ \E owner \in Owners : IssueTicket(m, owner)
          \/ \E t \in tickets : ReconnectTicket(m, t)
          \/ \E result \in Results : RecordSettlement(m, result)
    \/ \E t \in tickets : ConsumeTicket(t)

StoreSpec == StoreInit /\ [][StoreNext]_storeVars
-----------------------------------------------------------------------------
(* Seats of a match are handed out in order and never leave a gap, so what *)
(* countTickets reports, the seat nextSeat picks and the "is there room"   *)
(* test of the matchmaker agree: the used seats are the first k of the     *)
(* room, and k is at most its size, through any sequence of expiries,      *)
(* reconnects and re-registrations.                                        *)
SeatsFillInOrder ==
    \A s \in sessions :
        \E k \in 0 .. SeatsOf[s.spec] : UsedSeats(s.match) = 0 .. (k - 1)

(* A seat has one holder: of all the tickets ever issued for it while the  *)
(* match is registered, exactly one is not superseded (reconnectTicket     *)
(* supersedes and inserts in one transaction).                             *)
OneLiveTicketPerSeat ==
    \A t \in tickets :
        /\ \E live \in Live(t.match) : live.seat = t.seat
        /\ \A u \in tickets :
              (t.match = u.match /\ t.seat = u.seat /\ ~t.superseded /\ ~u.superseded)
                  => t = u

(* At most one ticket of a seat would be let in by POST /tickets/verify.   *)
(* That handler never reads superseded_at: it is right only because        *)
(* reconnectTicket refuses a ticket that was not consumed first.           *)
OneAdmissiblePerSeat ==
    \A t, u \in tickets :
        (/\ Admissible(t) /\ Admissible(u)
         /\ t.match = u.match /\ t.seat = u.seat) => t = u

(* A seat is one player's from the first ticket to the last reconnect:     *)
(* replays are stored for the owners found in these rows, so a seat with   *)
(* two owners would hand one player's match to another.                    *)
SeatHasOneOwner ==
    \A t, u \in tickets :
        (t.match = u.match /\ t.seat = u.seat) => t.owner = u.owner

(* No ticket outlives its match: match_tickets has no row whose session is *)
(* gone, so a match id registered again starts with every seat free.       *)
TicketsHaveSessions == \A t \in tickets : t.match \in Registered

(* One row per primary key, and one match per public room code.            *)
KeysAreUnique ==
    /\ \A s, r \in sessions : s.match = r.match => s = r
    /\ \A s, r \in sessions : (s.code = r.code /\ s.code # NoCode) => s = r
    /\ \A t, u \in tickets : t.id = u.id => t = u
    /\ \A t \in tickets : t.id <= minted
    /\ \A x, y \in settlements : x.match = y.match => x = y

(* A ticket that was consumed, had expired or whose match was closed is    *)
(* never let in again.                                                     *)
NoSecondAdmission ==
    [][\A t \in tickets, u \in tickets' :
          (t.id = u.id /\ Admissible(u)') => Admissible(t)]_storeVars

(* While a match stays registered its seats keep their holders, and its    *)
(* public code, once assigned, does not change.                            *)
RoomIsStable ==
    [][\A s \in sessions, r \in sessions' :
          s.match = r.match =>
              /\ UsedSeats(s.match) \subseteq UsedSeats(s.match)'
              /\ s.code # NoCode => r.code = s.code]_storeVars

-----------------------------------------------------------------------------
(* The store implements the seat ledger.                                   *)
SizeOf(m) ==
    IF m \in Registered THEN SeatsOf[(CHOOSE s \in sessions : s.match = m).spec] ELSE 0

HolderOf(m, seat) == (CHOOSE t \in Live(m) : t.seat = seat).owner

Ledger == INSTANCE SeatLedger WITH
    Sizes <- {SeatsOf[spec] : spec \in Specs},
    Holders <- Owners,
    size <- [m \in Matches |-> SizeOf(m)],
    holder <- [m \in Matches |->
                  [i \in 1 .. Cardinality(UsedSeats(m)) |-> HolderOf(m, i - 1)]]

(* Seats are given in order, kept through reconnects, and given up only by *)
(* unregistering the match: the abstract promise of SeatLedger.            *)
LedgerSpec == Ledger!LedgerSpec
=============================================================================
