----------------------------- MODULE Matchmaking -----------------------------
(***************************************************************************)
(* The control plane's matchmaking: the handlers of server.ts and          *)
(* server_sessions.ts that seat players, the waiting queue (match_queue),  *)
(* the chain of drain runs that empties it, and the calls they make to the *)
(* match host.  It runs on the tables of MatchStore: every step of it is a *)
(* step of that module or leaves the tables alone.                         *)
(*                                                                         *)
(* Node runs one handler at a time up to its next await.  The only awaits  *)
(* that matter are the launch call to the match host and the wait for a    *)
(* drain run; between two of them a handler holds the JavaScript turn      *)
(* (InTurn), and only the clock and the other processes move.              *)
(*                                                                         *)
(* The match host is seen from outside (MatchHost models it in full): it   *)
(* reserves a place, registers the match, answers, and some time after the *)
(* match stopped unregisters it.                                           *)
(***************************************************************************)
EXTENDS MatchStore, Sequences

CONSTANTS
    Requests,    \* POST /matchmaking/... calls of the players
    Identity,    \* Identity[r]: the player behind r, or Anonymous
    Kinds,       \* requests that may wait: a subset of {"quick", "create_room"}
    Operator,    \* the identity of tickets issued by hand
    Capacity,    \* matches the host runs at a time
    QueueTtl,    \* life of a waiting row, in clock units
    Faults       \* what may also happen: a subset of {"start", "timeout", "unregister", "ops"}

ASSUME IdentityType == Identity \in [Requests -> Owners]
ASSUME KindsType == Kinds \subseteq {"quick", "create_room"}
ASSUME OperatorIsAnOwner == Operator \in Owners
ASSUME CapacityType == Capacity \in Nat \ {0}
ASSUME QueueTtlType == QueueTtl \in Nat \ {0}
ASSUME SomethingToPlay == Specs # {}

Drain == "drain"
Callers == Requests \cup {Drain}
Answers == {"none", "sent", "refused", "failed"}
NoTicket == 0

ASSUME DrainIsNoRequest == Drain \notin Requests
ASSUME AnswersAreNoMatches == Answers \cap Matches = {}

VARIABLES
    request,     \* request[r]: [pc, kind, spec, ticket], a handler and what its client knows
    queue,       \* match_queue in rowid order: [request, kind, spec, status, expires, match, ticket]
    chain,       \* drainChain: who asked for a drain run that has not ended, in order
    drain,       \* the run at the head of the chain: [pc, todo, head], rows by their index
    launch,      \* launch[c]: c's call to the host: "none", "sent", "refused", "failed" or a match
    hosted       \* hosted[m]: [state, spec], the host's own view of the match

matchVars == <<request, queue, chain, drain, launch, hosted>>
vars == <<now, sessions, tickets, settlements, minted,
          request, queue, chain, drain, launch, hosted>>

RequestStates == {"idle", "launching", "admitting", "draining", "waiting", "joined", "failed", "left"}
RowStates == {"waiting", "ready", "failed", "cancelled"}
Row == [request : Requests, kind : {"quick", "create_room"}, spec : Specs, status : RowStates,
        expires : Nat, match : Matches \cup {"none"}, ticket : 0 .. MaxTickets]
HostStates == {"unused", "starting", "running", "stopped", "gone"}

MatchTypeOK ==
    /\ request \in [Requests -> [pc : RequestStates, kind : {"quick", "create_room", "join"},
                                 spec : Specs, ticket : 0 .. MaxTickets]]
    /\ queue \in Seq(Row)
    /\ chain \in Seq(Requests \cup Matches)
    /\ drain \in [pc : {"idle", "scan", "launching", "admitting"},
                  todo : SUBSET DOMAIN queue, head : DOMAIN queue \cup {0}]
    /\ drain.pc \in {"launching", "admitting"} => drain.head # 0
    /\ launch \in [Callers -> Answers \cup Matches]
    /\ hosted \in [Matches -> [state : HostStates, spec : Specs]]
-----------------------------------------------------------------------------
(* Who holds the JavaScript turn: a drain run in the middle of its scan, a *)
(* run that is due (a microtask of whoever asked for it or of the run      *)
(* before it), or the continuation of a launch that has assigned the room  *)
(* code and is about to issue the ticket.                                  *)
InTurn ==
    \/ drain.pc \in {"scan", "admitting"}
    \/ drain.pc = "idle" /\ chain # << >>
    \/ \E r \in Requests : request[r].pc = "admitting"

(* listWaiting: the unexpired waiting rows.                                *)
Waiting == {i \in DOMAIN queue : queue[i].status = "waiting" /\ queue[i].expires > now}

(* Mutant: the newest row goes first.                                      *)
Latest(rows) == {i \in rows : \A j \in rows : i >= j}

First(rows) == {i \in rows : \A j \in rows : i <= j}

SeatThrough(i) == queue[i].kind = "quick" /\ OldestOpen(queue[i].spec) # {}

Load == Cardinality({m \in Matches : hosted[m].state \in {"starting", "running"}})

UnusedMatches == {m \in Matches : hosted[m].state = "unused"}

AskFor(c) == IF c = Drain THEN queue[drain.head].spec ELSE request[c].spec

(* A started match whose answer is still on its way to its caller.         *)
Answered(c) ==
    /\ launch[c] \in Matches
    /\ hosted[launch[c]].state \in {"running", "stopped", "gone"}

MatchInit ==
    /\ StoreInit
    /\ LET spec == CHOOSE x \in Specs : TRUE IN
          /\ request = [r \in Requests |->
                 [pc |-> "idle", kind |-> "quick", spec |-> spec, ticket |-> NoTicket]]
          /\ hosted = [m \in Matches |-> [state |-> "unused", spec |-> spec]]
    /\ queue = << >>
    /\ chain = << >>
    /\ drain = [pc |-> "idle", todo |-> {}, head |-> 0]
    /\ launch = [c \in Callers |-> "none"]

-----------------------------------------------------------------------------
(* The player-facing handlers.                                             *)

Move(r, pc) == request' = [request EXCEPT ![r].pc = pc]

Arrive(r, kind, spec, pc, ticket) ==
    request' = [request EXCEPT ![r] = [pc |-> pc, kind |-> kind, spec |-> spec, ticket |-> ticket]]

(* POST /matchmaking/quick, when an open room of that spec is there.       *)
QuickJoin(r, spec) ==
    /\ ~InTurn
    /\ request[r].pc = "idle"
    /\ \E s \in OldestOpen(spec) : IssueTicket(s.match, Identity[r])
    /\ Arrive(r, "quick", spec, "joined", minted')
    /\ UNCHANGED <<queue, chain, drain, launch, hosted>>

(* POST /matchmaking/quick with no open room, or POST /matchmaking/rooms:  *)
(* launchOrEnqueue calls the host whatever the queue holds.                *)
AskLaunch(r, kind, spec) ==
    /\ ~InTurn
    /\ request[r].pc = "idle"
    /\ kind = "quick" => OldestOpen(spec) = {}
    /\ Arrive(r, kind, spec, "launching", NoTicket)
    /\ launch' = [launch EXCEPT ![r] = "sent"]
    /\ UNCHANGED <<storeVars, queue, chain, drain, hosted>>

(* POST /matchmaking/rooms/:code/join.                                     *)
JoinByCode(r, s) ==
    /\ ~InTurn
    /\ request[r].pc = "idle"
    /\ s \in sessions /\ s.code # NoCode
    /\ \/ /\ IssueTicket(s.match, Identity[r])
          /\ Arrive(r, "join", s.spec, "joined", minted')
       \/ /\ FreeSeats(s) = {}
          /\ Arrive(r, "join", s.spec, "failed", NoTicket)
          /\ UNCHANGED storeVars
    /\ UNCHANGED <<queue, chain, drain, launch, hosted>>

(* 201 from the host: the room gets its code, unless it is gone already.   *)
LaunchOk(r) ==
    /\ ~InTurn
    /\ request[r].pc = "launching"
    /\ Answered(r)
    /\ \/ /\ \E code \in RoomCodes : AssignRoomCode(launch[r], code)
          /\ Move(r, "admitting")
          /\ UNCHANGED launch
       \/ /\ launch[r] \notin Registered
          /\ Move(r, "failed")
          /\ launch' = [launch EXCEPT ![r] = "none"]
          /\ UNCHANGED storeVars
    /\ UNCHANGED <<queue, chain, drain, hosted>>

Full(m) == \A s \in sessions : s.match = m => FreeSeats(s) = {}

(* admitToRoom after the launch; an operator may have filled the room      *)
(* before its code was known, and then the player gets a 500.              *)
Admit(r) ==
    /\ request[r].pc = "admitting"
    /\ \/ /\ IssueTicket(launch[r], Identity[r])
          /\ request' = [request EXCEPT ![r].pc = "joined", ![r].ticket = minted']
       \/ /\ Full(launch[r])
          /\ Move(r, "failed")
          /\ UNCHANGED storeVars
    /\ launch' = [launch EXCEPT ![r] = "none"]
    /\ UNCHANGED <<queue, chain, drain, hosted>>

NewRow(r) ==
    [request |-> r, kind |-> request[r].kind, spec |-> request[r].spec, status |-> "waiting",
     expires |-> now + QueueTtl, match |-> "none", ticket |-> NoTicket]

(* 503 from the host: the request becomes a row and asks for a drain run.  *)
Enqueue(r) ==
    /\ ~InTurn
    /\ launch[r] = "refused"
    /\ queue' = Append(queue, NewRow(r))
    /\ chain' = Append(chain, r)
    /\ Move(r, "draining")
    /\ launch' = [launch EXCEPT ![r] = "none"]
    /\ UNCHANGED <<storeVars, drain, hosted>>

(* Any other answer, or none within the timeout, is a 502 to the player.   *)
LaunchFailed(r) ==
    /\ ~InTurn
    /\ request[r].pc = "launching"
    /\ launch[r] # "refused"
    /\ launch[r] = "failed" \/ "timeout" \in Faults
    /\ Move(r, "failed")
    /\ launch' = [launch EXCEPT ![r] = "none"]
    /\ UNCHANGED <<storeVars, queue, chain, drain, hosted>>

RowOf(r) == CHOOSE i \in DOMAIN queue : queue[i].request = r

(* Mutant: the row's status is passed on as it is.                         *)
LearnRawStatus(r) == Move(r, queue[RowOf(r)].status)

(* viewQueue answers "ready" only for a seat it still finds in the tables. *)
Backed(row) ==
    /\ \E s \in sessions : s.match = row.match /\ s.code # NoCode
    /\ \E t \in tickets : t.id = row.ticket /\ ~t.superseded

(* The client learns what became of its row (viewQueue): a seat, a         *)
(* failure, that it waits, or that the token is no longer good.            *)
Learn(r) ==
    LET row == queue[RowOf(r)] IN
    \/ /\ row.status = "ready" /\ Backed(row)
       /\ request' = [request EXCEPT ![r].pc = "joined", ![r].ticket = row.ticket]
    \/ /\ row.status \in {"ready", "failed"}
       /\ row.status = "ready" => ~Backed(row)
       /\ Move(r, "failed")
    \/ /\ row.status = "waiting"
       /\ request[r].pc = "draining"
       /\ Move(r, "waiting")
    \/ /\ row.status = "waiting" /\ row.expires <= now
       /\ request[r].pc = "waiting"
       /\ Move(r, "left")

(* The await of runDrain ends; the handler answers 201, 502 or 202.        *)
AnswerEnqueued(r) ==
    /\ ~InTurn
    /\ request[r].pc = "draining"
    /\ \A i \in DOMAIN chain : chain[i] # r
    /\ Learn(r)
    /\ UNCHANGED <<storeVars, queue, chain, drain, launch, hosted>>

(* GET /matchmaking/queue/:token.                                          *)
Poll(r) ==
    /\ ~InTurn
    /\ request[r].pc = "waiting"
    /\ Learn(r)
    /\ UNCHANGED <<storeVars, queue, chain, drain, launch, hosted>>

(* DELETE /matchmaking/queue/:token: only an unexpired waiting row.        *)
Cancel(r) ==
    /\ ~InTurn
    /\ request[r].pc = "waiting"
    /\ RowOf(r) \in Waiting
    /\ queue' = [queue EXCEPT ![RowOf(r)].status = "cancelled"]
    /\ Move(r, "left")
    /\ UNCHANGED <<storeVars, chain, drain, launch, hosted>>

-----------------------------------------------------------------------------
(* A drain run.  runDrain chains them, so one runs at a time.              *)

DrainTo(pc, todo, head) == drain' = [pc |-> pc, todo |-> todo, head |-> head]

(* Mutant: a run that ends is not taken off the chain.                     *)
EndRunStaysFirst ==
    /\ DrainTo("idle", {}, 0)
    /\ UNCHANGED chain

EndRun ==
    /\ DrainTo("idle", {}, 0)
    /\ chain' = Tail(chain)

StartRun ==
    /\ drain.pc = "idle"
    /\ chain # << >>
    /\ DrainTo("scan", Waiting, 0)
    /\ UNCHANGED <<storeVars, request, queue, chain, launch, hosted>>

(* fulfillWaiter seats nobody in a match of another spec.                  *)
Plays(m, spec) == \E s \in sessions : s.match = m /\ s.spec = spec

(* Mutant: the row's status is not read again after the launch.            *)
FulfillRevives(i, m) ==
    /\ IssueTicket(m, Anonymous)
    /\ queue' = [queue EXCEPT ![i].status = "ready", ![i].match = m, ![i].ticket = minted']

(* Mutant: the ticket is issued before the status is read.                 *)
FulfillIssuesFirst(i, m) ==
    /\ IssueTicket(m, Anonymous)
    /\ queue' = IF i \in Waiting
                THEN [queue EXCEPT ![i].status = "ready", ![i].match = m, ![i].ticket = minted']
                ELSE queue

(* fulfillWaiter: a row still waiting takes a seat of m.  The ticket has   *)
(* no owner.                                                               *)
Fulfill(i, m) ==
    /\ i \in Waiting
    /\ Plays(m, queue[i].spec)
    /\ IssueTicket(m, Anonymous)
    /\ queue' = [queue EXCEPT ![i].status = "ready", ![i].match = m, ![i].ticket = minted']

(* One turn of the scan: quick rows first, in order, into open rooms.      *)
ScanRow ==
    /\ drain.pc = "scan"
    /\ \E i \in First(drain.todo) :
          /\ DrainTo("scan", drain.todo \ {i}, 0)
          /\ \/ /\ SeatThrough(i)
                /\ \E s \in OldestOpen(queue[i].spec) : Fulfill(i, s.match)
             \/ /\ ~SeatThrough(i) \/ i \notin Waiting
                /\ UNCHANGED <<storeVars, queue>>
    /\ UNCHANGED <<request, chain, launch, hosted>>

(* The end of a scan: nobody is left, the head still has an open room, or  *)
(* a room is launched for it.                                              *)
ScanEnd ==
    /\ drain.pc = "scan"
    /\ drain.todo = {}
    /\ \/ /\ Waiting = {}
          /\ EndRun
          /\ UNCHANGED launch
       \/ \E head \in First(Waiting) :
             \/ /\ SeatThrough(head)
                /\ DrainTo("scan", Waiting, 0)
                /\ UNCHANGED <<chain, launch>>
             \/ /\ ~SeatThrough(head)
                /\ DrainTo("launching", {}, head)
                /\ launch' = [launch EXCEPT ![Drain] = "sent"]
                /\ UNCHANGED chain
    /\ UNCHANGED <<storeVars, request, queue, hosted>>

DrainLaunchOk ==
    /\ ~InTurn
    /\ drain.pc = "launching"
    /\ Answered(Drain)
    /\ \E code \in RoomCodes : AssignRoomCode(launch[Drain], code)
    /\ drain' = [drain EXCEPT !.pc = "admitting"]
    /\ UNCHANGED <<request, queue, chain, launch, hosted>>

(* The room is there; the head may have left or expired in the meantime,   *)
(* and then the room stays for whoever the next scan finds.  A full room   *)
(* is an exception that ends the run.                                      *)
DrainAdmit ==
    /\ drain.pc = "admitting"
    /\ \/ /\ Fulfill(drain.head, launch[Drain])
          /\ DrainTo("scan", Waiting', 0)
          /\ UNCHANGED chain
       \/ /\ drain.head \notin Waiting
          /\ DrainTo("scan", Waiting, 0)
          /\ UNCHANGED <<storeVars, queue, chain>>
       \/ /\ drain.head \in Waiting
          /\ Full(launch[Drain]) \/ ~Plays(launch[Drain], queue[drain.head].spec)
          /\ EndRun
          /\ UNCHANGED <<storeVars, queue>>
    /\ launch' = [launch EXCEPT ![Drain] = "none"]
    /\ UNCHANGED <<request, hosted>>

(* A refusal ends the run; any other failure also fails the head's row.    *)
DrainLaunchFails ==
    /\ ~InTurn
    /\ drain.pc = "launching"
    /\ \/ /\ launch[Drain] = "refused"
          /\ UNCHANGED queue
       \/ /\ launch[Drain] # "refused"
          /\ \/ launch[Drain] = "failed"
             \/ Answered(Drain) /\ launch[Drain] \notin Registered
             \/ "timeout" \in Faults
          /\ queue' = IF queue[drain.head].status = "waiting"
                      THEN [queue EXCEPT ![drain.head].status = "failed"] ELSE queue
    /\ EndRun
    /\ launch' = [launch EXCEPT ![Drain] = "none"]
    /\ UNCHANGED <<storeVars, request, hosted>>

-----------------------------------------------------------------------------
(* The match host, as the control plane meets it.                          *)

HostTo(m, state) == hosted' = [hosted EXCEPT ![m].state = state]

(* POST /matches: a place is reserved, or 503.  Bound: a host that has no  *)
(* match id left answers as a full one.                                    *)
HostReserve(c) ==
    /\ launch[c] = "sent"
    /\ \/ /\ Load < Capacity
          /\ \E m \in UnusedMatches :
                /\ hosted' = [hosted EXCEPT ![m] = [state |-> "starting", spec |-> AskFor(c)]]
                /\ launch' = [launch EXCEPT ![c] = m]
       \/ /\ Load >= Capacity \/ UnusedMatches = {}
          /\ launch' = [launch EXCEPT ![c] = "refused"]
          /\ UNCHANGED hosted
    /\ UNCHANGED <<storeVars, request, queue, chain, drain>>

HostStartFails(m) ==
    /\ "start" \in Faults
    /\ hosted[m].state = "starting"
    /\ HostTo(m, "gone")
    /\ launch' = [c \in Callers |-> IF launch[c] = m THEN "failed" ELSE launch[c]]
    /\ UNCHANGED <<storeVars, request, queue, chain, drain>>

(* The process listens and the host registers it; the 201 follows later.   *)
HostRegisters(m) ==
    /\ ~InTurn
    /\ hosted[m].state = "starting"
    /\ RegisterSession(m, hosted[m].spec)
    /\ HostTo(m, "running")
    /\ UNCHANGED <<request, queue, chain, drain, launch>>

(* The match is over; its place is free before the session is.             *)
MatchStops(m) ==
    /\ hosted[m].state = "running"
    /\ HostTo(m, "stopped")
    /\ UNCHANGED <<storeVars, request, queue, chain, drain, launch>>

(* Mutant: ready rows survive their match.                                 *)
FailNoRows(m) == queue

FailReadyRows(m) ==
    [i \in DOMAIN queue |->
        IF queue[i].match = m /\ queue[i].status = "ready"
        THEN [queue[i] EXCEPT !.status = "failed", !.ticket = NoTicket]
        ELSE queue[i]]

(* Mutant: unregistering asks for no drain run.                            *)
OfferToNobody(m) == chain

(* The freed place is offered to the queue.                                *)
OfferToQueue(m) == Append(chain, m)

(* DELETE /match-sessions/:id: the rows made ready in the match fail with  *)
(* it, and a drain run is asked for.                                       *)
HostUnregisters(m) ==
    /\ ~InTurn
    /\ hosted[m].state = "stopped"
    /\ UnregisterSession(m)
    /\ queue' = FailReadyRows(m)
    /\ chain' = OfferToQueue(m)
    /\ HostTo(m, "gone")
    /\ UNCHANGED <<request, drain, launch>>

(* The call never arrives and the host does not repeat it.                 *)
UnregisterLost(m) ==
    /\ "unregister" \in Faults
    /\ hosted[m].state = "stopped"
    /\ HostTo(m, "gone")
    /\ UNCHANGED <<storeVars, request, queue, chain, drain, launch>>

(* POST /match-sessions/:id/tickets: an operator seats somebody by hand.   *)
OperatorIssues(m) ==
    /\ "ops" \in Faults
    /\ ~InTurn
    /\ IssueTicket(m, Operator)
    /\ UNCHANGED matchVars

Clock == Tick /\ UNCHANGED matchVars

PlayerStep(r) ==
    \/ \E spec \in Specs :
          \/ QuickJoin(r, spec)
          \/ \E kind \in Kinds : AskLaunch(r, kind, spec)
    \/ \E s \in sessions : JoinByCode(r, s)
    \/ Poll(r)
    \/ Cancel(r)

ServerStep(r) ==
    \/ LaunchOk(r)
    \/ Admit(r)
    \/ Enqueue(r)
    \/ LaunchFailed(r)
    \/ AnswerEnqueued(r)

DrainStep ==
    \/ StartRun
    \/ ScanRow
    \/ ScanEnd
    \/ DrainLaunchOk
    \/ DrainAdmit
    \/ DrainLaunchFails

HostDuty(m) ==
    \/ HostStartFails(m)
    \/ HostRegisters(m)
    \/ HostUnregisters(m)
    \/ UnregisterLost(m)

MatchNext ==
    \/ Clock
    \/ \E r \in Requests : PlayerStep(r) \/ ServerStep(r)
    \/ DrainStep
    \/ \E c \in Callers : HostReserve(c)
    \/ \E m \in Matches : HostDuty(m) \/ MatchStops(m) \/ OperatorIssues(m)

MatchSpec == MatchInit /\ [][MatchNext]_vars

(* Fairness.  The event loop runs every continuation that is ready, and    *)
(* every fetch ends, by an answer or by its AbortSignal; the host works on *)
(* each call and unregisters a match that stopped.  Players need never     *)
(* arrive, poll or cancel, and a match may be played forever.              *)
FairMatchSpec ==
    /\ MatchSpec
    /\ \A r \in Requests : WF_vars(ServerStep(r))
    /\ WF_vars(DrainStep)
    /\ \A c \in Callers : WF_vars(HostReserve(c))
    /\ \A m \in Matches : WF_vars(HostDuty(m))
-----------------------------------------------------------------------------
(* Who a ticket was given to: the players that joined with it and the rows *)
(* it is parked in until their player collects it.                         *)
HoldersOf(t) ==
    {r \in Requests : request[r].ticket = t.id}
        \cup {queue[i].request : i \in {j \in DOMAIN queue : queue[j].ticket = t.id}}

(* No seat is lost between the handlers and the drain: every ticket of a   *)
(* registered match was given to exactly one player, whichever of the      *)
(* direct join, the launch continuation and the drain run issued it, and   *)
(* whatever expired or was cancelled while the launch was under way.       *)
EveryTicketHasOnePlayer ==
    \A t \in tickets : t.owner # Operator => Cardinality(HoldersOf(t)) = 1

(* A row that reads ready is backed by a seat of a registered, public room *)
(* of the very spec its player asked for, so what GET queue/:token returns *)
(* can be used; in particular no ready row survives its match.             *)
ReadyRowHasSeat ==
    \A i \in DOMAIN queue :
        queue[i].status = "ready" =>
            \E t \in tickets, s \in sessions :
                /\ t.id = queue[i].ticket /\ t.match = queue[i].match
                /\ s.match = t.match
                /\ s.spec = queue[i].spec /\ s.code # NoCode

(* What a row may turn into: a cancelled or failed row is never revived by *)
(* a drain run that was launching for it, and ready only ends in failed.   *)
RowsOnlyMoveOn ==
    [][\A i \in DOMAIN queue :
          LET was == queue[i].status  is == queue'[i].status IN
          was # is => \/ was = "waiting" /\ is \in {"ready", "failed", "cancelled"}
                      \/ was = "ready" /\ is = "failed"]_vars

(* FIFO among those who wait for the same thing: a row becomes ready only  *)
(* when no earlier quick row of its spec is still waiting.                 *)
ServedInOrder ==
    [][\A j \in DOMAIN queue :
          (queue[j].status = "waiting" /\ queue'[j].status = "ready") =>
              \A i \in 1 .. (j - 1) :
                  ~(/\ i \in Waiting /\ queue[i].kind = "quick"
                    /\ queue[i].spec = queue[j].spec)]_vars

(* Nobody waits beside a free place for nothing: when every run has ended, *)
(* no launch is under way and no stopped match is still to be              *)
(* unregistered, a waiting row means that the host is full.  It holds as   *)
(* long as no start fails and no call is lost: only an enqueue and an      *)
(* unregistration ask for a drain run.                                     *)
Quiet ==
    /\ chain = << >>
    /\ ~InTurn
    /\ \A c \in Callers : launch[c] = "none"
    /\ \A m \in Matches : hosted[m].state \notin {"starting", "stopped"}

NoIdleWait == (Quiet /\ Waiting # {}) => (Load >= Capacity \/ UnusedMatches = {})

(* A signed-in player's seat carries the player's identity, by which the   *)
(* match's replay is stored for them.  (Not when the seat came out of the  *)
(* queue: match_queue has no owner column.)                                *)
SignedInPlayersOwnTheirSeats ==
    \A r \in Requests, t \in tickets :
        (request[r].pc = "joined" /\ request[r].ticket = t.id) => t.owner = Identity[r]

(* Every handler answers: no request hangs in a launch or behind the chain *)
(* of drain runs, however the runs and the host's matches interleave.      *)
EveryRequestIsAnswered ==
    \A r \in Requests :
        request[r].pc \in {"launching", "admitting", "draining"}
            ~> request[r].pc \in {"joined", "failed", "waiting"}

(* When no start fails, no call is lost and no match is played forever,    *)
(* every row leaves the queue: unregistering the matches that made it wait *)
(* reaches it through the drain runs.  (An instance that has used up its   *)
(* finite set of match ids may leave one waiting.)                         *)
MatchesEnd == \A m \in Matches : hosted[m].state = "running" ~> hosted[m].state # "running"

EveryRowIsServed ==
    MatchesEnd => \A r \in Requests :
        (\E i \in DOMAIN queue : queue[i].request = r /\ queue[i].status = "waiting")
            ~> \/ \E i \in DOMAIN queue : queue[i].request = r /\ queue[i].status # "waiting"
               \/ UnusedMatches = {}
=============================================================================
