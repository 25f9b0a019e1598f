# CraftArena: TLA+ models, checks and proofs

CraftArena is a browser game platform: players are seated in short matches of
*Trap Rush* or *Bastion*, each match is one headless Godot process, and three
Node services stand around them. This directory holds TLA+ modules translated
from that code, the TLC configurations that check them on small instances, and
theorems checked by TLAPS. Paths below are relative to `src/`.

## 1. The system

| part | code | state it keeps | talks to | module |
|---|---|---|---|---|
| control plane, store | `backend/control-plane/src/db/*`, `server_sessions.ts`, `server_settlement.ts` | SQLite tables `match_sessions`, `match_tickets`, `match_settlements` | called by match host (register, unregister, settle), gateway (verify), operators | `MatchStore`, `SeatLedger` |
| control plane, matchmaking | `server.ts`, `server_matchmaking.ts`, `match_host.ts`, `db/database_queue.ts` | table `match_queue`, the promise `drainChain` | players by HTTP; calls `POST /matches` of the match host | `Matchmaking` |
| match specifications | `backend/contracts/src/match_body.ts`, `match_spec.ts`, `backend/match-host/src/registry_start.ts`, `game/src/server/match_server.gd` | queue rows, launch payloads, sessions | every service on a match's way | `PlaySpec` |
| match host | `backend/match-host/src/*` | in memory: entries, reservations, ports, leases, what was posted; the child processes | control plane by HTTP; Godot processes by spawn, output, SIGTERM | `MatchHost`, `MatchLaunch` |
| settlement | `game/src/server/match_server.gd`, `game/src/games/*/match_settlement.gd`, `match-host/src/launcher.ts`, `match-host/src/settlement.ts`, `control-plane/src/settlement.ts` | the clock of the match, the output tail, one row per match | game process, host, control plane, players | `Settlement` |
| realtime gateway | `backend/realtime-gateway/src/*` | pairs of sockets | verifies a ticket at the control plane, then dials the match process | `Gateway` |
| accounts and drafts | `server_accounts.ts`, `server_identity.ts`, `db/database_accounts.ts` | accounts, guests, sessions, cloud drafts | players | `Accounts` |
| content and plaza | `server_content*.ts`, `server_plaza.ts`, `content_sign.ts`, `db/database_content.ts`, `db/database_plaza.ts` | versions, the latest one, owners, patches, listings, plays, ratings | creators, players, match hosts | `ContentStore` |
| replays | `server_replay.ts`, `db/database_replays.ts`, `match-host/src/replay.ts` | a ring of replays per owner | match hosts, players | `Replays` |
| match process | `game/src/server`, `game/src/games`, `game/src/simulation`, `game/src/ugc` | authoritative simulation, peers, slots, commands per tick | gateway by WebSocket, its output to the match host | only its results, lines and command line |
| client, creator, audio | `game/src/client`, `game/src/creator`, `game/src/audio` | menus, join state, editor documents | control plane, gateway | none |
| tools, infra | `tools`, `infra` | none at run time | | none |

How a player gets a seat: `POST /matchmaking/quick` takes the oldest public
room of that course with a free seat; else the control plane asks the match host
for a new match; the host spawns the process, waits until its port answers,
registers the match (`POST /match-sessions`), and answers; the control plane
assigns a room code and issues a ticket. A full host answers 503 and the request
becomes a row of `match_queue`; drain runs, chained one after another, empty it.
The player presents the ticket to the gateway, which has it consumed, dials the
match process and ties the two sockets together. A dropped player trades the
consumed ticket for a fresh one of the same seat. The host takes a match down
when it exits, when its lease expires (only real input renews it), on request or
at shutdown: it posts the settlement, the replay, then unregisters.

What is hard here:

* **interleaving**: handlers are suspended in `await` while others read and
  write the same tables (launch, drain run, unregistration); inside the host a
  stop may come from four places at once; in the gateway either end may leave
  while the other is being dialled;
* **stale reads**: the queue's head before and after a launch; leases judged
  against a time taken before a series of awaits; a port taken for free, and its
  probe answered, while the process that had it still listens;
* **failure and loss**: every HTTP call may fail before or after it took effect;
  processes die while they are being registered; the host is told to stop with a
  start in flight; the control plane dies between two statements of a claim;
  output is lost between two chunks, and a result is printed only with a heartbeat, whose
  clock may stand still;
* **limits**: seats of a room, capacity and ports of the host, time limits of
  tickets, rows and leases, the ring of replays;
* **liveness**: whoever waits must eventually be answered, a match nobody plays
  must be taken down, a result must reach the store, a gateway told to stop must.

`PROJECT.json` lists each of these at its line under `hazards`.

What makes each part correct: *store* - a seat has one holder, a ticket is
admitted once, keys are unique, nothing outlives its session; *matchmaking* -
every ticket goes to one player, a ready row can be used, FIFO among equals, no
idle place while somebody waits, every request is answered; *specifications* -
players meet in the game they asked for; *match host* - ports and capacity add
up, only idle matches are taken down, results are posted before the session
goes, nothing of a launch is left behind; *settlement* - what the host reads is
accepted and ranks the match as it ended; *gateway* - one upgrade per ticket,
both ends closed together; *accounts* - no draft is lost or shown to a stranger;
*content* - versions without gaps, the plaza and its counters agree with the
rows, patches touch live fields only; *replays* - one copy per owner and match,
the oldest goes first.

## 2. Modules

```
SeatLedger <-- implements -- MatchStore <-- implements, EXTENDS -- Matchmaking
 (abstract)                      ^                                     |
                                 | EXTENDS, implements                 | sees from outside
                              Gateway                               MatchHost
                                                                       | "listening" in steps
PlaySpec   Settlement   Accounts   ContentStore   Replays           MatchLaunch
     \_________\____________\__________|____________/_________________/
                               MCServices

proofs:  MatchStore_proofs                               MatchHost_proofs
            ^                                           MatchLaunch_proofs
            |- Matchmaking_proofs <- Matchmaking_queue  ContentStore_proofs
            |- Gateway_proofs                           Services_proofs
```

* **`SeatLedger`**: what the control plane promises about seats, without
  tickets: an open match has a size, seats go out in order, a seat keeps its
  holder until the match is closed.
* **`MatchStore`**: the three tables and every operation that writes them. One
  action per function of `db/database_sessions.ts` and `db/database_tickets.ts`:
  `RegisterSession`, `UnregisterSession`, `AssignRoomCode`, `IssueTicket`,
  `ConsumeTicket`, `ReconnectTicket`, `RecordSettlement`, and `Tick` for the
  clock. SQLite calls are synchronous and each operation is a transaction or one
  turn of Node, so an operation is a step. Ticket ids are counted instead of
  drawn; hashes, URLs and payloads are dropped.
* **`Matchmaking`**: `MatchStore` with the handlers of players, the queue and
  the drain runs. `request[r].pc` is where a handler is suspended; `chain` and
  `drain` are `drainChain` and the run at its head; `launch[c]` is the call to the
  host. `InTurn` is JavaScript's run-to-completion: while a drain run is between
  two awaits nobody else's handler runs. The host appears as `hosted[m]`:
  reserve, start, register, stop, unregister. Errors end as in the code: 503
  enqueues, other failures are 502 to the player or a failed row, an exception
  ends a drain run and `.catch` lets the chain go on.
* **`MatchHost`**: the host itself. `pc[m]` is the await a match's start or stop
  is suspended in (`preparing`, `listening`, `registering`; `running`; `settling`,
  `replaying`, `unregistering`; ended states), `sweep[s]` a run of the reclaim
  timer, `host` the progress of the signal handler. `registered` and `stored` are
  the control plane's side of its calls. A call that fails may have taken effect
  there or not. Leases are ages: `lastValidInputAt` and `expiresAt` are written
  together, so one age decides both limits. `result[m]` is what a match left to post: a
  settlement the host has read in a heartbeat, and the tape of an official race. Neither follows
  from the end of the match; how a settlement gets into a heartbeat is `Settlement`. `ExitHost` waits
  for the requests in flight, as `server.close` does, but for those whose client has hung
  up (the fault `hangup`).
* **`MatchLaunch`**: what `MatchHost` calls "listening", opened up:
  `launchRegisteredMatch` and the probe loop, with the child process (boots, binds
  its port if nobody else listens there, exits at any time), the envelope file of
  a published content, the port that is freed as soon as SIGTERM is sent, and the
  exit the host learns of later. `reached[l]` remembers who answered the probe.
* **`Gateway`**: `server.ts` callback by callback over `MatchStore`'s tickets.
  `conn[c].stage` is how far an upgrade came, `verdict` the answer of
  `POST /tickets/verify` (which the control plane may give after the gateway gave
  the request up), `client` and `up` the two sockets (`closing`: this side asked,
  `gone`: the other end left, `closed`: the handler ran), `toUp` and `toClient`
  the frame under way. `PlaneGoesOn` is the rest of the store.
* **`Accounts`**: a handler is a step; `RegisterCut` and `ClaimCut` are the process
  dying between two statements, each of which commits on its own. `torn` (a history variable)
  remembers the guests whose claim was cut.
* **`ContentStore`**: one action per transaction (`Publish`, `Submit`, `Patch`,
  `Rollback`, `RecordPlay`, `Rate`) and one operator per reading route. A signature
  is the message it signs; publishes carry right and wrong ones.
* **`Replays`**: `PostReplay` with the owners read from the tickets at that moment, the ring
  trimmed by `created_at` with ties, seats taken and sessions unregistered between posts.
* **`Settlement`**: the frames of the game process, the tail that keeps the last lines of its
  output, the host's parser, the validators and the insert. A frame commits a tick and prints a heartbeat if
  the tick is a multiple of `HeartbeatEvery`; `Frozen` is when a tick does not count: Bastion's
  `commit_tick` returns first thing once the match has settled, Trap Rush's while a seat has no player
  (`full`). `QuietFrame`, `HeartbeatFrame` and `SplitFrame` (a line that comes in two chunks, of which neither
  parses) are the three things a frame can do.
* **`PlaySpec`**: a request body, its row in the queue, the launch payload, the plan,
  the command line, the registration and the columns, each translation as the code has it.
* **`MCMatchStore`, `MCMatchmaking`, `MCMatchHost`, `MCGateway`, `MCServices`**: constants
  and symmetry for TLC, with one `.cfg` per run. `MCServices` puts the six modules that share no state
  in one specification; `focus`, chosen at the start, says which of them moves.
* **`*_proofs`, `Matchmaking_queue`**: the theorems of section 5. `Services_proofs` is about
  `Accounts`, `PlaySpec`, `Settlement` and `Replays`.

Some definitions come in a second form that a plausible slip in the code would
give them (`...Not`, `...Again`, `...Keeps...`); no behaviour uses it. Each property
of each passing run has one that violates it (`mutants` in `PROJECT.json`).

## 3. Runs

| run | configuration | shows |
|---|---|---|
| store | 2 matches of 2 seats, 3 tickets, clock 0..2, tickets live 1 | seats fill without a gap; one live ticket and at most one admissible ticket per seat; one owner per seat; no orphan tickets; unique keys; no second admission; stable rooms; `SeatLedger` is implemented |
| match_faults | 2 requests, one- and two-seat specs, failed starts, timeouts, lost unregistrations, tickets by hand | type invariant; every ticket has one player; ready rows are backed by a seat; rows only move on |
| match_live | 3 requests for a room, 2 matches, capacity 1, no failures, fair, no clock | nobody waits beside a free place (`NoIdleWait`); service in order; every handler answers; every row is served when matches end |
| match_owner | 3 requests, 2 matches, capacity 1, no failures | **violated**: a signed-in player's ticket carries the identity |
| host_safety | 2 matches (one with a tape, one with an envelope), every fault, hang-ups, lease 1, idle 1 | ports and capacity add up; results are stored before the session goes; only idle matches are condemned |
| host_live | 2 matches, fair, failing settlement posts, lease 1, idle 2 | results a heartbeat brought are stored unless the last post of a stop fails; abandoned matches are taken down, although an error ends the run of the timer that met it |
| host_zombie | one failing settlement call | **violated**: what ended is unregistered |
| host_orphan | shutdown | **violated**: no process outlives the host |
| gateway | 2 upgrades, one match of one seat, 2 tickets, fair | a ticket lets one upgrade in; a seat is shared only by a reconnect; no frame is lost while both ends are open; pairs close together; every upgrade is answered; shutdown ends |
| gateway_leak | as gateway, 1 upgrade | **violated**: either side that closes closes the other |
| services | six services, one moving per behaviour | drafts are reachable and move by a claim only; versions without gaps; plaza and counters; one replay per match, oldest dropped first; results are accepted; the result of a finished race with everyone connected is stored whatever heartbeats are lost, and so is that of a Bastion match that settles at a heartbeat tick (the only property that needs fairness); players meet their game; launches leave nothing, probes reach their match. Its `ASSUME`s check the pure functions (`AcceptsExactlyRankings`, `ClassifiesLiveFields`, `RoundTrips`) on all inputs |
| settlement_lost | 1 match, up to 2 racers, a heartbeat every 2 ticks, a tail of 2 lines, fair | **violated**: the result of a Bastion match is printed some time |

The violated properties are quoted from the repository's documents and comments;
`findings` in `PROJECT.json` gives the lines:

1. *owner*: a ticket that comes out of the queue has no owner, so the player's
   replay is not stored (`db/database_queue.ts:163`);
2. *zombie session*: a settlement error leaves `#finalize` before `unregister`, and
   nothing retries (`registry.ts:374`);
3. *orphan*: shutdown does not see a match whose start is in flight
   (`main.ts:121`, `registry.ts:331`);
4. *leaked upstream*: a client that leaves while its upstream is being dialled
   leaves an open upstream nobody holds (`realtime-gateway/src/server.ts:115`,
   against `server.ts:45-46`);
5. *lost result*: `match_server.gd:162` prints a heartbeat only at multiples of 60 of the session's tick,
   and Bastion's `commit_tick` (`games/bastion/match_session.gd:162`) stops counting when the match has settled.
   Unless it settles at such a tick, its result is never printed, nor is any heartbeat after it, although
   `match_server.gd:29` promises one per 60 ticks of the engine and `match_server.gd:10-11` that it carries the
   settlement. The process goes on until its lease or the idle limit ends, and is then
   unregistered without a settlement.

### Bounds

*Store and matchmaking.* Two matches and two seats are the least with a full room, a
second room and two players who share one; three tickets reach a full room plus a
reconnect, or two reconnects of one seat; a clock of two units lets a ticket of life
one be valid, expire, and be reconnected after that. Three requests with capacity one
give a player in the room, a waiter, and a newcomer or a second waiter. `match_live` has them
without the clock, so a row leaves the queue there by being served or cancelled; rows that expire, both sizes of room, rooms
by code and every failure are in `match_faults` with two requests.

*Host.* The lease and the idle limit are ages of one input, so the shorter decides; one
unit each is the least at which a match is neither new nor condemned, and `host_live`
tells the two apart. Its runs have one run of the timer at a time: with two the instance is
too large, and the proofs cover any number. In the launch module two launches on one port
force the port to be used again while its first process is still dying.

*Gateway.* Two upgrades and two tickets let two clients carry one ticket, or one carry the
ticket it reconnected to; the match and its seat need be one. One frame per direction is
under way at a time.

*Settlement.* With a heartbeat every two ticks a match can settle at a heartbeat or between two; a tail
of two lines loses a heartbeat to other output; `MaxTick` leaves room for two heartbeats. So that the clock of a race that is over
does not stop at `MaxTick`, it goes round in its last period: its ticks there differ in nothing
but the number on the line.

*Services.* Two names of which one is malformed before or after; two guests, accounts and
sessions for a claim that meets a draft on either side; three versions over two contents
let a rollback come between two publishes of one; two patches number a version; a star
count out of range; a ring of two with four ids and three matches overflows, with a
clock of three values so that rows tie; a tail of two lines loses the older heartbeat;
three racers rank with a tie of ticks; two courses, blueprints and stored versions let two
requests differ in each field, with one row and two rooms.

Bounds that are not in the code: `MaxTickets`, `MaxTime` (guards of `CanMint` and `Tick`),
the finite `Matches` (a host that has no id left answers as a full one), `Sweeps` (the
overlapping runs of the timer), `MaxAccounts`, `MaxGuests`, `MaxSessions`, `MaxVersions`,
`MaxPatches`, `MaxClock`, `MaxReplays`, `MaxTick`, `MaxRacers`, `MaxWaiting`, `MaxRooms`.

All these systems may stop (the tickets minted, the clock at its bound, every match over,
the gateway down), so deadlock is not an error in any run. That a wait ends is what the liveness
properties say.

### Fairness

`match_live`: the event loop runs each continuation that is ready and every
`fetch` carries an `AbortSignal.timeout`, hence weak fairness of the
handlers, the drain runs and the host's duties. Players need never arrive, poll or
cancel. `EveryRowIsServed` assumes that matches end (`MatchesEnd`): the code
puts no bound on a match somebody keeps playing. `host_live`: time passes, the
interval timer fires, and each awaited call ends, if only with an error; the game process is never
obliged to do anything. A settlement that the timer posts again and again is accepted some time (strong fairness): the
control plane is not down forever. The one post of a stop may fail all the same. `services` (for its settlement only) and `settlement_lost`: the engine goes on drawing frames; a heartbeat that is
due again and again is not cut in two every time; a settlement that stands in the tail again and again is read by
the timer of the host some time. The last two are strong fairness, since a later line may push a heartbeat
out before the host looks, and are assumptions about buffers and timing, not about the code. Players need neither finish nor stay. `gateway`: callbacks and timers that are due run
(`Due`), an address that is dialled answers or refuses (`Answers`), and a server
whose sockets are closed exits. The control plane need never answer a
verification, since the gateway's own timeout ends it, and no peer need ever leave.

## 4. Modelling choices worth knowing

* `NoIdleWait` and `EveryRowIsServed` are checked without failed starts. With one,
  the drain run that met it ends and the rows behind the failed head wait for the next
  enqueue or unregistration, or expire: that is what `server_matchmaking.ts:149` does. No property
  is stated about that wait.
* `ServedInOrder` is about the rows that wait. A newcomer is not one of them: the quick route
  seats it in an open room, or asks for a launch, without looking at the queue (`server.ts:148`).
* `EveryRowIsServed` exempts an instance that has used up its match ids, as `NoIdleWait` does.
* `ResultIsStored` exempts a stop whose settlement post failed: that is what `host_zombie` is about. It is about a result the host has read; `FinishedGamesAreStored` is about the
  way there. The latter assumes of a race that everyone stays connected (`<>[]full`): when a racer leaves
  right after the last finish, before the next multiple of 60, the clock freezes and the result waits for the racer's return.
* `FinishedGamesAreStored` and `ResultsAreAccepted` are of one module and need each other: a settlement that
  never arrives makes the second hold of nothing.
* `assignGeneratedRoomCode` and `mintPlayerContentId` give up after eight random values that are all
  taken; the models go on until one is free. An open room has a free seat in the model
  where the queries compare the number of distinct seats with the seats of the room; `SeatsFillInOrder` makes them equal.
* The gateway is modelled with `ControlPlaneTicketVerifier`. A verdict without an upstream (502, `server.ts:102`) comes only from
  `DevTicketVerifier`: the other turns such an answer into a refusal (`ticket.ts:98`).
* Every operation of the store is one transaction or one synchronous turn, so it is one step; `OneLiveTicketPerSeat` and
  `SeatHasOneOwner` say what reconnects leave behind, not that they are atomic.
* `OnlyIdleMatchesAreCondemned` is about the turn in which the timer's run judges the
  leases. A match condemned then may be played again while the run awaits the stop of
  another; the code stops it all the same.
* `EveryTicketHasOnePlayer` exempts tickets an operator issues by hand.
* `viewQueue` answers `failed` for a ready row whose ticket it no longer finds (`Backed`).
  `ReadyRowHasSeat` says that matchmaking alone never leads there; a reconnect would.
* In `Matchmaking` settlements, consumption and reconnects of tickets are left to `MatchStore`: no
  handler of matchmaking reads what they write except the number of used seats, and
  `RoomIsStable` shows that they do not change it.
* `ProbeReachesItsMatch` does not promise that the probe met the match's own process: the host
  connects to the port and asks for no name. It promises that whoever else answered
  was already told to stop.
* `DraftsAreReachable` names the one draft that is out of reach: that of a guest whose claim died
  between its two statements.
* In `Accounts`, `ContentStore`, `Replays`, `Settlement` and `PlaySpec` a request that is refused and changes
  nothing has no step; the guards that refuse are there.

## 5. Proofs

### The store

`MatchStore_proofs` proves, for every value of the constants (the assumptions are
those `MatchStore` states: a room has at least one seat, a ticket lives at least one
unit, the bounds are numbers, `NoCode` is no code, `Anonymous` no player), that `StoreSpec` implies

* `[]StoreTypeOK` (`TypeCorrect`);
* `[]StoreInv` (`StoreInvariant`), the inductive invariant: types, unique keys,
  tickets have sessions, *superseded tickets were consumed*, one owner per
  seat, one live ticket per seat, seats without a gap;
* its consequences `SeatsFill`, `LiveTicket`, `SeatOwner`, `Keys`, `TicketsBelong`, `Admission`;
* the action properties `SecondAdmission` and `StableRoom`.

The argument. `OneAdmissiblePerSeat` is not inductive: the verdict looks at
`consumed_at` and `expires_at` only, so two tickets of a seat could both pass unless
the older was consumed. `SupersededWasConsumed` adds just that (the reconnect
route refuses an unconsumed ticket), and with one live ticket per seat it gives the
property. One live ticket per seat needs that a fresh ticket's seat has no ticket at all,
which follows from the "exists" half of the same invariant: a used seat always has a
live ticket, so a seat `nextSeat` picks was never used (`FreeSeatIsFresh`). That seats fill
without a gap needs `TicketsHaveSessions` when a match id is registered again.

Its last part proves `StoreImplementsLedger`, `StoreSpec => LedgerSpec`: the store
implements `SeatLedger`. The mapping counts the used seats of a match and takes as a
seat's holder the owner of *some* ticket of it, so every step of the proof needs the
invariant: seats without a gap make the count the number of the next seat
(`CountIs`), one owner per seat makes the choice of the ticket immaterial
(`HolderIs`), and operations that change neither rows nor seats, together with consumption,
reconnects, settlements and the clock, are stutters (`Invisible`).

### Matchmaking

`Matchmaking_proofs` is about the handlers, the queue and the drain runs. It assumes
besides that identities are owners, at most `"quick"` and `"create_room"` requests
wait, a row lives at least a unit, there is something to play, and that the model's
markers (`Drain`, the answers of a launch) are not names of requests or matches. It proves that
`MatchSpec` implies

* `[]MatchInv` (`MatchInvariant`) and its consequence `[]MatchTypeOK` (`MatchTypeCorrect`);
* `StoreSpec` (`MatchmakingRunsOnStore`): matchmaking implements the store, so the theorems
  above hold while players are matched (`MatchmakingKeepsSeats` names three);
* `RowsOnlyMoveOn` (`RowsMoveOn`): no drain run revives a cancelled or failed row.

`MatchTypeOK` alone is not inductive. A run that ends takes itself off the chain, which
must not be empty (`RunWasAskedFor`); the host is asked for the spec of the drain run's
head, which must be a row, so a call in flight must belong to a launching run
(`CallHasCaller`); a player who waits reads its row, so it must have one
(`WaiterHasRow`); and what is enqueued was never a join by code (`JoinersDoNotWait`). One lemma per
action (`...Keeps`) rests on `OneHandlerMoves` or `NoHandlerMoves`, which say what a step of one
handler, or of none, leaves true of the others.

The second part of `Matchmaking_proofs` proves what players are promised:

* `[]ReadyRowHasSeat` (`ReadyRows`). Only an unregistration takes public rooms and tickets away
  (`StepGrows`), and it fails the rows that were ready in that match. A run that admits its head
  needs to know that the room is still there with its code (`RoomIsThere`), which holds because
  its continuation keeps the JavaScript turn; that the room is of the right spec is what
  `fulfillWaiter` compares, and the match has one session (`KeysAreUnique`).
* `[]EveryTicketHasOnePlayer` (`EveryTicketOnePlayer`). A player *holds* a ticket that was answered to
  it or that a row of its own parks. The invariant `HoldersInv` says that a number has at most one
  holder, that a ticket has one, that nobody holds a number not minted yet, that handlers not yet
  answered hold nothing and that only ready rows park. Collecting a ticket from a row is invisible
  to it (holder and row belong to one player), and a row gives its ticket up only when
  the ticket itself is deleted, which is where `ReadyRowHasSeat` is needed.

`Matchmaking_queue` proves what the queue promises:

* `ServedInOrder` (`QueueIsFifo`). A scan works on a copy of the rows it found, so the invariant relates
  the rows it has *passed over* to the rooms: a quick row that still waits was passed for want of a room
  (`PassedOver`), no room opens while the run keeps the turn (`ScanOpensNoRoom`), and a run that
  launches does so for the first who waits (`HeadIsFirst`). Rows are only appended and never wait again.
* `[]NoIdleWait` (`NobodyWaitsIdly`), assuming `Faults = {}`. Whoever waits is *covered*: by a host that is full,
  by a match that stopped and is not unregistered yet, or by a run that was asked for. A run that was
  refused must be covered without counting itself, since it leaves the chain when it ends
  (`WaitersCovered`). That a run ends no other way needs that the room launched for the head
  is of its spec and still empty when the head is admitted (`RoomAhead`, `CodeFirst`: nobody has a seat
  in a room without a code), that one continuation has the turn (`OneTurn`), and that sessions
  and the host's matches agree (`SessionsAreHosted`). With failed starts it is
  false, as section 4 says.

### The match host

`MatchHost_proofs`, for any number of matches, ports, faults, limits and overlapping runs of the
timer. `HostInv` (`HostInvariant`) has a part for each group of variables: `Types`;
`PortAccounting`, inductive with the types: a start takes only a port that is free and only the first stop
of a match gives it back; `SettledBeforeUnregistered`; `Runs` (a run of the timer points at an entry, and one that
points nowhere condemns nobody); and `Leases`. `OnlyIdle` needs the last: `condemned`
is judged on the age of the renewed lease and the property on the time since the last input, and the two may
differ only for input the timer has not seen (`age[m] <= quiet[m]` unless `unseen[m]`). The actions fall into a
few shapes (a start moves on, a stop begins, a stop ends, a run goes on), with a lemma for each
part and shape. Theorems: `HostTypes`, `BooksAgree`, `SettledFirst`, `OnlyIdle`, and `NothingStays`:
under the assumption `CallsSucceed` (no fault in register, settlement or unregister) what
ended is unregistered. The assumption is necessary: without it `host_zombie` violates the property.
Here `NoStray` is the strengthening: a session is only ever that of a match that
runs or has its `unregister` still ahead.

`MatchLaunch_proofs`, for any number of launches and any range of ports: `NothingIsLeft` and
`ProbesReachTheirMatch` from `LaunchInv`. A probe that somebody else answered must know that the other
listened (`ReachedListened`) and that a port has one listener at a time (`OneListener`); that a stop
need not kill an exited child rests on `ExitsHappened`; `NoChildYet` says that a launch has no child before it
has its files.

### The gateway

`Gateway_proofs`: `GatewayRunsOnStore` (`GatewaySpec => StoreSpec`, the gateway writes
tickets only through `ConsumeTicket`), so `StoreInv` is available. `GateInv` says of every connection that
its record is `Sound` (which sockets can be in which state at which stage, and that a dropped frame met a
side that was not open) and of every upgrade let in that its ticket is `Spent`: minted, and
consumed in every row that has its number. A second upgrade with that ticket is then
refused (`OneUpgrade`). `SeatShared` follows with the store's `OneLiveTicketPerSeat`: two tickets of one seat are
not both live. `FramesArrive` is a part of `Sound`.

### Content

`ContentStore_proofs`, for any number of contents, versions, patches, plays and ratings:
`ContentInv` has one part per table. `VersionsOK` (keys, no gaps, every row signed) needs that the largest number
of a table without gaps is its size (`NextNumber`, `PublishEffect`), for rollbacks leave the rows alone; `OwnersOK`
needs `LatestOK`, since an id is minted when it has no latest version; `PlazaOK` says which row of the versions a
listing repeats (`PlazaMoves`, one lemma for publish and rollback); `CountsOK` that an unlisted content has no plays and no ratings,
so a first listing may start at nothing. Theorems: `History`, `PlazaFollowsTheLatest`, `Counts`,
`LivePatches` (what `classifyPatchOps` lets through has live fields only, `LiveOps`) and
`Immutable`: a version once served is served unchanged ever after. `Classification` proves
`ClassifiesLiveFields`, which says of every list of operations that `classifyPatchOps` lets it through
exactly when all its fields are live.

### The other services

`Services_proofs`, for any number of accounts, guests, courses, blueprints, stored versions, seats,
lines and rows. The four modules share no state, so each has an invariant of its own.

* *Accounts.* `AccountsInv`: types; every guest, session and draft refers to a row that exists
  (`ReferencesExist`); of the claimed guests only those of a cut claim still have a draft
  (`TornAreClaimed`). `DraftsAreReachable` (`DraftsStayReachable`) needs both: a draft of an account is read
  through a session, which must be of that account, and a draft of a guest through a guest nobody has claimed.
  `ClaimMovesDrafts` (`ClaimsMoveDrafts`) follows from what `claim` does to the three tables (`ClaimMoves`).
* *Play specifications.* `TranslationsAgree` is `RoundTrips` for whatever courses, blueprints and versions
  there are: one lemma for each kind of specification follows it through the queue's columns, the
  launch payload, the command line and the session's columns. `PlayInv` (`EverythingIsPlayable`) says that all that waits, is launched or is
  open is of a specification those lemmas speak of. `PlayersMeetTheirGame` (`PlayersAreSentToTheirGame`) is then that the
  columns tell specifications apart exactly when their processes differ (`NeedsDiffer`, `FoundIsSame`). The proof needs that an official id is
  never one of the markers for an absent field, a null or an empty column, which is the last conjunct of `PlayAssumption`; the official ids
  are literals in `official_courses.ts` and `official_blueprints.ts`.
* *Settlements.* `ResultsAreAccepted` (`ResultsStayAccepted`) is about the lines the host still keeps, and any
  heartbeat may be the last of them. So `SettlementInv` says that every line with a settlement has the *final* one: what the
  game builds once it has ended, which stays what it is because nothing of an ended match moves but the clock
  (`FinalStays`). That this ranks the seats is `TraprushIsFinal`; it uses that `Before` is an order
  of the seats (`BeforeOrders`) and that the sort has a result, which is found by counting for each seat those before it
  (`RankingExists`). The model therefore says what `sort_custom` leaves (`Ranking`) and not how it sorts.
  `AcceptsRankings` is about the validator alone: its single loop over the rows accepts a body of any length exactly when each place is held once, the
  slots are distinct and the mvp is first. `ShortBodiesAreRanked` draws from it what TLC evaluates (`AcceptsExactlyRankings`).
* *Replays.* `ReplaysInv`: one row of an id and one of an owner and a match, tapes that passed the check they were
  stored with, no more than `Ring` rows of an owner. The last is what the proof of a store rests on: the trim then meets one
  row too many at most, and drops the oldest (`TrimOldest`, `PostReplayStores`). Theorems: `OneReplayOfAMatch` and the
  action property `RingsDropTheOldest`.

### What is only model-checked

Liveness stays with TLC, for fairness and ENABLED are beyond the proof system: `EveryRequestIsAnswered`,
`EveryRowIsServed`, `AbandonedMatchIsReclaimed`, `ResultIsStored`, `FinishedGamesAreStored`, `PairsCloseTogether`,
`EveryUpgradeIsAnswered`, `ShutdownEnds`. Every other property of a passing run is stated by a theorem. `EndedMeansUnregistered`
holds only while the calls succeed: that is proved (`NothingStays`) and in no passing run, `host_zombie` shows the rest. `HostTypeOK`, `StoreTypeOK`,
`GatewayTypeOK`, `LaunchTypeOK`, `PublishedIsImmutable` and `PatchesTouchOnlyLiveFields` are proved and in no run.

## 6. Not modelled

* The inside of the match process: peers, slots and command queues per tick, movement, traps, waves, paths, the
  rule VM, the UGC compilers. Their transitions are fixed-point geometry over large documents;
  an abstraction small enough for TLC would leave out what they decide, and the repository
  tests them by golden replays. `Settlement` and `PlaySpec` model what of it reaches the services.
* An error event nobody listens to: of a raw socket during the verification or the dial, or of the client's
  WebSocket in the gateway. Node ends the process on one; the models have no such end.
* A course or envelope file that is missing or does not boot (`match_server.gd:53`, `227-230`) in `PlaySpec`: it ends the process before
  there is a room. `MatchLaunch` has that end as an exit of the child.
* HTTP glue, configuration, static pages and TLS: pure I/O. Formats, lengths and patterns of the JSON schemas:
  handlers are given bodies the schemas let through and one that fails.
* Client, creator and audio: views and single-user editors. The modules let a client ask for anything the
  routes accept.
* A crash and restart of the match host: it keeps everything in memory and has no recovery code.
* Tools and infrastructure: command-line checks without state.

## 7. What could come next

1. The match process's peers and slots (`match_realtime.gd`) with the gateway in front of it.
2. The safety part of the liveness properties: that a gateway at rest has no half-open pair, that a host
   at rest has no abandoned match, as `NoIdleWait` says it of the queue.
3. The composition of `MatchHost` with `MatchStore`: sessions that stay after a lost register answer
   and who still gets tickets for them.
