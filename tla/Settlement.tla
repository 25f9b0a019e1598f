----------------------------- MODULE Settlement -----------------------------
(***************************************************************************)
(* How the result of a match travels.  Every frame of the game process     *)
(* commits a tick and prints a heartbeat line when the tick is a multiple  *)
(* of 60, with the settlement once the match is over (match_server.gd,     *)
(* match_settlement.gd of both games); the launcher keeps the last lines   *)
(* of its output; the match host reads the last settlement out of them     *)
(* (match-host settlement.ts); the control plane checks it and stores the  *)
(* first one (server_settlement.ts and settlement.ts).                     *)
(*                                                                         *)
(* A body has rows [slot, place, finishTick] and, for Bastion, teams       *)
(* [teamId, place]; the other numbers are carried along and not modelled.  *)
(***************************************************************************)
EXTENDS Integers, Sequences, FiniteSets

CONSTANTS Retain,     \* lines of output the launcher keeps
          MaxRacers,   \* bound of the seats of a Trap Rush match, 8
          HeartbeatEvery,  \* HEARTBEAT_EVERY_TICKS, 60
          MaxTick     \* bound of the ticks of a match

ASSUME SettlementAssumption ==
    /\ Retain \in Nat \ {0}
    /\ MaxRacers \in 1..8
    /\ HeartbeatEvery \in Nat \ {0}
    /\ MaxTick \in Nat /\ MaxTick >= HeartbeatEvery

VARIABLES
    gameplay,  \* of the match, "traprush" or "bastion"
    tick,      \* the tick of the game
    full,      \* Trap Rush: whether every seat has a player connected
    finish,    \* Trap Rush: seat -> finish tick, -1 before
    result,    \* Bastion: "none", "draw", "a" or "b"
    output,    \* the lines the launcher keeps
    stored     \* the rows of the match in match_settlements: at most one

settlementVars == <<gameplay, tick, full, finish, result, output, stored>>

SettlementInit ==
    /\ gameplay \in {"traprush", "bastion"}
    /\ tick = 0
    /\ full = FALSE
    /\ \E seats \in 1..MaxRacers : finish = [s \in 0..seats - 1 |-> -1]
    /\ result = "none"
    /\ output = <<>>
    /\ stored = {}

-----------------------------------------------------------------------------
(* The game.                                                               *)

\* Finished first, then by slot.
Before(s, t) == \/ finish[s] < finish[t]
                \/ finish[s] = finish[t] /\ s < t

\* The players as sort_custom leaves them.
Ranking ==
    LET places == 1..Cardinality(DOMAIN finish) IN
    CHOOSE order \in [places -> DOMAIN finish] :
      \A i, j \in places : i < j => Before(order[i], order[j])

\* Bastion is over in PHASE_SETTLED, Trap Rush when every seat has finished.
all_finished == IF gameplay = "bastion" THEN result # "none"
                                        ELSE \A s \in DOMAIN finish : finish[s] >= 0

TraprushSettlement ==
    LET order == Ranking IN
    IF ~all_finished THEN {}
    ELSE {[tick |-> tick, mvpSlot |-> order[1], teams |-> <<>>,
           rows |-> [p \in DOMAIN order |->
                       [slot |-> order[p], place |-> p,
                        finishTick |-> finish[order[p]]]]]}

\* Both teams are first in a draw.  For finishTick the code takes the tick at
\* which the team cleared its waves when it did: a number nothing compares.
BastionSettlement ==
    LET placeA == IF result = "b" THEN 2 ELSE 1
        placeB == IF result = "a" THEN 2 ELSE 1
    IN
    IF ~all_finished THEN {}
    ELSE {[tick |-> tick, mvpSlot |-> IF result = "b" THEN 1 ELSE 0,
           rows |-> <<[slot |-> 0, place |-> placeA, finishTick |-> tick],
                      [slot |-> 1, place |-> placeB, finishTick |-> tick]>>,
           teams |-> <<[teamId |-> 1, place |-> placeA],
                       [teamId |-> 2, place |-> placeB]>>]}

Built == IF gameplay = "bastion" THEN BastionSettlement ELSE TraprushSettlement

FrozenOnceFinished == all_finished \/ (gameplay = "traprush" /\ ~full)

\* Bastion's commit_tick returns first thing once the match has settled, Trap
\* Rush's while a seat has no player connected.
Frozen == IF gameplay = "bastion" THEN all_finished ELSE ~full

\* A tick of the game: players may finish in it, or a result be reached.  The
\* clock is bounded by MaxTick; that of a race that is over goes round in its
\* last period, so that it does not stop there.
commit_tick ==
    /\ UNCHANGED <<gameplay, full, stored>>
    /\ \/ Frozen /\ UNCHANGED <<tick, finish, result>>
       \/ /\ ~Frozen
          /\ \/ tick < MaxTick /\ tick' = tick + 1
             \/ tick = MaxTick /\ all_finished /\ tick' = tick + 1 - HeartbeatEvery
          /\ IF gameplay = "bastion"
               THEN result' \in {"none", "draw", "a", "b"} /\ UNCHANGED finish
               ELSE /\ \E S \in SUBSET {s \in DOMAIN finish : finish[s] < 0} :
                         finish' = [s \in DOMAIN finish |->
                                      IF s \in S THEN tick' ELSE finish[s]]
                    /\ UNCHANGED result

\* Players of a race connect and drop off between two frames.
PlayersComeAndGo ==
    /\ gameplay = "traprush"
    /\ full' = ~full
    /\ UNCHANGED <<gameplay, tick, finish, result, output, stored>>

-----------------------------------------------------------------------------
(* The launcher (launcher.ts): every chunk is split at its line ends, and  *)
(* the oldest line goes when there are more than Retain.                   *)

HeartbeatLine == [event |-> "match_tick", tick |-> tick, settlement |-> Built]
Noise == [event |-> "noise", tick |-> 0, settlement |-> {}]

collect(line) ==
    output' = LET lines == Append(output, line) IN
              IF Len(lines) > Retain THEN Tail(lines) ELSE lines

HeartbeatDue == tick % HeartbeatEvery = 0

\* A frame (_physics_process): the heartbeat is that of the tick just
\* committed.  While the clock is frozen every frame prints the same one, or
\* none does.
QuietFrame == commit_tick /\ ~HeartbeatDue' /\ UNCHANGED output
HeartbeatFrame == commit_tick /\ HeartbeatDue' /\ collect(HeartbeatLine')

\* A heartbeat that comes in two chunks: neither piece parses.
SplitFrame == commit_tick /\ HeartbeatDue' /\ collect(Noise)

PhysicsFrame == QuietFrame \/ HeartbeatFrame \/ SplitFrame

\* Another line of the process, or the second piece of a heartbeat.
OtherOutput ==
    /\ collect(Noise)
    /\ UNCHANGED <<gameplay, tick, full, finish, result, stored>>

-----------------------------------------------------------------------------
(* The match host.                                                         *)

parseRow(row) ==
    /\ row.slot \in 0..7
    /\ row.place \in 1..8
    /\ row.finishTick >= 0

parseTeam(team) == team.teamId \in 1..2 /\ team.place \in 1..2

parseSettlementObject(body) ==
    /\ Len(body.rows) \in 1..8
    /\ \A i \in DOMAIN body.rows : parseRow(body.rows[i])
    /\ Len(body.teams) \in {0, 2}      \* 0: no teams
    /\ \A i \in DOMAIN body.teams : parseTeam(body.teams[i])

\* A heartbeat whose settlement parses and is of the tick of the line.
Settles(line) ==
    /\ line.event = "match_tick"
    /\ \E body \in line.settlement :
         parseSettlementObject(body) /\ body.tick = line.tick

\* The settlement of the last line that has one; none is the empty set.
parseMatchTickSettlement(lines) ==
    LET settling == {i \in DOMAIN lines : Settles(lines[i])} IN
    IF settling = {} THEN {}
    ELSE lines[CHOOSE i \in settling : \A j \in settling : j <= i].settlement

-----------------------------------------------------------------------------
(* The control plane.                                                      *)

\* The loop over the rows: no slot and no place twice, the winner is the mvp,
\* and the places are 1 to n.
isValidTraprushSettlement(body) ==
    LET rows == body.rows IN
    /\ \A i, j \in DOMAIN rows :
         i # j => rows[i].slot # rows[j].slot /\ rows[i].place # rows[j].place
    /\ \E i \in DOMAIN rows : rows[i].place = 1 /\ rows[i].slot = body.mvpSlot
    /\ \A p \in 1..Len(rows) : \E i \in DOMAIN rows : rows[i].place = p

bastionSeatForTeamId(teamId) ==
    CASE teamId = 1 -> 0 [] teamId = 2 -> 1 [] OTHER -> -1

\* The check written for a match with a winner: a draw is refused.
isValidBastionSettlementDecided(body) ==
    /\ Len(body.teams) = 2 /\ Len(body.rows) = 2
    /\ \E t \in {body.teams[1], body.teams[2]} :
         /\ {u.teamId : u \in {u \in {body.teams[1], body.teams[2]} : u.place = 1}} = {t.teamId}
         /\ body.mvpSlot = bastionSeatForTeamId(t.teamId)

\* Two teams and two rows, a row in the place of its team, and the mvp in the
\* first team, either of them in a draw.
isValidBastionSettlement(body) ==
    LET teams == {body.teams[i] : i \in DOMAIN body.teams}
        rows  == {body.rows[i] : i \in DOMAIN body.rows}
        first == {t.teamId : t \in {u \in teams : u.place = 1}}
    IN
    /\ Len(body.teams) = 2 /\ Len(body.rows) = 2
    /\ {t.teamId : t \in teams} = {1, 2}
    /\ \A t \in teams : t.place \in {1, 2}
    /\ {r.slot : r \in rows} = {0, 1}
    /\ \A r \in rows, t \in teams :
         r.slot = bastionSeatForTeamId(t.teamId) => r.place = t.place
    /\ body.mvpSlot \in {bastionSeatForTeamId(id) : id \in first}

isValidSettlementSemantics(body) ==
    IF body.teams = <<>> THEN isValidTraprushSettlement(body)
                         ELSE isValidBastionSettlement(body)

\* The columns of match_settlements: rows and teams are copied field by field
\* into their JSON columns, and a body without teams has none.
settlementRowsFromUnknown(rows) ==
    [i \in DOMAIN rows |-> [slot |-> rows[i].slot, place |-> rows[i].place,
                            finishTick |-> rows[i].finishTick]]
settlementTeamsFromUnknown(teams) ==
    [i \in DOMAIN teams |-> [teamId |-> teams[i].teamId, place |-> teams[i].place]]

insertMatchSettlement(body) ==
    [tick |-> body.tick, mvpSlot |-> body.mvpSlot,
     rowsJson  |-> settlementRowsFromUnknown(body.rows),
     teamsJson |-> settlementTeamsFromUnknown(body.teams)]

\* POST /match-sessions/:matchId/settlement: the first valid body is stored,
\* a later one is answered with already_settled.
Record(body) ==
    /\ isValidSettlementSemantics(body)
    /\ stored = {}
    /\ stored' = {insertMatchSettlement(body)}

\* GET of the same: what the panel of the game shows.
GetSettlement ==
    {[tick |-> row.tick, mvpSlot |-> row.mvpSlot, rows |-> row.rowsJson,
      teams |-> row.teamsJson] : row \in stored}

-----------------------------------------------------------------------------

\* The host posts what it reads.
HostPosts ==
    /\ \E body \in parseMatchTickSettlement(output) : Record(body)
    /\ UNCHANGED <<gameplay, tick, full, finish, result, output>>

SettlementNext == PhysicsFrame \/ PlayersComeAndGo \/ OtherOutput \/ HostPosts

SettlementSpec == SettlementInit /\ [][SettlementNext]_settlementVars

\* The engine goes on drawing frames, not every heartbeat is cut in two, and
\* the host's timer goes on looking: what stands in the output again and again
\* it reads in the end.
FairSettlementSpec ==
    /\ SettlementSpec
    /\ WF_settlementVars(PhysicsFrame)
    /\ SF_settlementVars(HeartbeatFrame)
    /\ SF_settlementVars(HostPosts)

-----------------------------------------------------------------------------

\* The order in which the players finished: everyone ahead of a player has a
\* better place, and equal places only in a draw of two teams.
RanksTheRace(body) ==
    IF gameplay = "bastion"
      THEN LET place(s) == (CHOOSE r \in {body.rows[1], body.rows[2]} : r.slot = s).place IN
           CASE result = "draw" -> place(0) = 1 /\ place(1) = 1
             [] result = "a"    -> place(0) < place(1)
             [] result = "b"    -> place(1) < place(0)
             [] OTHER           -> FALSE
      ELSE \A i, j \in DOMAIN body.rows :
             /\ finish[body.rows[i].slot] < finish[body.rows[j].slot] =>
                  body.rows[i].place < body.rows[j].place
             /\ i # j => body.rows[i].place # body.rows[j].place

\* Whatever part of the output is lost, whichever heartbeat is read: the host
\* can read every settlement the game printed, what it reads is a settlement the
\* control plane accepts, and it ranks the match as it ended, and so does what
\* the players are shown afterwards, which would pass the same check again.
ResultsAreAccepted ==
    /\ \A i \in DOMAIN output : output[i].settlement # {} => Settles(output[i])
    /\ \A body \in parseMatchTickSettlement(output) \cup GetSettlement :
         isValidSettlementSemantics(body) /\ RanksTheRace(body)

\* No heartbeat that is lost costs a race its result: once everyone has finished
\* and stays connected, the clock runs on, the settlement is printed again and
\* reaches the store.  A Bastion match gets there when it settles at a tick at
\* which a heartbeat is due, the only one it will ever print.
FinishedGamesAreStored ==
    /\ <>[]full => ((gameplay = "traprush" /\ all_finished) ~> stored # {})
    /\ (gameplay = "bastion" /\ all_finished /\ HeartbeatDue) ~> stored # {}

\* The process prints one heartbeat per 60 ticks of the engine, with the
\* settlement once the match is over (match_server.gd): the result of a Bastion
\* match is printed some time.
BastionResultIsReported ==
    (gameplay = "bastion" /\ all_finished) ~>
      (\E i \in DOMAIN output : output[i].settlement # {})

\* The control plane accepts exactly the rankings: every place from 1 to n is
\* held by one row, slots are distinct, and the mvp holds place 1.  Checked
\* for every body of up to three rows that the schema lets through.
ShortBodies ==
    [mvpSlot : 0..2, teams : {<<>>},
     rows : UNION {[1..n -> [slot : 0..2, place : 1..3]] : n \in 1..3}]

AcceptsExactlyRankings ==
    \A body \in ShortBodies :
      isValidSettlementSemantics(body) <=>
        /\ \A p \in 1..Len(body.rows) :
             Cardinality({i \in DOMAIN body.rows : body.rows[i].place = p}) = 1
        /\ Cardinality({body.rows[i].slot : i \in DOMAIN body.rows}) = Len(body.rows)
        /\ \E i \in DOMAIN body.rows :
             body.rows[i].place = 1 /\ body.rows[i].slot = body.mvpSlot
=============================================================================
