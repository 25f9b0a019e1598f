------------------------------ MODULE Replays ------------------------------
(***************************************************************************)
(* The replay library: a match host posts the tape of a finished Trap Rush *)
(* match, the control plane stores one replay for every player of it who   *)
(* has an identity, and every owner keeps a ring of the newest replays     *)
(* (server_replay.ts, db/database_replays.ts, migration 0016).             *)
(*                                                                         *)
(* The time of a row has the resolution of the clock, so rows may tie, and *)
(* the id of a row is random: any id not in use.  The seats of a match are *)
(* held by the tickets the match store issues; here they are an input.     *)
(***************************************************************************)
EXTENDS Integers, FiniteSets

CONSTANTS ReplayOwners, ReplayMatches, TapeCourses,
          Ring,                  \* TRAPRUSH_REPLAY_SERVER_RING, 100
          MaxClock, MaxReplays   \* bounds: clock values, ids

ASSUME ReplayAssumption ==
    /\ Ring \in Nat \ {0}
    /\ MaxClock \in Nat
    /\ MaxReplays \in Nat

VARIABLES
    registered,   \* matches with a session row
    seated,       \* match -> owners of its tickets that are not superseded
    replays,      \* rows [id, owner, match, course, tape, created]
    clock

replayVars == <<registered, seated, replays, clock>>

ReplayIds == 1..MaxReplays

ReplaysInit ==
    /\ registered = ReplayMatches
    /\ seated = [m \in ReplayMatches |-> {}]
    /\ replays = {}
    /\ clock = 1

-----------------------------------------------------------------------------

\* A tape of an official course, under the path of that course, with a finish
\* tick for every seat.
tapeOk(tape) ==
    /\ tape.course \in TapeCourses
    /\ tape.path = tape.course
    /\ tape.finishTicks = tape.seats

\* The tapes the schema lets through; finishTicks is their number, and a long
\* tape is over TRAPRUSH_REPLAY_MAX_BYTES.
Tapes == [course : TapeCourses \cup {"unofficial"}, path : TapeCourses,
          seats : {2}, finishTicks : {1, 2}, long : BOOLEAN]

\* What the match host reads from the file a process writes its tape to: none
\* while the file is missing or cut short.
TapeFiles == [whole : BOOLEAN, tape : Tapes]
readReplayTape(file) == {file.tape : whole \in {file.whole} \cap {TRUE}}

\* The owners of the match's tickets, each once; a ticket issued to nobody
\* has no owner.
listOwnersForMatch(match) == seated[match]

rowsOf(rows, owner) == {r \in rows : r.owner = owner}

Older(r, s) == \/ r.created < s.created
               \/ r.created = s.created /\ r.id < s.id

\* The n first of the rows of an owner by (created_at, replay_id).
oldest(rows, n) ==
    {r \in rows : Cardinality({s \in rows : Older(s, r)}) < n}

\* The n last of them: ORDER BY ... DESC in the DELETE.
newest(rows, n) ==
    {r \in rows : Cardinality({s \in rows : Older(r, s)}) < n}

trimRingNewest(rows, owner) ==
    rows \ newest(rowsOf(rows, owner), Cardinality(rowsOf(rows, owner)) - Ring)

trimRing(rows, owner) ==
    rows \ oldest(rowsOf(rows, owner), Cardinality(rowsOf(rows, owner)) - Ring)

\* Every owner, whether it has this match or not.
missingAny(match) == listOwnersForMatch(match)

\* The owners that do not have this match yet.
missing(match) ==
    {o \in listOwnersForMatch(match) :
       ~ \E r \in replays : r.match = match /\ r.owner = o}

\* One row for each missing owner under fresh ids, each ring trimmed; one
\* transaction.  Rows of different owners are in different rings.
insertForOwners(match, tape) ==
    LET free == ReplayIds \ {r.id : r \in replays} IN
    \E ids \in [missing(match) -> free] :
      /\ \A o, p \in missing(match) : o # p => ids[o] # ids[p]
      /\ LET stored == replays \cup
                 {[id |-> ids[o], owner |-> o, match |-> match,
                   course |-> tape.course, tape |-> tape,
                   created |-> clock] : o \in missing(match)}
         IN replays' = {r \in stored : r \in trimRing(stored, r.owner)}

-----------------------------------------------------------------------------

\* The host posts when everybody has finished, and again after a failure; the
\* session must still be registered.
PostReplay(match, file) ==
    \E tape \in readReplayTape(file) :
      /\ tapeOk(tape)
      /\ ~tape.long
      /\ match \in registered
      /\ insertForOwners(match, tape)
      /\ UNCHANGED <<registered, seated, clock>>

\* A row of the list: the seats are counted from the stored tape.
listItem(r) == [id |-> r.id, match |-> r.match, course |-> r.course,
                seats |-> r.tape.finishTicks, created |-> r.created]

\* GET /traprush-replays of an owner: its own rows, the newest first.
listForOwner(owner) == {listItem(r) : r \in rowsOf(replays, owner)}

\* The owner is part of the query.
getForOwner(id, owner) == {r \in rowsOf(replays, owner) : r.id = id}

\* GET of one replay: none is replay_not_found, and a stored tape that does not
\* pass the check any more is replay_corrupt.
getReplay(id, owner) ==
    {IF tapeOk(r.tape) THEN [item |-> listItem(r), tape |-> r.tape]
                       ELSE [item |-> "replay_corrupt", tape |-> "none"] :
       r \in getForOwner(id, owner)}

\* What happens outside: a player takes a seat, the session is deleted, the
\* clock moves on.
TakeSeat(match, owner) ==
    /\ match \in registered
    /\ owner \notin seated[match]
    /\ seated' = [seated EXCEPT ![match] = @ \cup {owner}]
    /\ UNCHANGED <<registered, replays, clock>>

Unregistered(match) ==
    /\ match \in registered
    /\ registered' = registered \ {match}
    /\ seated' = [seated EXCEPT ![match] = {}]
    /\ UNCHANGED <<replays, clock>>

ClockTicks ==
    /\ clock < MaxClock
    /\ clock' = clock + 1
    /\ UNCHANGED <<registered, seated, replays>>

ReplaysNext ==
    \/ \E match \in ReplayMatches, file \in TapeFiles : PostReplay(match, file)
    \/ \E match \in ReplayMatches, owner \in ReplayOwners : TakeSeat(match, owner)
    \/ \E match \in ReplayMatches : Unregistered(match)
    \/ ClockTicks

ReplaysSpec == ReplaysInit /\ [][ReplaysNext]_replayVars

-----------------------------------------------------------------------------

\* However often the host posts a tape and whoever joins in between, an owner
\* has at most one replay of a match and at most Ring of them; everything an
\* owner's list shows can be opened by that owner, with the seats and the
\* course the list says, and by nobody else.
OneReplayPerMatch ==
    /\ \A r, s \in replays :
         r.id = s.id \/ (r.owner = s.owner /\ r.match = s.match) => r = s
    /\ \A o \in ReplayOwners :
         /\ Cardinality(listForOwner(o)) <= Ring
         /\ \A item \in listForOwner(o), p \in ReplayOwners :
              getReplay(item.id, p) =
                {[item |-> item, tape |-> r.tape] :
                   r \in {r \in replays :
                            /\ r.id = item.id /\ r.owner = p
                            /\ r.tape.path = item.course
                            /\ r.tape.seats = item.seats}}

\* The ring pushes out the oldest (CD-14): a row goes only when the ring of
\* its owner is full, and no row that stays is older than one that went.
RingDropsOldest ==
    [][ \A r \in replays \ replays' :
          /\ Cardinality({s \in replays' : s.owner = r.owner}) = Ring
          /\ \A s \in replays' : s.owner = r.owner => r.created <= s.created
      ]_replayVars
=============================================================================
