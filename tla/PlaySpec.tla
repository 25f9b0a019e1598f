------------------------------ MODULE PlaySpec ------------------------------
(***************************************************************************)
(* What a player asks to play, on its way to the match the player meets.   *)
(* A request body is read into a specification (contracts match_body.ts,   *)
(* match_spec.ts), stored in the columns of the waiting queue, read back,  *)
(* sent to a match host, read into a plan there, launched as a process,    *)
(* registered with the control plane and stored in the columns of a        *)
(* session, by which later players find the open room.  All these          *)
(* translations must agree on one game.                                    *)
(*                                                                         *)
(* Absent is a field the body leaves out, NoCourse a course column of no   *)
(* course, and Null an SQL NULL.  A room here has a room code and a free   *)
(* seat.                                                                   *)
(***************************************************************************)
EXTENDS Integers, FiniteSets

CONSTANTS Courses, DefaultCourse,           \* official Trap Rush courses
          Blueprints, DefaultBlueprint,     \* official Bastion blueprints
          ContentIds,                       \* ids a player may name
          Stored,                           \* published <<id, version>>
          MaxSeats,                         \* MAX_MATCH_SEATS, 8
          MaxWaiting, MaxRooms              \* bounds: rows in flight, rooms

Absent == "absent"
Null == "null"
NoCourse == ""

ASSUME PlayAssumption ==
    /\ DefaultCourse \in Courses
    /\ DefaultBlueprint \in Blueprints
    /\ MaxSeats \in 2..8
    /\ MaxWaiting \in Nat
    /\ MaxRooms \in Nat
    \* what stands for no course and no blueprint is no official id
    /\ {Absent, Null, NoCourse} \cap (Courses \cup Blueprints) = {}

VARIABLES
    waiting,   \* rows of match_queue
    launches,  \* payloads on their way to a match host
    rooms      \* rows of match_sessions, with what their process runs

playVars == <<waiting, launches, rooms>>

Reserved == Courses \cup Blueprints \cup {"course_f_playable"}
DefaultSeats == 2    \* DEFAULT_MATCHMAKING_SEATS
BastionSeats == 2    \* BASTION_MATCH_SEATS

PlayInit == waiting = {} /\ launches = {} /\ rooms = {}

-----------------------------------------------------------------------------
(* Reading a body.  Each reader is a set with at most one element: empty   *)
(* is a refusal.                                                           *)

\* A content is a pair <<id, version>>; Absent is <<Absent, 0>>.
NoContent == <<Absent, 0>>

Bodies == [course : Courses \cup {Absent, "unknown"},
           blueprint : Blueprints \cup {Absent, "unknown"},
           content : {NoContent} \cup ((ContentIds \cup {DefaultCourse}) \X (0..2)),
           gameplay : {Absent, "traprush", "bastion", "unknown"},
           seats : 0..MaxSeats + 1]      \* 0: the body has no seats

isReservedMatchContentId(id) == id \in Reserved

readMatchContentRef(content) ==
    {c \in {content} : ~isReservedMatchContentId(c[1]) /\ c[2] >= 1}

\* The game of a specification is <<id, version>>, version 0 if official.
Official(course, seats) ==
    [kind |-> "official", game |-> <<course, 0>>, seats |-> seats]
Blueprint(id, seats) ==
    [kind |-> "blueprint", game |-> <<id, 0>>, seats |-> seats]
Content(content, seats) ==
    [kind |-> "content", game |-> content, seats |-> seats]

SeatsOf(body) == IF body.seats = 0 THEN DefaultSeats ELSE body.seats

Selectors(body) == {f \in {"course", "blueprint"} : body[f] # Absent} \cup
                   {f \in {"content"} : body[f] # NoContent}

\* The selectors exclude each other and go with their gameplay.
WellFormed(body) ==
    /\ body.gameplay # "unknown"
    /\ Cardinality(Selectors(body)) <= 1
    /\ SeatsOf(body) \in 1..MaxSeats
    /\ body.gameplay = "bastion" => Selectors(body) \subseteq {"blueprint"}
    /\ body.gameplay = "traprush" => "blueprint" \notin Selectors(body)

readMatchBody(body) ==
    LET seats == SeatsOf(body) IN
    IF ~WellFormed(body) THEN {}
    ELSE IF body.blueprint # Absent \/ body.gameplay = "bastion"
      THEN {Blueprint(b, seats) :
              b \in {b \in Blueprints :
                       /\ seats = BastionSeats
                       /\ b = IF body.blueprint = Absent THEN DefaultBlueprint
                              ELSE body.blueprint}}
    ELSE IF body.content # NoContent
      THEN {Content(c, seats) : c \in readMatchContentRef(body.content)}
    ELSE {Official(c, seats) :
            c \in {c \in Courses :
                     c = IF body.course = Absent THEN DefaultCourse ELSE body.course}}

\* A content must be published.
resolveMatchSpec(body) ==
    {s \in readMatchBody(body) : s.kind = "content" => s.game \in Stored}

-----------------------------------------------------------------------------
(* The columns.                                                            *)

GameColumns(spec) ==
    [course    |-> IF spec.kind = "official" THEN spec.game[1] ELSE NoCourse,
     gameplay  |-> IF spec.kind = "blueprint" THEN "bastion" ELSE "traprush",
     blueprint |-> IF spec.kind = "blueprint" THEN spec.game[1] ELSE Null,
     content   |-> IF spec.kind = "content" THEN spec.game ELSE <<Null, 0>>,
     seats     |-> spec.seats]

\* The queue row has the columns of the specification; its course is the empty
\* text for the other two kinds.
enqueueSpec(spec) == GameColumns(spec)

\* A row as it is read back: the empty text is no course, an unknown one the
\* default, an unknown gameplay Trap Rush, an unknown blueprint none.
courseFromRow(value) ==
    IF value \in Courses THEN value ELSE IF value = NoCourse THEN Null ELSE DefaultCourse
gameplayFromRow(value) == IF value = "bastion" THEN "bastion" ELSE "traprush"
blueprintFromRow(value) == IF value \in Blueprints THEN value ELSE Null

queueFromRow(row) ==
    [course |-> courseFromRow(row.course), gameplay |-> gameplayFromRow(row.gameplay),
     blueprint |-> blueprintFromRow(row.blueprint), content |-> row.content,
     seats |-> row.seats]
sessionFromRow(row) == queueFromRow(row)

HasContent(row) == row.content # <<Null, 0>>
IsBastion(row) == row.gameplay = "bastion" /\ row.blueprint # Null

playSpecFromQueue(row) ==
    LET record == queueFromRow(row) IN
    IF HasContent(record) THEN Content(record.content, record.seats)
    ELSE IF IsBastion(record) THEN Blueprint(record.blueprint, record.seats)
    ELSE Official(IF record.course = Null THEN DefaultCourse ELSE record.course,
                  record.seats)

\* The query for a course without the number of seats.
findOldestOpenRoomAnySeats(course, seats) ==
    {r \in rooms : r.gameplay = "traprush" /\ r.course = course}

\* The open rooms each query may return; the oldest of them is taken.
findOldestOpenRoom(course, seats) ==
    {r \in rooms : r.gameplay = "traprush" /\ r.course = course /\ r.seats = seats}

findOldestOpenContentRoom(content, seats) ==
    {r \in rooms : r.gameplay = "traprush" /\ r.content = content /\ r.seats = seats}

findOldestOpenBlueprintRoom(blueprint, seats) ==
    {r \in rooms : /\ r.gameplay = "bastion" /\ r.blueprint = blueprint
                   /\ r.seats = seats /\ ~HasContent(r)}

findOpenForSpec(spec) ==
    CASE spec.kind = "content"   -> findOldestOpenContentRoom(spec.game, spec.seats)
      [] spec.kind = "blueprint" -> findOldestOpenBlueprintRoom(spec.game[1], spec.seats)
      [] spec.kind = "official"  -> findOldestOpenRoom(spec.game[1], spec.seats)

findOpenForWaiter(row) ==
    LET record == queueFromRow(row) IN
    IF HasContent(record) THEN findOldestOpenContentRoom(record.content, record.seats)
    ELSE IF IsBastion(record)
      THEN findOldestOpenBlueprintRoom(record.blueprint, record.seats)
    ELSE IF record.course = Null THEN {}
    ELSE findOldestOpenRoom(record.course, record.seats)

-----------------------------------------------------------------------------
(* What the player is told: the game and the seats of the room, or of the  *)
(* row that waits.  Only one of course, blueprint and content is there.    *)

View(course, blueprint, content, seats) ==
    [course |-> course, blueprint |-> blueprint, content |-> content, seats |-> seats]

\* The answer with a ticket: the room's columns.
withSessionContent(record) ==
    IF IsBastion(record) THEN View(Null, record.blueprint, NoContent, record.seats)
    ELSE IF ~HasContent(record) THEN View(record.course, Null, NoContent, record.seats)
    ELSE View(Null, Null, record.content, record.seats)

joinFields(room) == withSessionContent(sessionFromRow(room))

\* A poll of a row that waits.
waitingFromQueue(row) ==
    LET record == queueFromRow(row) IN
    IF IsBastion(record) THEN View(Null, record.blueprint, NoContent, record.seats)
    ELSE IF ~HasContent(record) THEN View(record.course, Null, NoContent, record.seats)
    ELSE View(Null, Null, record.content, record.seats)

\* The answer to the request that starts to wait.
waitingFromSpec(spec) ==
    CASE spec.kind = "blueprint" -> View(Null, spec.game[1], NoContent, spec.seats)
      [] spec.kind = "official"  -> View(spec.game[1], Null, NoContent, spec.seats)
      [] spec.kind = "content"   -> View(Null, Null, spec.game, spec.seats)

-----------------------------------------------------------------------------
(* The match host.                                                         *)

\* MatchHostHttpLauncher.launch: the body of POST /matches.
LaunchPayload(spec) ==
    [course    |-> IF spec.kind = "official" THEN spec.game[1] ELSE Absent,
     blueprint |-> IF spec.kind = "blueprint" THEN spec.game[1] ELSE Absent,
     content   |-> IF spec.kind = "content" THEN spec.game ELSE NoContent,
     gameplay  |-> IF spec.kind = "blueprint" THEN "bastion" ELSE Absent,
     seats     |-> spec.seats]

\* What the process is to run: the path of an official course or blueprint, or
\* the envelope of the version fetched from the control plane.
officialPath(id) == <<id, 0>>

resolveLaunch(plan) ==
    CASE plan.kind = "official" ->
           {[course |-> officialPath(plan.game[1]), envelope |-> NoContent,
             gameplay |-> Absent, players |-> plan.seats]}
      [] plan.kind = "blueprint" ->
           {[course |-> officialPath(plan.game[1]), envelope |-> NoContent,
             gameplay |-> "bastion", players |-> plan.seats]}
      [] plan.kind = "content" ->
           {[course |-> NoContent, envelope |-> e, gameplay |-> Absent,
             players |-> plan.seats] : e \in {e \in Stored : e = plan.game}}

\* The command line: --gameplay only for another than Trap Rush, --course only
\* without an envelope, and the launcher's own course when there is neither.
buildArgs(spec) ==
    [players  |-> spec.players,
     gameplay |-> IF spec.gameplay = "traprush" THEN Absent ELSE spec.gameplay,
     envelope |-> spec.envelope,
     course   |-> IF spec.envelope # NoContent THEN NoContent
                  ELSE IF spec.course # NoContent THEN spec.course
                  ELSE officialPath(DefaultCourse)]

\* The process reads it back and refuses what it cannot run.  A file that is
\* missing or does not boot ends the process too, which is left out.
bootConfig(args) ==
    LET gp == IF args.gameplay = Absent THEN "traprush" ELSE args.gameplay
        level == IF args.envelope # NoContent THEN args.envelope ELSE args.course
    IN {[level |-> level, gameplay |-> gp, players |-> args.players] :
          ok \in {TRUE} \cap
            {IF gp = "bastion"
               THEN args.envelope = NoContent /\ args.players = BastionSeats
               ELSE (args.course # NoContent) # (args.envelope # NoContent)
                    /\ args.players \in 1..MaxSeats}}

\* The match as the host lists it and answers with.
StartedMatch(plan) ==
    [course    |-> IF plan.kind = "official" THEN plan.game[1] ELSE Null,
     blueprint |-> IF plan.kind = "blueprint" THEN plan.game[1] ELSE Null,
     content   |-> IF plan.kind = "content" THEN plan.game ELSE NoContent,
     seats     |-> plan.seats]

toWire(record) ==
    View(IF record.blueprint # Null \/ record.content # NoContent THEN Null
         ELSE record.course, record.blueprint, record.content, record.seats)

\* launchRegisteredMatch: what the host registers.
Registration(plan) ==
    [course    |-> IF plan.kind = "official" THEN plan.game[1] ELSE Absent,
     blueprint |-> IF plan.kind = "blueprint" THEN plan.game[1] ELSE Absent,
     content   |-> IF plan.kind = "content" THEN plan.game ELSE NoContent,
     gameplay  |-> IF plan.kind = "blueprint" THEN "bastion" ELSE Absent,
     seats     |-> plan.seats]

\* POST /match-sessions: the columns of the session.  The hash of a content
\* is that of the stored version, which never changes.
insertMatchSession(reg) ==
    LET spec == IF reg.content # NoContent THEN Content(reg.content, reg.seats)
                ELSE IF reg.blueprint # Absent \/ reg.gameplay = "bastion"
                  THEN Blueprint(IF reg.blueprint = Absent THEN DefaultBlueprint
                                 ELSE reg.blueprint, reg.seats)
                ELSE Official(IF reg.course = Absent THEN DefaultCourse
                              ELSE reg.course, reg.seats)
    IN GameColumns(spec)

-----------------------------------------------------------------------------

\* What the bodies of Bodies ask for.
Asked == UNION {resolveMatchSpec(body) : body \in Bodies}

\* A request whose body resolves to spec: without an open room it waits.
Ask(spec) ==
    /\ Cardinality(waiting) < MaxWaiting
    /\ findOpenForSpec(spec) = {}
    /\ waiting' = waiting \cup {enqueueSpec(spec)}
    /\ UNCHANGED <<launches, rooms>>

\* The drain seats the head in an open room or has a match launched for it.
Drain(row) ==
    /\ Cardinality(launches) < MaxWaiting
    /\ waiting' = waiting \ {row}
    /\ IF findOpenForWaiter(row) # {}
         THEN UNCHANGED launches
         ELSE launches' = launches \cup {LaunchPayload(playSpecFromQueue(row))}
    /\ UNCHANGED rooms

\* The host starts the process and registers the session; a body or a launch
\* that is refused starts nothing.
Start(payload) ==
    /\ launches' = launches \ {payload}
    /\ Cardinality(rooms) < MaxRooms
    /\ \E plan \in readMatchBody(payload) :
       \E process \in UNION {bootConfig(buildArgs(l)) : l \in resolveLaunch(plan)} :
         rooms' = rooms \cup
           {[course |-> row.course, gameplay |-> row.gameplay,
             blueprint |-> row.blueprint, content |-> row.content,
             seats |-> row.seats, process |-> process] :
               row \in {insertMatchSession(Registration(plan))}}
    /\ UNCHANGED waiting

Closed(room) ==
    /\ rooms' = rooms \ {room}
    /\ UNCHANGED <<waiting, launches>>

PlayNext ==
    \/ \E spec \in Asked : Ask(spec)
    \/ \E row \in waiting : Drain(row)
    \/ \E payload \in launches : Start(payload)
    \/ \E room \in rooms : Closed(room)

PlaySpecification == PlayInit /\ [][PlayNext]_playVars

-----------------------------------------------------------------------------

\* The process a specification needs.
Needs(spec) == [level |-> spec.game, players |-> spec.seats,
                gameplay |-> IF spec.kind = "blueprint" THEN "bastion" ELSE "traprush"]

\* A player is only ever sent to a room whose process runs the game, the
\* version and the number of seats the player asked for, and to every such
\* room: a request and a waiting row find exactly the rooms that fit.  The
\* answer with the ticket and every answer before it tell the same.
PlayersMeetTheirGame ==
    /\ \A spec \in Asked :
         /\ findOpenForSpec(spec) = {r \in rooms : r.process = Needs(spec)}
         /\ \A r \in findOpenForSpec(spec) : joinFields(r) = waitingFromSpec(spec)
    /\ \A row \in waiting :
         /\ findOpenForWaiter(row) =
              {r \in rooms : r.process = Needs(playSpecFromQueue(row))}
         /\ \A r \in findOpenForWaiter(row) : joinFields(r) = waitingFromQueue(row)

\* Every translation keeps the specification: the queue row is read back as
\* it, the host reads the launch payload as it and lists it, the command line
\* starts the process it needs, and the session has its columns.
RoundTrips ==
    \A spec \in Asked :
      /\ playSpecFromQueue(enqueueSpec(spec)) = spec
      /\ readMatchBody(LaunchPayload(spec)) = {spec}
      /\ waitingFromQueue(enqueueSpec(spec)) = waitingFromSpec(spec)
      /\ toWire(StartedMatch(spec)) = waitingFromSpec(spec)
      /\ {bootConfig(buildArgs(l)) : l \in resolveLaunch(spec)} = {{Needs(spec)}}
      /\ insertMatchSession(Registration(spec)) = GameColumns(spec)
=============================================================================
