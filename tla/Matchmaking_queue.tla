---------------------------- MODULE Matchmaking_queue ----------------------------
(***************************************************************************)
(* What the waiting queue promises, for any number of players, matches and *)
(* specs: those who wait for the same thing are served in their order, and *)
(* nobody waits beside a free place.                                       *)
(***************************************************************************)
EXTENDS Matchmaking_proofs, WellFoundedInduction

(* The order of the queue.  A run that scans has passed over a waiting     *)
(* quick row only for want of a room, and no room opens during a scan; a   *)
(* run that launches does so for the first of those who wait.              *)

NoRoomFor(i) == OpenRooms(queue[i].spec) = {}

PassedOver ==
    drain.pc = "scan" =>
        \A i \in Waiting \ drain.todo :
            queue[i].kind = "quick" => NoRoomFor(i) \/ \A j \in drain.todo : j < i

HeadIsFirst == drain.head # 0 => \A i \in Waiting : drain.head <= i

OrderInv == PassedOver /\ HeadIsFirst

(* A row that waits after a step waited before it, or is new.              *)
RowsRest ==
    \A i \in DOMAIN queue' :
        queue'[i].status = "waiting" => i \notin DOMAIN queue \/ queue'[i] = queue[i]

NobodyServed ==
    \A i \in DOMAIN queue : queue[i].status = "waiting" => queue'[i].status # "ready"

NoRoomOpens == \A spec \in Specs : OpenRooms(spec) = {} => OpenRooms(spec)' = {}

LEMMA OldestExists ==
    ASSUME StoreTypeOK, NEW spec, OpenRooms(spec) # {}
    PROVE  OldestOpen(spec) # {}
<1> DEFINE T == {s.created : s \in OpenRooms(spec)}
<1>1. T \subseteq Nat /\ T # {}
  BY DEF OpenRooms, StoreTypeOK, Session
<1>2. PICK n \in T : \A k \in T : ~(<<k, n>> \in OpToRel(<, Nat))
  <2> HIDE DEF T
  <2> QED BY <1>1, NatLessThanWellFounded, WFMin
<1>3. \A k \in T : ~(k < n)
  BY <1>1, <1>2 DEF OpToRel
<1>4. PICK s \in OpenRooms(spec) : s.created = n
  BY <1>2
<1>5. \A other \in OpenRooms(spec) : s.created <= other.created
  BY <1>1, <1>3, <1>4
<1> QED BY <1>4, <1>5 DEF OldestOpen

LEMMA RoomsOnlyFill ==
    ASSUME UNCHANGED sessions, tickets \subseteq tickets'
    PROVE  NoRoomOpens
<1>1. \A m : UsedSeats(m) \subseteq UsedSeats(m)'
  BY DEF UsedSeats, Live
<1>2. \A s : FreeSeats(s)' \subseteq FreeSeats(s)
  BY <1>1 DEF FreeSeats
<1> QED BY <1>2 DEF NoRoomOpens, OpenRooms

(* During a scan no handler runs, so no room is made public and no match   *)
(* is unregistered.                                                        *)
LEMMA ScanOpensNoRoom ==
    ASSUME StoreTypeOK, drain.pc = "scan", [MatchNext]_vars
    PROVE  NoRoomOpens
<1>1. InTurn
  BY DEF InTurn
<1>2. UNCHANGED <<sessions, tickets>> => NoRoomOpens
  BY RoomsOnlyFill
<1>3. ASSUME NEW m, NEW owner \in Owners, IssueTicket(m, owner) PROVE NoRoomOpens
  BY <1>3, RoomsOnlyFill DEF IssueTicket
<1>4. CASE Clock \/ UNCHANGED vars
  BY <1>2, <1>4 DEF Clock, Tick, vars
<1>5. ASSUME NEW r \in Requests, PlayerStep(r) \/ ServerStep(r) PROVE NoRoomOpens
  <2>1. Admit(r)
    BY <1>1, <1>5 DEF PlayerStep, QuickJoin, AskLaunch, JoinByCode, Poll, Cancel, ServerStep,
       LaunchOk, Enqueue, LaunchFailed, AnswerEnqueued
  <2>2. Identity[r] \in Owners
    BY IdentityType
  <2> QED BY <1>2, <1>3, <2>1, <2>2 DEF Admit, storeVars
<1>6. CASE DrainStep
  <2>1. ScanRow \/ ScanEnd
    BY <1>6, <1>1 DEF DrainStep, StartRun, DrainLaunchOk, DrainAdmit, DrainLaunchFails
  <2> QED BY <1>2, <1>3, <2>1 DEF ScanRow, ScanEnd, Fulfill, storeVars, Owners
<1>7. ASSUME NEW c \in Callers, HostReserve(c) PROVE NoRoomOpens
  BY <1>2, <1>7 DEF HostReserve, storeVars
<1>8. ASSUME NEW m \in Matches, HostDuty(m) \/ MatchStops(m) \/ OperatorIssues(m)
      PROVE  NoRoomOpens
  BY <1>1, <1>2, <1>8 DEF HostDuty, HostStartFails, HostRegisters, HostUnregisters,
     UnregisterLost, MatchStops, OperatorIssues, storeVars
<1> QED BY <1>4, <1>5, <1>6, <1>7, <1>8 DEF MatchNext

LEMMA SameRowsRest == UNCHANGED queue => RowsRest /\ NobodyServed
BY DEF RowsRest, NobodyServed

LEMMA ResolvedRowsRest ==
    ASSUME QueueOK, NEW i \in DOMAIN queue, NEW status \in {"failed", "cancelled"},
           queue' = [queue EXCEPT ![i].status = status]
    PROVE  RowsRest /\ NobodyServed
BY StatusRewrite DEF RowsRest, NobodyServed

LEMMA ServedRowsRest ==
    ASSUME QueueOK, NEW i, NEW m, Fulfill(i, m)
    PROVE  RowsRest /\ \A j \in DOMAIN queue :
               queue[j].status = "waiting" /\ queue'[j].status = "ready" => j = i
BY FulfillRewrite DEF RowsRest

LEMMA AppendedRowsRest ==
    ASSUME QueueOK, NEW row \in Row, queue' = Append(queue, row)
    PROVE  RowsRest /\ NobodyServed
<1>1. /\ \A i \in 1 .. Len(queue) : queue'[i] = queue[i]
      /\ DOMAIN queue = 1 .. Len(queue)
  BY AppendProperties, LenProperties DEF QueueOK
<1> QED BY <1>1 DEF RowsRest, NobodyServed

LEMMA EnqueuedRow ==
    ASSUME MatchInv, NEW r \in Requests, Enqueue(r)
    PROVE  \E row \in Row : queue' = Append(queue, row)
<1> USE DEF MatchInv, Shape
<1>1. request[r].kind # "join"
  BY DEF Enqueue, HandlersOK, CallHasCaller, JoinersDoNotWait
<1>2. now + QueueTtl \in Nat /\ NoTicket \in 0 .. MaxTickets
  BY QueueTtlType, BoundTypes DEF StoreTypeOK, NoTicket
<1>3. request[r].kind \in {"quick", "create_room"} /\ request[r].spec \in Specs
  BY <1>1 DEF RequestsOK, RequestType
<1>4. NewRow(r) \in Row
  BY <1>2, <1>3 DEF NewRow, Row, RowStates
<1> QED BY <1>4 DEF Enqueue

(* Only a drain run serves rows.                                           *)
LEMMA OthersServeNobody ==
    ASSUME MatchInv, [MatchNext]_vars, ~DrainStep
    PROVE  UNCHANGED drain /\ RowsRest /\ NobodyServed
<1> USE DEF MatchInv, Shape
<1>1. CASE Clock \/ UNCHANGED vars
  BY <1>1, SameRowsRest DEF Clock, matchVars, vars
<1>2. ASSUME NEW r \in Requests, PlayerStep(r) \/ ServerStep(r)
      PROVE  UNCHANGED drain /\ RowsRest /\ NobodyServed
  <2>1. CASE Cancel(r)
    <3>1. PICK i \in DOMAIN queue : queue' = [queue EXCEPT ![i].status = "cancelled"]
      BY <2>1 DEF Cancel, Waiting
    <3>2. RowsRest /\ NobodyServed
      BY <3>1, ResolvedRowsRest
    <3> QED BY <2>1, <3>2 DEF Cancel
  <2>2. CASE Enqueue(r)
    BY <2>2, EnqueuedRow, AppendedRowsRest DEF Enqueue
  <2>3. CASE ~Cancel(r) /\ ~Enqueue(r)
    <3>1. UNCHANGED <<queue, drain>>
      BY <1>2, <2>3 DEF PlayerStep, ServerStep, QuickJoin, AskLaunch, JoinByCode, Poll,
         LaunchOk, Admit, LaunchFailed, AnswerEnqueued
    <3> QED BY <3>1, SameRowsRest
  <2> QED BY <2>1, <2>2, <2>3
<1>3. ASSUME NEW c \in Callers, HostReserve(c)
      PROVE  UNCHANGED drain /\ RowsRest /\ NobodyServed
  BY <1>3, SameRowsRest DEF HostReserve
<1>4. ASSUME NEW m \in Matches, HostDuty(m) \/ MatchStops(m) \/ OperatorIssues(m)
      PROVE  UNCHANGED drain /\ RowsRest /\ NobodyServed
  <2>1. CASE HostUnregisters(m)
    <3>1. queue' = FailReadyRows(m) /\ UNCHANGED drain
      BY <2>1 DEF HostUnregisters
    <3>2. RowsRest /\ NobodyServed
      BY <3>1, FailReadyRewrite DEF RowsRest, NobodyServed
    <3> QED BY <3>1, <3>2
  <2>2. CASE ~HostUnregisters(m)
    <3>1. UNCHANGED <<queue, drain>>
      BY <1>4, <2>2 DEF HostDuty, HostStartFails, HostRegisters, UnregisterLost, MatchStops,
         OperatorIssues, matchVars
    <3> QED BY <3>1, SameRowsRest
  <2> QED BY <2>1, <2>2
<1> QED BY <1>1, <1>2, <1>3, <1>4 DEF MatchNext

LEMMA WaitersRemain ==
    ASSUME QueueOK, QueueOK', StoreTypeOK, now' \in Nat, now <= now', RowsRest
    PROVE  \A i \in Waiting' :
               \/ i \in Waiting /\ queue'[i] = queue[i]
               \/ i \notin DOMAIN queue /\ \A j \in DOMAIN queue : j < i
<1> SUFFICES ASSUME NEW i \in DOMAIN queue', queue'[i].status = "waiting",
                    queue'[i].expires > now'
             PROVE  \/ i \in Waiting /\ queue'[i] = queue[i]
                    \/ i \notin DOMAIN queue /\ \A j \in DOMAIN queue : j < i
  BY DEF Waiting
<1>1. CASE i \in DOMAIN queue
  <2>1. queue'[i] = queue[i]
    BY <1>1 DEF RowsRest
  <2>2. queue[i] \in Row
    BY <1>1, ElementOfSeq, LenProperties DEF QueueOK
  <2>3. queue[i].expires \in Nat
    BY <2>2 DEF Row
  <2>4. queue[i].expires > now
    BY <2>1, <2>3 DEF StoreTypeOK
  <2> QED BY <1>1, <2>1, <2>4 DEF Waiting
<1>2. CASE i \notin DOMAIN queue
  <2>1. /\ DOMAIN queue = 1 .. Len(queue) /\ Len(queue) \in Nat
        /\ DOMAIN queue' = 1 .. Len(queue') /\ Len(queue') \in Nat
    BY LenProperties DEF QueueOK
  <2> QED BY <1>2, <2>1
<1> QED BY <1>1, <1>2

LEMMA ClockGoesOn ==
    ASSUME StoreTypeOK, [StoreNext]_storeVars
    PROVE  now' \in Nat /\ now <= now'
BY DEF StoreTypeOK, StoreNext, storeVars, Tick, RegisterSession, UnregisterSession,
   AssignRoomCode, IssueTicket, ConsumeTicket, ReconnectTicket, RecordSettlement

(* The rows that wait after a step.                                        *)
OnlyNewWaiters ==
    \A i \in Waiting' :
        \/ i \in Waiting /\ queue'[i] = queue[i]
        \/ i \notin DOMAIN queue /\ \A j \in DOMAIN queue : j < i

LEMMA StillNoRoom ==
    ASSUME QueueOK, NoRoomOpens, NEW i \in Waiting, queue'[i] = queue[i], NoRoomFor(i)
    PROVE  NoRoomFor(i)'
<1>1. queue[i] \in Row
  BY ElementOfSeq, LenProperties DEF QueueOK, Waiting
<1>2. PICK spec \in Specs : spec = queue[i].spec
  BY <1>1 DEF Row
<1>3. OpenRooms(spec)' = {}
  BY <1>2 DEF NoRoomOpens, NoRoomFor
<1>4. spec = queue'[i].spec
  BY <1>2
<1> QED BY <1>3, <1>4 DEF NoRoomFor

LEMMA OthersKeepOrder ==
    ASSUME DrainOK, QueueOK, QueueOK', OrderInv, OnlyNewWaiters, UNCHANGED drain,
           drain.pc = "scan" => NoRoomOpens
    PROVE  OrderInv'
<1> USE DEF DrainOK
<1>1. HeadIsFirst'
  <2> SUFFICES ASSUME drain.head # 0, NEW i \in Waiting' PROVE drain.head <= i
    BY DEF HeadIsFirst
  <2>1. CASE i \in Waiting
    BY <2>1 DEF OrderInv, HeadIsFirst
  <2>2. CASE i \notin Waiting
    <3>1. drain.head < i
      BY <2>2 DEF OnlyNewWaiters
    <3>2. drain.head \in 1 .. Len(queue) /\ Len(queue) \in Nat
      BY LenProperties DEF QueueOK
    <3>3. i \in Nat
      BY LenProperties DEF Waiting, QueueOK
    <3> QED BY <3>1, <3>2, <3>3
  <2> QED BY <2>1, <2>2
<1>2. PassedOver'
  <2> SUFFICES ASSUME drain.pc = "scan", NEW i \in Waiting', i \notin drain.todo,
                      queue'[i].kind = "quick"
               PROVE  NoRoomFor(i)' \/ \A j \in drain.todo : j < i
    BY DEF PassedOver
  <2>1. CASE i \in Waiting /\ queue'[i] = queue[i]
    <3>1. NoRoomFor(i) \/ \A j \in drain.todo : j < i
      BY <2>1 DEF OrderInv, PassedOver
    <3> QED BY <2>1, <3>1, StillNoRoom
  <2>2. CASE \A j \in DOMAIN queue : j < i
    BY <2>2
  <2> QED BY <2>1, <2>2 DEF OnlyNewWaiters
<1> QED BY <1>1, <1>2 DEF OrderInv

(* A run that begins a scan has passed over nobody.                        *)
LEMMA FreshScan ==
    ASSUME NEW todo, Waiting' \subseteq todo, DrainTo("scan", todo, 0)
    PROVE  OrderInv'
BY DEF DrainTo, OrderInv, PassedOver, HeadIsFirst

LEMMA RunEnded ==
    ASSUME EndRun
    PROVE  OrderInv'
BY DEF EndRun, DrainTo, OrderInv, PassedOver, HeadIsFirst

(* fulfillWaiter in a scan serves the first row that is left to look at.   *)
LEMMA ScanKeepsOrder ==
    ASSUME QueueOK, DrainOK, StoreTypeOK, OrderInv, OnlyNewWaiters, NoRoomOpens, ScanRow,
           DOMAIN queue' = DOMAIN queue
    PROVE  OrderInv'
<1>1. PICK i \in First(drain.todo) :
          /\ DrainTo("scan", drain.todo \ {i}, 0)
          /\ \/ SeatThrough(i) /\ \E s \in OldestOpen(queue[i].spec) : Fulfill(i, s.match)
             \/ ~SeatThrough(i) \/ i \notin Waiting
  BY DEF ScanRow
<1>2. drain.pc = "scan" /\ drain'.pc = "scan" /\ drain'.todo = drain.todo \ {i} /\ drain'.head = 0
  BY <1>1 DEF ScanRow, DrainTo
<1>3. i \in drain.todo /\ drain.todo \subseteq 1 .. Len(queue) /\ Len(queue) \in Nat
      /\ \A j \in drain.todo : i <= j
  BY <1>1, LenProperties DEF First, DrainOK, QueueOK
<1> SUFFICES ASSUME NEW k \in Waiting', k \notin drain.todo \ {i}, queue'[k].kind = "quick"
             PROVE  NoRoomFor(k)' \/ \A j \in drain.todo \ {i} : j < k
  BY <1>2 DEF OrderInv, PassedOver, HeadIsFirst
<1>4. k \in Waiting /\ queue'[k] = queue[k]
  BY DEF OnlyNewWaiters, Waiting
<1>5. CASE k = i
  <2>1. ~\E m : Fulfill(i, m)
    BY <1>4, <1>5, FulfillRewrite DEF Waiting
  <2>2. ~SeatThrough(i)
    BY <1>1, <1>4, <1>5, <2>1
  <2>3. OldestOpen(queue[k].spec) = {}
    BY <1>4, <1>5, <2>2 DEF SeatThrough
  <2>4. NoRoomFor(k)
    BY <2>3, OldestExists DEF NoRoomFor
  <2> QED BY <1>4, <2>4, StillNoRoom
<1>6. CASE k # i
  <2>1. NoRoomFor(k) \/ \A j \in drain.todo : j < k
    BY <1>2, <1>4, <1>6 DEF OrderInv, PassedOver
  <2> QED BY <1>4, <2>1, StillNoRoom
<1> QED BY <1>5, <1>6

LEMMA DrainRowsRest ==
    ASSUME MatchInv, DrainStep
    PROVE  RowsRest
<1> USE DEF MatchInv, Shape
<1>1. CASE StartRun \/ ScanEnd \/ DrainLaunchOk
  BY <1>1, SameRowsRest DEF StartRun, ScanEnd, DrainLaunchOk
<1>2. CASE ScanRow
  BY <1>2, ServedRowsRest, SameRowsRest DEF ScanRow
<1>3. CASE DrainAdmit
  BY <1>3, ServedRowsRest, SameRowsRest DEF DrainAdmit
<1>4. CASE DrainLaunchFails
  <2>1. drain.head \in DOMAIN queue
    BY <1>4 DEF DrainLaunchFails, DrainOK
  <2> QED BY <1>4, <2>1, ResolvedRowsRest, SameRowsRest DEF DrainLaunchFails
<1> QED BY <1>1, <1>2, <1>3, <1>4 DEF DrainStep

LEMMA DrainKeepsOrder ==
    ASSUME MatchInv, OrderInv, OnlyNewWaiters, DrainStep, drain.pc = "scan" => NoRoomOpens
    PROVE  OrderInv'
<1> USE DEF MatchInv, Shape
<1>1. CASE StartRun
  <2>1. DrainTo("scan", Waiting, 0) /\ UNCHANGED <<queue, now>>
    BY <1>1 DEF StartRun, storeVars
  <2> QED BY <2>1, FreshScan DEF Waiting
<1>2. CASE ScanRow
  <2>1. DOMAIN queue' = DOMAIN queue /\ drain.pc = "scan"
    BY <1>2, FulfillRewrite DEF ScanRow
  <2> QED BY <1>2, <2>1, ScanKeepsOrder
<1>3. CASE ScanEnd
  <2>1. UNCHANGED <<queue, now>>
    BY <1>3 DEF ScanEnd, storeVars
  <2>2. CASE EndRun
    BY <2>2, RunEnded
  <2>3. CASE DrainTo("scan", Waiting, 0)
    BY <2>1, <2>3, FreshScan DEF Waiting
  <2>4. ASSUME NEW head \in First(Waiting), DrainTo("launching", {}, head) PROVE OrderInv'
    <3>1. Waiting' = Waiting
      BY <2>1 DEF Waiting
    <3> QED BY <2>4, <3>1 DEF DrainTo, First, OrderInv, PassedOver, HeadIsFirst
  <2> QED BY <1>3, <2>2, <2>3, <2>4 DEF ScanEnd
<1>4. CASE DrainLaunchOk
  <2>1. drain' = [drain EXCEPT !.pc = "admitting"] /\ UNCHANGED queue
    BY <1>4 DEF DrainLaunchOk
  <2>2. drain'.pc = "admitting" /\ drain'.head = drain.head
    BY <2>1 DEF DrainOK
  <2>3. Waiting' \subseteq Waiting
    BY <2>1 DEF OnlyNewWaiters, Waiting
  <2> QED BY <2>2, <2>3 DEF OrderInv, PassedOver, HeadIsFirst
<1>5. CASE DrainAdmit
  <2>1. CASE EndRun
    BY <2>1, RunEnded
  <2>2. CASE DrainTo("scan", Waiting', 0)
    BY <2>2, FreshScan
  <2>3. CASE DrainTo("scan", Waiting, 0) /\ UNCHANGED <<storeVars, queue>>
    BY <2>3, FreshScan DEF Waiting, storeVars
  <2> QED BY <1>5, <2>1, <2>2, <2>3 DEF DrainAdmit
<1>6. CASE DrainLaunchFails
  BY <1>6, RunEnded DEF DrainLaunchFails
<1> QED BY <1>1, <1>2, <1>3, <1>4, <1>5, <1>6 DEF DrainStep

LEMMA OrderStep ==
    ASSUME MatchInv, MatchInv', OrderInv, [MatchNext]_vars
    PROVE  OrderInv'
<1>1. now' \in Nat /\ now <= now'
  BY MatchStoreStep, ShapeGivesType, ClockGoesOn DEF MatchInv
<1>2. RowsRest
  BY OthersServeNobody, DrainRowsRest
<1>3. OnlyNewWaiters
  BY <1>1, <1>2, WaitersRemain DEF MatchInv, Shape, OnlyNewWaiters
<1>4. drain.pc = "scan" => NoRoomOpens
  BY ScanOpensNoRoom DEF MatchInv
<1>5. CASE DrainStep
  BY <1>3, <1>4, <1>5, DrainKeepsOrder
<1>6. CASE ~DrainStep
  BY <1>3, <1>4, <1>6, OthersServeNobody, OthersKeepOrder DEF MatchInv, Shape
<1> QED BY <1>5, <1>6

LEMMA OrderInit == MatchInit => OrderInv
BY DEF MatchInit, OrderInv, PassedOver, HeadIsFirst

LEMMA OrderInvariant == MatchSpec => []OrderInv
<1>1. OrderInv /\ MatchInv /\ MatchInv' /\ [MatchNext]_vars => OrderInv'
  BY OrderStep
<1> QED BY <1>1, OrderInit, MatchInvariant, PTL DEF MatchSpec

(* No earlier quick row of the spec waits when row j is served.            *)
InOrder ==
    \A j \in DOMAIN queue :
        (queue[j].status = "waiting" /\ queue'[j].status = "ready") =>
            \A i \in 1 .. (j - 1) :
                ~(/\ i \in Waiting /\ queue[i].kind = "quick"
                  /\ queue[i].spec = queue[j].spec)

LEMMA ServedByScan ==
    ASSUME QueueOK, DrainOK, OrderInv, ScanRow
    PROVE  InOrder
<1> SUFFICES ASSUME NEW j \in DOMAIN queue,
                    queue[j].status = "waiting", queue'[j].status = "ready",
                    NEW i \in 1 .. (j - 1),
                    i \in Waiting, queue[i].kind = "quick", queue[i].spec = queue[j].spec
             PROVE  FALSE
  BY DEF InOrder
<1>1. PICK n \in First(drain.todo) :
          \/ \E s \in OldestOpen(queue[n].spec) : Fulfill(n, s.match)
          \/ UNCHANGED queue
  BY DEF ScanRow
<1>2. PICK s \in OldestOpen(queue[n].spec) : Fulfill(n, s.match)
  BY <1>1
<1>3. j = n
  BY <1>2, ServedRowsRest
<1>4. ~NoRoomFor(i)
  BY <1>2, <1>3 DEF OldestOpen, NoRoomFor
<1>5. j \in 1 .. Len(queue) /\ Len(queue) \in Nat
  BY LenProperties DEF QueueOK
<1>6. j \in drain.todo /\ i \notin drain.todo
  BY <1>1, <1>3, <1>5 DEF First
<1>7. drain.pc = "scan"
  BY DEF ScanRow
<1>8. NoRoomFor(i) \/ \A k \in drain.todo : k < i
  BY <1>6, <1>7 DEF OrderInv, PassedOver
<1>9. ~(j < i)
  BY <1>5
<1> QED BY <1>4, <1>6, <1>8, <1>9

LEMMA ServedByLaunch ==
    ASSUME QueueOK, DrainOK, OrderInv, DrainAdmit
    PROVE  InOrder
<1> SUFFICES ASSUME NEW j \in DOMAIN queue,
                    queue[j].status = "waiting", queue'[j].status = "ready",
                    NEW i \in 1 .. (j - 1), i \in Waiting
             PROVE  FALSE
  BY DEF InOrder
<1>1. j = drain.head
  BY ServedRowsRest DEF DrainAdmit
<1>2. j \in 1 .. Len(queue) /\ Len(queue) \in Nat
  BY LenProperties DEF QueueOK
<1> QED BY <1>1, <1>2 DEF OrderInv, HeadIsFirst

LEMMA StepServesInOrder ==
    ASSUME MatchInv, OrderInv, [MatchNext]_vars
    PROVE  InOrder
<1>1. NobodyServed => InOrder
  BY DEF NobodyServed, InOrder
<1>2. CASE ScanRow
  BY <1>2, ServedByScan DEF MatchInv, Shape
<1>3. CASE DrainAdmit
  BY <1>3, ServedByLaunch DEF MatchInv, Shape
<1>4. CASE StartRun \/ ScanEnd \/ DrainLaunchOk
  BY <1>1, <1>4, SameRowsRest DEF StartRun, ScanEnd, DrainLaunchOk
<1>5. CASE DrainLaunchFails
  <2>1. drain.head \in DOMAIN queue
    BY <1>5 DEF DrainLaunchFails, MatchInv, Shape, DrainOK
  <2> QED BY <1>1, <1>5, <2>1, ResolvedRowsRest, SameRowsRest
          DEF DrainLaunchFails, MatchInv, Shape
<1>6. CASE ~DrainStep
  BY <1>1, <1>6, OthersServeNobody
<1> QED BY <1>2, <1>3, <1>4, <1>5, <1>6 DEF DrainStep

(* Among the rows that wait for the same thing the queue is first come,    *)
(* first served: a row becomes ready, in a scan or by the launch made for  *)
(* it, only when no earlier quick row of its spec is still waiting.        *)
THEOREM QueueIsFifo == MatchSpec => ServedInOrder
<1>1. MatchInv /\ OrderInv /\ [MatchNext]_vars =>
        [\A j \in DOMAIN queue :
            (queue[j].status = "waiting" /\ queue'[j].status = "ready") =>
                \A i \in 1 .. (j - 1) :
                    ~(/\ i \in Waiting /\ queue[i].kind = "quick"
                      /\ queue[i].spec = queue[j].spec)]_vars
  BY StepServesInOrder DEF InOrder
<1> QED BY <1>1, MatchInvariant, OrderInvariant, PTL DEF MatchSpec, ServedInOrder

-----------------------------------------------------------------------------
(* Nobody waits beside a free place.  Without faults, whoever waits is     *)
(* waiting for a host that is full, for a match that stopped and is not    *)
(* unregistered yet, or for a drain run that was asked for; a run that was *)
(* refused is covered without counting itself.                             *)

Busy == {m \in Matches : hosted[m].state \in {"starting", "running"}}

HostFull == Load >= Capacity \/ UnusedMatches = {}

Covered(k) ==
    \/ HostFull
    \/ \E m \in Matches : hosted[m].state = "stopped"
    \/ Len(chain) >= k

WaitersCovered ==
    /\ Waiting # {} => Covered(1)
    /\ launch[Drain] = "refused" => Covered(2)

CallsEnd ==
    /\ \A c \in Callers : launch[c] # "failed"
    /\ launch[Drain] # "none" => drain.pc \in {"launching", "admitting"}

SessionsAreHosted ==
    /\ \A s \in sessions : hosted[s.match].state # "unused" /\ s.spec = hosted[s.match].spec
    /\ \A m \in Matches : hosted[m].state \in {"running", "stopped"} => m \in Registered
    /\ IsFiniteSet(Busy)

(* The room launched for the head is of its spec and still empty when the  *)
(* head is admitted; if it ended before, its end asked for a run.          *)
RoomAhead ==
    launch[Drain] \in Matches =>
        /\ hosted[launch[Drain]].state # "unused"
        /\ hosted[launch[Drain]].spec = queue[drain.head].spec
        /\ drain.pc = "launching" /\ hosted[launch[Drain]].state = "gone" => Len(chain) >= 2
        /\ drain.pc = "admitting" => \A t \in tickets : t.match # launch[Drain]

(* Nobody has a seat in a room before it has its code.                     *)
CodeFirst == \A s \in sessions, t \in tickets : s.code = NoCode => t.match # s.match

Coded(m) == \E s \in sessions : s.match = m /\ s.code # NoCode

(* While a handler is about to admit its player nobody else has the turn.  *)
OneTurn ==
    \A r \in Requests :
        request[r].pc = "admitting" =>
            /\ drain.pc \notin {"scan", "admitting"}
            /\ drain.pc = "idle" => chain = << >>
            /\ Coded(launch[r])

IdleInv ==
    /\ CallsEnd /\ SessionsAreHosted /\ RoomAhead
    /\ CodeFirst /\ OneTurn /\ WaitersCovered

LEMMA StepsWithoutFaults ==
    ASSUME Faults = {}, [MatchNext]_vars
    PROVE  \/ Clock \/ UNCHANGED vars
           \/ \E r \in Requests : PlayerStep(r) \/ ServerStep(r)
           \/ DrainStep
           \/ \E c \in Callers : HostReserve(c)
           \/ \E m \in Matches : HostRegisters(m) \/ HostUnregisters(m) \/ MatchStops(m)
BY DEF MatchNext, HostDuty, HostStartFails, UnregisterLost, OperatorIssues

LEMMA HostMoves ==
    ASSUME HostedOK, NEW m \in Matches, NEW state, HostTo(m, state)
    PROVE  /\ hosted'[m].state = state /\ hosted'[m].spec = hosted[m].spec
           /\ \A x \in Matches : x # m => hosted'[x] = hosted[x]
<1>1. PICK h : h = [hosted[m] EXCEPT !.state = state]
  OBVIOUS
<1>2. h.state = state /\ h.spec = hosted[m].spec
  BY <1>1 DEF HostedOK
<1>3. hosted' = [hosted EXCEPT ![m] = h]
  BY <1>1 DEF HostTo
<1> QED BY <1>2, <1>3 DEF HostedOK

LEMMA HostTakes ==
    ASSUME HostedOK, CallsOK, NEW c \in Callers, HostReserve(c)
    PROVE  /\ launch[c] = "sent"
           /\ \A x \in Callers : x # c => launch'[x] = launch[x]
           /\ UNCHANGED <<storeVars, request, queue, chain, drain>>
           /\ \/ /\ HostFull /\ launch'[c] = "refused" /\ UNCHANGED hosted
              \/ /\ Load < Capacity
                 /\ \E m \in UnusedMatches :
                       /\ launch'[c] = m
                       /\ hosted'[m].state = "starting" /\ hosted'[m].spec = AskFor(c)
                       /\ \A x \in Matches : x # m => hosted'[x] = hosted[x]
<1>1. PICK answer : launch' = [launch EXCEPT ![c] = answer]
  BY DEF HostReserve
<1>2. launch'[c] = answer /\ \A x \in Callers : x # c => launch'[x] = launch[x]
  BY <1>1 DEF CallsOK
<1>3. ASSUME NEW m \in UnusedMatches, launch' = [launch EXCEPT ![c] = m],
             hosted' = [hosted EXCEPT ![m] = [state |-> "starting", spec |-> AskFor(c)]]
      PROVE  /\ launch'[c] = m
             /\ hosted'[m].state = "starting" /\ hosted'[m].spec = AskFor(c)
             /\ \A x \in Matches : x # m => hosted'[x] = hosted[x]
  BY <1>3 DEF UnusedMatches, HostedOK, CallsOK
<1>4. launch' = [launch EXCEPT ![c] = "refused"] => launch'[c] = "refused"
  BY DEF CallsOK
<1> QED BY <1>2, <1>3, <1>4 DEF HostReserve, HostFull

(* What the players' handlers leave alone.                                 *)
LEMMA PlayersLeaveRuns ==
    ASSUME CallsOK, ChainOK, NEW r \in Requests, PlayerStep(r) \/ ServerStep(r)
    PROVE  /\ UNCHANGED <<drain, hosted>>
           /\ launch'[Drain] = launch[Drain]
           /\ \A c \in Callers : launch'[c] = launch[c] \/ launch'[c] \in {"none", "sent"}
           /\ Len(chain) \in Nat /\ Len(chain') \in Nat
           /\ Len(chain') >= Len(chain)
           /\ Enqueue(r) => Len(chain') >= 1
           /\ ~Enqueue(r) => UNCHANGED chain
<1>1. UNCHANGED <<drain, hosted>>
  BY DEF PlayerStep, QuickJoin, AskLaunch, JoinByCode, Poll, Cancel, ServerStep,
     LaunchOk, Admit, Enqueue, LaunchFailed, AnswerEnqueued
<1>2. UNCHANGED launch \/ \E answer \in {"none", "sent"} : launch' = [launch EXCEPT ![r] = answer]
  BY DEF PlayerStep, QuickJoin, AskLaunch, JoinByCode, Poll, Cancel, ServerStep,
     LaunchOk, Admit, Enqueue, LaunchFailed, AnswerEnqueued
<1>3. launch'[Drain] = launch[Drain]
  BY <1>2, DrainIsNoRequest DEF CallsOK, Callers
<1>4. \A c \in Callers : launch'[c] = launch[c] \/ launch'[c] \in {"none", "sent"}
  BY <1>2 DEF CallsOK
<1>5. ~Enqueue(r) => UNCHANGED chain
  BY DEF PlayerStep, QuickJoin, AskLaunch, JoinByCode, Poll, Cancel, ServerStep,
     LaunchOk, Admit, LaunchFailed, AnswerEnqueued
<1>6. Enqueue(r) => chain' = Append(chain, r)
  BY DEF Enqueue
<1>7. Len(chain) \in Nat
  BY LenProperties DEF ChainOK
<1>8. Enqueue(r) => Len(chain') = Len(chain) + 1
  BY <1>6, AppendProperties DEF ChainOK
<1> QED BY <1>1, <1>3, <1>4, <1>5, <1>7, <1>8

LEMMA CallsEndStep ==
    ASSUME MatchInv, CallsEnd, Faults = {}, [MatchNext]_vars
    PROVE  CallsEnd'
<1> USE DEF MatchInv, Shape
<1>1. Drain \in Callers /\ "failed" \notin Matches /\ "none" \notin Matches
  BY AnswersAreNoMatches DEF Callers, Answers
<1>2. CASE Clock \/ UNCHANGED vars
  BY <1>2 DEF Clock, matchVars, vars, CallsEnd
<1>3. ASSUME NEW r \in Requests, PlayerStep(r) \/ ServerStep(r) PROVE CallsEnd'
  BY <1>3, PlayersLeaveRuns DEF CallsEnd
<1>4. CASE DrainStep
  <2>1. CASE StartRun
    BY <2>1 DEF StartRun, DrainTo, CallsEnd
  <2>2. CASE ScanRow
    BY <2>2 DEF ScanRow, DrainTo, CallsEnd
  <2>3. CASE ScanEnd
    <3>1. launch[Drain] = "none"
      BY <2>3 DEF ScanEnd, CallsEnd
    <3>2. ASSUME NEW head, DrainTo("launching", {}, head),
                 launch' = [launch EXCEPT ![Drain] = "sent"]
          PROVE  CallsEnd'
      BY <3>2 DEF CallsEnd, CallsOK, DrainTo
    <3>3. CASE UNCHANGED launch
      BY <3>1, <3>3 DEF CallsEnd
    <3> QED BY <2>3, <3>2, <3>3 DEF ScanEnd
  <2>4. CASE DrainLaunchOk
    <3>1. drain'.pc = "admitting" /\ UNCHANGED launch
      BY <2>4 DEF DrainLaunchOk, DrainOK
    <3> QED BY <3>1 DEF CallsEnd
  <2>5. CASE DrainAdmit \/ DrainLaunchFails
    <3>1. launch' = [launch EXCEPT ![Drain] = "none"]
      BY <2>5 DEF DrainAdmit, DrainLaunchFails
    <3> QED BY <1>1, <3>1 DEF CallsEnd, CallsOK
  <2> QED BY <1>4, <2>1, <2>2, <2>3, <2>4, <2>5 DEF DrainStep
<1>5. ASSUME NEW c \in Callers, HostReserve(c) PROVE CallsEnd'
  <2>1. launch'[c] # "failed" /\ UNCHANGED drain /\ launch[c] = "sent"
    BY <1>1, <1>5, HostTakes DEF UnusedMatches
  <2>2. \A x \in Callers : x # c => launch'[x] = launch[x]
    BY <1>5, HostTakes
  <2> QED BY <1>1, <2>1, <2>2 DEF CallsEnd
<1>6. ASSUME NEW m \in Matches, HostRegisters(m) \/ HostUnregisters(m) \/ MatchStops(m)
      PROVE  CallsEnd'
  BY <1>6 DEF HostRegisters, HostUnregisters, MatchStops, CallsEnd
<1> QED BY <1>2, <1>3, <1>4, <1>5, <1>6, StepsWithoutFaults

(* The sessions are those of the same matches, of the same specs.          *)
SameRooms ==
    /\ \A s \in sessions' : \E r \in sessions : s.match = r.match /\ s.spec = r.spec
    /\ \A s \in sessions : \E r \in sessions' : r.match = s.match

LEMMA UnchangedRooms == UNCHANGED sessions => SameRooms
BY DEF SameRooms

LEMMA AssignKeepsRooms ==
    ASSUME StoreTypeOK, NEW m \in Matches, NEW code \in RoomCodes, AssignRoomCode(m, code)
    PROVE  SameRooms
<1>1. PICK s \in sessions, c \in Session :
          /\ sessions' = (sessions \ {s}) \cup {c}
          /\ c.match = s.match /\ c.spec = s.spec
  BY AssignEffect
<1> QED BY <1>1 DEF SameRooms

LEMMA OthersKeepRooms ==
    ASSUME MatchInv, [MatchNext]_vars, Faults = {},
           \A m \in Matches : ~HostRegisters(m) /\ ~HostUnregisters(m)
    PROVE  SameRooms
<1> USE DEF MatchInv, Shape
<1>1. CASE Clock \/ UNCHANGED vars
  BY <1>1, UnchangedRooms DEF Clock, Tick, vars
<1>2. ASSUME NEW r \in Requests, PlayerStep(r) \/ ServerStep(r) PROVE SameRooms
  <2>1. CASE LaunchOk(r)
    <3>1. launch[r] \in Matches
      BY <2>1 DEF LaunchOk, Answered
    <3> QED BY <2>1, <3>1, AssignKeepsRooms, UnchangedRooms DEF LaunchOk, storeVars
  <2>2. CASE ~LaunchOk(r)
    <3>1. UNCHANGED sessions
      BY <1>2, <2>2 DEF PlayerStep, QuickJoin, AskLaunch, JoinByCode, Poll, Cancel, ServerStep,
         Admit, Enqueue, LaunchFailed, AnswerEnqueued, IssueTicket, storeVars
    <3> QED BY <3>1, UnchangedRooms
  <2> QED BY <2>1, <2>2
<1>3. CASE DrainStep
  <2>1. CASE DrainLaunchOk
    <3>1. launch[Drain] \in Matches
      BY <2>1 DEF DrainLaunchOk, Answered
    <3> QED BY <2>1, <3>1, AssignKeepsRooms DEF DrainLaunchOk
  <2>2. CASE ~DrainLaunchOk
    <3>1. UNCHANGED sessions
      BY <1>3, <2>2 DEF DrainStep, StartRun, ScanRow, ScanEnd, DrainAdmit, DrainLaunchFails,
         Fulfill, IssueTicket, storeVars
    <3> QED BY <3>1, UnchangedRooms
  <2> QED BY <2>1, <2>2
<1>4. ASSUME NEW c \in Callers, HostReserve(c) PROVE SameRooms
  BY <1>4, UnchangedRooms DEF HostReserve, storeVars
<1>5. ASSUME NEW m \in Matches, MatchStops(m) PROVE SameRooms
  BY <1>5, UnchangedRooms DEF MatchStops, storeVars
<1> QED BY <1>1, <1>2, <1>3, <1>4, <1>5, StepsWithoutFaults

LEMMA BusyGrows ==
    ASSUME IsFiniteSet(Busy), NEW m, Busy' \subseteq Busy \cup {m}
    PROVE  IsFiniteSet(Busy')
<1>1. IsFiniteSet(Busy \cup {m})
  BY FS_AddElement
<1> QED BY <1>1, FS_Subset

LEMMA SessionsAreHostedStep ==
    ASSUME MatchInv, SessionsAreHosted, Faults = {}, [MatchNext]_vars
    PROVE  SessionsAreHosted'
<1> USE DEF MatchInv, Shape
<1>1. \A s \in sessions : s.match \in Matches
  BY DEF StoreTypeOK, Session
<1>2. ASSUME NEW m \in Matches, HostRegisters(m) PROVE SessionsAreHosted'
  <2>1. RegisterSession(m, hosted[m].spec) /\ HostTo(m, "running") /\ hosted[m].state = "starting"
    BY <1>2 DEF HostRegisters
  <2>2. PICK c : /\ c = [match |-> m, spec |-> hosted[m].spec, code |-> NoCode, created |-> now]
                 /\ sessions' = sessions \cup {c}
    BY <2>1 DEF RegisterSession
  <2>3. c.match = m /\ c.spec = hosted[m].spec
    BY <2>2
  <2>4. /\ hosted'[m].state = "running" /\ hosted'[m].spec = hosted[m].spec
        /\ \A x \in Matches : x # m => hosted'[x] = hosted[x]
    BY <2>1, HostMoves
  <2>5. Busy' \subseteq Busy \cup {m}
    BY <2>4 DEF Busy
  <2>6. IsFiniteSet(Busy')
    BY <2>5, BusyGrows DEF SessionsAreHosted
  <2>7. \A s \in sessions' :
            hosted'[s.match].state # "unused" /\ s.spec = hosted'[s.match].spec
    BY <1>1, <2>2, <2>3, <2>4 DEF SessionsAreHosted
  <2>8. \A x \in Matches : hosted'[x].state \in {"running", "stopped"} => x \in Registered'
    BY <2>2, <2>3, <2>4 DEF SessionsAreHosted, Registered
  <2> QED BY <2>6, <2>7, <2>8 DEF SessionsAreHosted
<1>3. ASSUME NEW m \in Matches, HostUnregisters(m) PROVE SessionsAreHosted'
  <2>1. UnregisterSession(m) /\ HostTo(m, "gone")
    BY <1>3 DEF HostUnregisters
  <2>2. /\ hosted'[m].state = "gone"
        /\ \A x \in Matches : x # m => hosted'[x] = hosted[x]
    BY <2>1, HostMoves
  <2>3. sessions' = {s \in sessions : s.match # m}
    BY <2>1 DEF UnregisterSession
  <2>4. Busy' \subseteq Busy \cup {m}
    BY <2>2 DEF Busy
  <2>5. IsFiniteSet(Busy')
    BY <2>4, BusyGrows DEF SessionsAreHosted
  <2>6. \A s \in sessions' :
            hosted'[s.match].state # "unused" /\ s.spec = hosted'[s.match].spec
    BY <1>1, <2>2, <2>3 DEF SessionsAreHosted
  <2>7. \A x \in Matches : hosted'[x].state \in {"running", "stopped"} => x \in Registered'
    BY <2>2, <2>3 DEF SessionsAreHosted, Registered
  <2> QED BY <2>5, <2>6, <2>7 DEF SessionsAreHosted
<1>4. CASE \A m \in Matches : ~HostRegisters(m) /\ ~HostUnregisters(m)
  <2>1. SameRooms
    BY <1>4, OthersKeepRooms
  <2>2. Registered' = Registered
    BY <2>1 DEF SameRooms, Registered
  <2>3. CASE UNCHANGED hosted
    <3>1. \A s \in sessions' :
              hosted'[s.match].state # "unused" /\ s.spec = hosted'[s.match].spec
      BY <2>1, <2>3 DEF SessionsAreHosted, SameRooms
    <3> QED BY <2>2, <2>3, <3>1 DEF SessionsAreHosted, Busy
  <2>4. ASSUME NEW m \in Matches, MatchStops(m) PROVE SessionsAreHosted'
    <3>1. HostTo(m, "stopped") /\ hosted[m].state = "running" /\ UNCHANGED sessions
      BY <2>4 DEF MatchStops, storeVars
    <3>2. /\ hosted'[m].state = "stopped" /\ hosted'[m].spec = hosted[m].spec
          /\ \A x \in Matches : x # m => hosted'[x] = hosted[x]
      BY <3>1, HostMoves
    <3>3. Busy' \subseteq Busy \cup {m}
      BY <3>2 DEF Busy
    <3>4. IsFiniteSet(Busy')
      BY <3>3, BusyGrows DEF SessionsAreHosted
    <3>5. \A s \in sessions' :
              hosted'[s.match].state # "unused" /\ s.spec = hosted'[s.match].spec
      BY <1>1, <3>1, <3>2 DEF SessionsAreHosted
    <3>6. \A x \in Matches : hosted'[x].state \in {"running", "stopped"} => x \in Registered'
      BY <2>2, <3>1, <3>2 DEF SessionsAreHosted
    <3> QED BY <3>4, <3>5, <3>6 DEF SessionsAreHosted
  <2>5. ASSUME NEW c \in Callers, HostReserve(c), ~UNCHANGED hosted PROVE SessionsAreHosted'
    <3>1. PICK m \in UnusedMatches :
              /\ hosted'[m].state = "starting"
              /\ \A x \in Matches : x # m => hosted'[x] = hosted[x]
      BY <2>5, HostTakes
    <3>2. UNCHANGED sessions /\ hosted[m].state = "unused" /\ m \in Matches
      BY <2>5, HostTakes DEF UnusedMatches, storeVars
    <3>3. Busy' \subseteq Busy \cup {m}
      BY <3>1 DEF Busy
    <3>4. IsFiniteSet(Busy')
      BY <3>3, BusyGrows DEF SessionsAreHosted
    <3>5. \A s \in sessions' :
              hosted'[s.match].state # "unused" /\ s.spec = hosted'[s.match].spec
      BY <1>1, <3>1, <3>2 DEF SessionsAreHosted
    <3>6. \A x \in Matches : hosted'[x].state \in {"running", "stopped"} => x \in Registered'
      BY <2>2, <3>1, <3>2 DEF SessionsAreHosted
    <3> QED BY <3>4, <3>5, <3>6 DEF SessionsAreHosted
  <2>6. ASSUME NEW r \in Requests, PlayerStep(r) \/ ServerStep(r) PROVE UNCHANGED hosted
    BY <2>6, PlayersLeaveRuns
  <2>7. DrainStep \/ Clock \/ UNCHANGED vars => UNCHANGED hosted
    BY DEF DrainStep, StartRun, ScanRow, ScanEnd, DrainLaunchOk, DrainAdmit, DrainLaunchFails,
       Clock, matchVars, vars
  <2> QED BY <1>4, <2>3, <2>4, <2>5, <2>6, <2>7, StepsWithoutFaults
<1> QED BY <1>2, <1>3, <1>4

(* Tickets.                                                                *)
LEMMA CodeFirstKept ==
    ASSUME CodeFirst, tickets' \subseteq tickets,
           \A s \in sessions' : s.code = NoCode => s \in sessions
    PROVE  CodeFirst'
BY DEF CodeFirst

LEMMA AssignKeepsCodeFirst ==
    ASSUME StoreTypeOK, CodeFirst, NEW m \in Matches, NEW code \in RoomCodes,
           AssignRoomCode(m, code)
    PROVE  /\ CodeFirst'
           /\ UNCHANGED tickets
           /\ \A t \in tickets : t.match # m
<1>1. PICK s \in sessions, c \in Session :
          /\ sessions' = (sessions \ {s}) \cup {c}
          /\ c.code = code /\ s.code = NoCode /\ s.match = m /\ tickets' = tickets
  BY AssignEffect
<1>2. c.code # NoCode
  BY <1>1, NoCodeIsNone
<1>3. CodeFirst'
  BY <1>1, <1>2, CodeFirstKept
<1> QED BY <1>1, <1>3 DEF CodeFirst

LEMMA IssueKeepsCodeFirst ==
    ASSUME StoreTypeOK, KeysAreUnique, CodeFirst, NEW m, NEW owner \in Owners,
           IssueTicket(m, owner), Coded(m)
    PROVE  CodeFirst'
<1>1. PICK c \in Ticket : tickets' = tickets \cup {c} /\ c.match = m
  BY IssueGrows
<1>2. UNCHANGED sessions
  BY DEF IssueTicket
<1>3. \A s \in sessions : s.match = m => s.code # NoCode
  BY DEF KeysAreUnique, Coded
<1> QED BY <1>1, <1>2, <1>3 DEF CodeFirst

LEMMA RegisterKeepsCodeFirst ==
    ASSUME CodeFirst, TicketsHaveSessions, NEW m, NEW spec, RegisterSession(m, spec)
    PROVE  CodeFirst'
<1>1. PICK c : /\ c = [match |-> m, spec |-> spec, code |-> NoCode, created |-> now]
               /\ sessions' = sessions \cup {c}
  BY DEF RegisterSession
<1>2. c.match = m /\ UNCHANGED tickets
  BY <1>1 DEF RegisterSession
<1>3. \A t \in tickets : t.match # m
  BY DEF TicketsHaveSessions, RegisterSession
<1> QED BY <1>1, <1>2, <1>3 DEF CodeFirst

LEMMA CodeFirstStep ==
    ASSUME MatchInv, KeysAreUnique, TicketsHaveSessions, RoomIsThere, OneTurn, CodeFirst,
           Faults = {}, [MatchNext]_vars
    PROVE  CodeFirst'
<1> USE DEF MatchInv, Shape
<1>1. UNCHANGED <<sessions, tickets>> => CodeFirst'
  BY CodeFirstKept
<1>2. Anonymous \in Owners /\ \A r \in Requests : Identity[r] \in Owners
  BY IdentityType DEF Owners
<1>3. ASSUME NEW spec, NEW s \in OldestOpen(spec) PROVE Coded(s.match)
  BY DEF OldestOpen, OpenRooms, Coded
<1>4. CASE Clock \/ UNCHANGED vars
  BY <1>1, <1>4 DEF Clock, Tick, vars
<1>5. ASSUME NEW r \in Requests, PlayerStep(r) \/ ServerStep(r) PROVE CodeFirst'
  <2>1. ASSUME NEW spec, QuickJoin(r, spec) PROVE CodeFirst'
    <3>1. PICK s \in OldestOpen(spec) : IssueTicket(s.match, Identity[r])
      BY <2>1 DEF QuickJoin
    <3> QED BY <1>2, <1>3, <3>1, IssueKeepsCodeFirst
  <2>2. ASSUME NEW s \in sessions, JoinByCode(r, s) PROVE CodeFirst'
    <3>1. Coded(s.match)
      BY <2>2 DEF JoinByCode, Coded
    <3> QED BY <1>1, <1>2, <2>2, <3>1, IssueKeepsCodeFirst DEF JoinByCode, storeVars
  <2>3. CASE Admit(r)
    <3>1. Coded(launch[r])
      BY <2>3 DEF Admit, OneTurn
    <3> QED BY <1>1, <1>2, <2>3, <3>1, IssueKeepsCodeFirst DEF Admit, storeVars
  <2>4. CASE LaunchOk(r)
    <3>1. launch[r] \in Matches
      BY <2>4 DEF LaunchOk, Answered
    <3> QED BY <1>1, <2>4, <3>1, AssignKeepsCodeFirst DEF LaunchOk, storeVars
  <2>5. CASE /\ \A spec \in Specs : ~QuickJoin(r, spec)
             /\ \A s \in sessions : ~JoinByCode(r, s)
             /\ ~Admit(r) /\ ~LaunchOk(r)
    <3>1. UNCHANGED storeVars
      BY <1>5, <2>5 DEF PlayerStep, AskLaunch, Poll, Cancel, ServerStep, Enqueue, LaunchFailed,
         AnswerEnqueued
    <3> QED BY <1>1, <3>1 DEF storeVars
  <2> QED BY <2>1, <2>2, <2>3, <2>4, <2>5
<1>6. CASE DrainStep
  <2>1. CASE ScanRow
    <3>1. ASSUME NEW i, NEW s \in OldestOpen(queue[i].spec), Fulfill(i, s.match) PROVE CodeFirst'
      BY <1>2, <1>3, <3>1, IssueKeepsCodeFirst DEF Fulfill
    <3> QED BY <1>1, <2>1, <3>1 DEF ScanRow, storeVars
  <2>2. CASE DrainAdmit
    <3>1. Coded(launch[Drain])
      BY <2>2 DEF DrainAdmit, RoomIsThere, Coded
    <3>2. Fulfill(drain.head, launch[Drain]) => CodeFirst'
      BY <1>2, <3>1, IssueKeepsCodeFirst DEF Fulfill
    <3> QED BY <1>1, <2>2, <3>2 DEF DrainAdmit, storeVars
  <2>3. CASE DrainLaunchOk
    <3>1. launch[Drain] \in Matches
      BY <2>3 DEF DrainLaunchOk, Answered
    <3> QED BY <2>3, <3>1, AssignKeepsCodeFirst DEF DrainLaunchOk
  <2>4. CASE StartRun \/ ScanEnd \/ DrainLaunchFails
    BY <1>1, <2>4 DEF StartRun, ScanEnd, DrainLaunchFails, storeVars
  <2> QED BY <1>6, <2>1, <2>2, <2>3, <2>4 DEF DrainStep
<1>7. ASSUME NEW c \in Callers, HostReserve(c) PROVE CodeFirst'
  BY <1>1, <1>7 DEF HostReserve, storeVars
<1>8. ASSUME NEW m \in Matches, HostRegisters(m) PROVE CodeFirst'
  BY <1>8, RegisterKeepsCodeFirst DEF HostRegisters
<1>9. ASSUME NEW m \in Matches, HostUnregisters(m) PROVE CodeFirst'
  BY <1>9, CodeFirstKept DEF HostUnregisters, UnregisterSession, TicketsWithout
<1>10. ASSUME NEW m \in Matches, MatchStops(m) PROVE CodeFirst'
  BY <1>1, <1>10 DEF MatchStops, storeVars
<1> QED BY <1>4, <1>5, <1>6, <1>7, <1>8, <1>9, <1>10, StepsWithoutFaults

(* Handlers.                                                               *)
LEMMA OnlyLaunchOkAdmits ==
    ASSUME RequestsOK, MatchTypeOK, StoreTypeOK, minted' \in 0 .. MaxTickets,
           NEW r \in Requests, PlayerStep(r) \/ ServerStep(r), ~LaunchOk(r)
    PROVE  \A x \in Requests :
               request'[x].pc = "admitting" => x # r /\ request[x].pc = "admitting"
<1> DEFINE Goal == \A x \in Requests :
                       request'[x].pc = "admitting" => x # r /\ request[x].pc = "admitting"
<1>1. ASSUME NEW pc \in RequestStates \ {"admitting"}, Move(r, pc) PROVE Goal
  BY <1>1, MoveEffect
<1>2. ASSUME NEW pc \in RequestStates \ {"admitting"}, NEW ticket,
             request' = [request EXCEPT ![r].pc = pc, ![r].ticket = ticket]
      PROVE  Goal
  <2>1. request' = [request EXCEPT ![r] = [request[r] EXCEPT !.pc = pc, !.ticket = ticket]]
    BY <1>2 DEF RequestsOK
  <2>2. PICK c : c = [request[r] EXCEPT !.pc = pc, !.ticket = ticket]
    OBVIOUS
  <2>3. c.pc = pc
    BY <2>2 DEF RequestsOK, RequestType
  <2> QED BY <2>1, <2>2, <2>3 DEF RequestsOK
<1>3. ASSUME NEW kind, NEW spec, NEW pc \in RequestStates \ {"admitting"}, NEW ticket,
             Arrive(r, kind, spec, pc, ticket)
      PROVE  Goal
  <2>1. PICK c : c = [pc |-> pc, kind |-> kind, spec |-> spec, ticket |-> ticket]
    OBVIOUS
  <2>2. request' = [request EXCEPT ![r] = c] /\ c.pc = pc
    BY <1>3, <2>1 DEF Arrive
  <2> QED BY <2>2 DEF RequestsOK
<1>4. Learn(r) => Goal
  BY <1>1, <1>2 DEF Learn, RequestStates
<1> HIDE DEF Goal
<1>5. ASSUME NEW spec \in Specs, QuickJoin(r, spec) \/ \E kind \in Kinds : AskLaunch(r, kind, spec)
      PROVE  Goal
  BY <1>3, <1>5 DEF QuickJoin, AskLaunch, RequestStates
<1>6. ASSUME NEW s \in sessions, JoinByCode(r, s) PROVE Goal
  BY <1>3, <1>6 DEF JoinByCode, RequestStates
<1>7. Poll(r) \/ AnswerEnqueued(r) => Goal
  BY <1>4 DEF Poll, AnswerEnqueued
<1>8. Cancel(r) \/ Enqueue(r) \/ LaunchFailed(r) => Goal
  BY <1>1 DEF Cancel, Enqueue, LaunchFailed, RequestStates
<1>9. Admit(r) => Goal
  BY <1>1, <1>2 DEF Admit, RequestStates
<1>10. Goal
  BY <1>5, <1>6, <1>7, <1>8, <1>9 DEF PlayerStep, ServerStep
<1> QED BY <1>10 DEF Goal

LEMMA OneTurnStep ==
    ASSUME MatchInv, MatchInv', OneTurn, Faults = {}, [MatchNext]_vars
    PROVE  OneTurn'
<1> USE DEF MatchInv, Shape
<1>1. ~InTurn => \A r \in Requests : request[r].pc # "admitting"
  BY DEF InTurn
<1>2. (UNCHANGED request /\ \A r \in Requests : request[r].pc # "admitting") => OneTurn'
  BY DEF OneTurn
<1>3. CASE Clock \/ UNCHANGED vars
  BY <1>3 DEF Clock, Tick, matchVars, vars, OneTurn, Coded
<1>4. ASSUME NEW r \in Requests, LaunchOk(r) PROVE OneTurn'
  <2>1. CASE Move(r, "admitting") /\ UNCHANGED launch
    <3>1. launch[r] \in Matches
      BY <1>4 DEF LaunchOk, Answered
    <3>2. PICK code \in RoomCodes : AssignRoomCode(launch[r], code)
      <4>1. request'[r].pc = "admitting"
        BY <2>1, MoveEffect DEF RequestStates
      <4>2. ~Move(r, "failed")
        BY <4>1, MoveEffect DEF RequestStates
      <4> QED BY <1>4, <4>2 DEF LaunchOk
    <3>3. Coded(launch[r])'
      BY <2>1, <3>1, <3>2, AssignGrows DEF Coded
    <3>4. \A x \in Requests : request'[x].pc = "admitting" => x = r
      BY <1>1, <1>4, <2>1, MoveEffect DEF LaunchOk, RequestStates
    <3>5. UNCHANGED <<drain, chain>>
      BY <1>4 DEF LaunchOk
    <3>6. drain.pc \notin {"scan", "admitting"} /\ (drain.pc = "idle" => chain = << >>)
      BY <1>4 DEF LaunchOk, InTurn
    <3> QED BY <2>1, <3>3, <3>4, <3>5, <3>6 DEF OneTurn, Coded
  <2>2. CASE Move(r, "failed")
    <3>1. \A x \in Requests : request'[x].pc # "admitting"
      BY <1>1, <1>4, <2>2, MoveEffect DEF LaunchOk, RequestStates
    <3> QED BY <3>1 DEF OneTurn
  <2> QED BY <1>4, <2>1, <2>2 DEF LaunchOk
<1>5. ASSUME NEW r \in Requests, PlayerStep(r) \/ ServerStep(r), ~LaunchOk(r) PROVE OneTurn'
  <2>1. minted' \in 0 .. MaxTickets
    BY DEF StoreTypeOK
  <2>2. \A x \in Requests : request'[x].pc = "admitting" => x # r /\ request[x].pc = "admitting"
    BY <1>5, <2>1, ShapeGivesType, OnlyLaunchOkAdmits
  <2>3. CASE Admit(r)
    <3>1. UNCHANGED <<drain, chain, sessions>> /\ launch' = [launch EXCEPT ![r] = "none"]
      BY <2>3 DEF Admit, IssueTicket, storeVars
    <3>2. \A x \in Requests : x # r => launch'[x] = launch[x]
      BY <3>1 DEF CallsOK, Callers
    <3> QED BY <2>2, <3>1, <3>2 DEF OneTurn, Coded
  <2>4. CASE ~Admit(r)
    <3>1. ~InTurn
      BY <1>5, <2>4 DEF PlayerStep, QuickJoin, AskLaunch, JoinByCode, Poll, Cancel, ServerStep,
         Enqueue, LaunchFailed, AnswerEnqueued
    <3> QED BY <1>1, <2>2, <3>1 DEF OneTurn
  <2> QED BY <2>3, <2>4
<1>6. CASE DrainStep
  <2>1. UNCHANGED request
    BY <1>6 DEF DrainStep, StartRun, ScanRow, ScanEnd, DrainLaunchOk, DrainAdmit,
       DrainLaunchFails
  <2>2. \A r \in Requests : request[r].pc # "admitting"
    BY <1>1, <1>6 DEF DrainStep, StartRun, ScanRow, ScanEnd, DrainLaunchOk, DrainAdmit,
       DrainLaunchFails, OneTurn
  <2> QED BY <1>2, <2>1, <2>2
<1>7. ASSUME NEW c \in Callers, HostReserve(c) PROVE OneTurn'
  <2>1. UNCHANGED <<sessions, request, drain, chain>> /\ launch[c] = "sent"
    BY <1>7 DEF HostReserve, storeVars
  <2>2. \A x \in Callers : x # c => launch'[x] = launch[x]
    BY <1>7, HostTakes
  <2>3. ~Coded("sent")
    BY AnswersAreNoMatches DEF Coded, StoreTypeOK, Session, Answers
  <2>4. \A r \in Requests : request[r].pc = "admitting" => launch'[r] = launch[r]
    BY <2>1, <2>2, <2>3 DEF OneTurn, Callers
  <2> QED BY <2>1, <2>4 DEF OneTurn, Coded
<1>8. ASSUME NEW m \in Matches, HostRegisters(m) \/ HostUnregisters(m) PROVE OneTurn'
  BY <1>1, <1>2, <1>8 DEF HostRegisters, HostUnregisters
<1>9. ASSUME NEW m \in Matches, MatchStops(m) PROVE OneTurn'
  BY <1>9 DEF MatchStops, OneTurn, Coded, storeVars
<1> QED BY <1>3, <1>4, <1>5, <1>6, <1>7, <1>8, <1>9, StepsWithoutFaults

(* The room a run has launched.                                            *)
RowSpecs == \A i \in DOMAIN queue : queue'[i].spec = queue[i].spec

LEMMA StepKeepsSpecs ==
    ASSUME MatchInv, Faults = {}, [MatchNext]_vars
    PROVE  RowSpecs
<1> USE DEF MatchInv, Shape
<1>1. UNCHANGED queue => RowSpecs
  BY DEF RowSpecs
<1>2. ASSUME NEW i \in DOMAIN queue, NEW status, queue' = [queue EXCEPT ![i].status = status]
      PROVE  RowSpecs
  BY <1>2, StatusRewrite DEF RowSpecs
<1>3. ASSUME NEW i, NEW m, Fulfill(i, m) PROVE RowSpecs
  BY <1>3, FulfillRewrite DEF RowSpecs
<1>4. ASSUME NEW r \in Requests, PlayerStep(r) \/ ServerStep(r) PROVE RowSpecs
  <2>1. CASE Cancel(r)
    <3>1. PICK i \in DOMAIN queue : queue' = [queue EXCEPT ![i].status = "cancelled"]
      BY <2>1 DEF Cancel, Waiting
    <3> QED BY <1>2, <3>1
  <2>2. CASE Enqueue(r)
    <3>1. PICK row \in Row : queue' = Append(queue, row)
      BY <2>2, EnqueuedRow
    <3> QED BY <3>1, AppendProperties, LenProperties DEF QueueOK, RowSpecs
  <2>3. CASE ~Cancel(r) /\ ~Enqueue(r)
    BY <1>1, <1>4, <2>3 DEF PlayerStep, ServerStep, QuickJoin, AskLaunch, JoinByCode, Poll,
       LaunchOk, Admit, LaunchFailed, AnswerEnqueued
  <2> QED BY <2>1, <2>2, <2>3
<1>5. CASE DrainStep
  <2>1. CASE ScanRow \/ DrainAdmit
    BY <1>1, <1>3, <2>1 DEF ScanRow, DrainAdmit
  <2>2. CASE DrainLaunchFails
    <3>1. drain.head \in DOMAIN queue
      BY <2>2 DEF DrainLaunchFails, DrainOK
    <3> QED BY <1>1, <1>2, <2>2, <3>1 DEF DrainLaunchFails
  <2>3. CASE StartRun \/ ScanEnd \/ DrainLaunchOk
    BY <1>1, <2>3 DEF StartRun, ScanEnd, DrainLaunchOk
  <2> QED BY <1>5, <2>1, <2>2, <2>3 DEF DrainStep
<1>6. ASSUME NEW m \in Matches, HostUnregisters(m) PROVE RowSpecs
  BY <1>6, FailReadyRewrite DEF HostUnregisters, RowSpecs
<1>7. ASSUME NEW m \in Matches, HostRegisters(m) \/ MatchStops(m) PROVE RowSpecs
  BY <1>1, <1>7 DEF HostRegisters, MatchStops
<1>8. ASSUME NEW c \in Callers, HostReserve(c) PROVE RowSpecs
  BY <1>1, <1>8 DEF HostReserve
<1>9. Clock \/ UNCHANGED vars => RowSpecs
  BY <1>1 DEF Clock, matchVars, vars
<1> QED BY <1>4, <1>5, <1>6, <1>7, <1>8, <1>9, StepsWithoutFaults

LEMMA RoomAheadKept ==
    ASSUME DrainOK, CallsEnd, RoomAhead, RowSpecs, UNCHANGED drain,
           launch'[Drain] = launch[Drain],
           Len(chain) \in Nat, Len(chain') \in Nat, Len(chain') >= Len(chain),
           launch[Drain] \in Matches =>
               /\ hosted'[launch[Drain]].state # "unused"
               /\ hosted'[launch[Drain]].spec = hosted[launch[Drain]].spec
               /\ hosted'[launch[Drain]].state = "gone" =>
                      \/ hosted[launch[Drain]].state = "gone"
                      \/ Len(chain') >= 2,
           drain.pc = "admitting" => UNCHANGED tickets
    PROVE  RoomAhead'
<1> SUFFICES ASSUME launch[Drain] \in Matches
             PROVE  /\ hosted'[launch[Drain]].state # "unused"
                    /\ hosted'[launch[Drain]].spec = queue'[drain.head].spec
                    /\ drain.pc = "launching" /\ hosted'[launch[Drain]].state = "gone"
                           => Len(chain') >= 2
                    /\ drain.pc = "admitting" => \A t \in tickets' : t.match # launch[Drain]
  BY DEF RoomAhead
<1>1. launch[Drain] # "none"
  BY AnswersAreNoMatches DEF Answers
<1>2. drain.head \in DOMAIN queue
  BY <1>1 DEF CallsEnd, DrainOK
<1>3. hosted'[launch[Drain]].spec = queue'[drain.head].spec
  BY <1>2 DEF RoomAhead, RowSpecs
<1>4. drain.pc = "launching" /\ hosted'[launch[Drain]].state = "gone" => Len(chain') >= 2
  BY DEF RoomAhead
<1> QED BY <1>3, <1>4 DEF RoomAhead

LEMMA RoomAheadStep ==
    ASSUME MatchInv, CallsEnd, CodeFirst, OneTurn, RoomAhead, Faults = {}, [MatchNext]_vars
    PROVE  RoomAhead'
<1> USE DEF MatchInv, Shape
<1>1. RowSpecs /\ Len(chain) \in Nat
  BY StepKeepsSpecs, LenProperties DEF ChainOK
<1>2. Drain \in Callers /\ {"none", "sent", "refused"} \cap Matches = {}
  BY AnswersAreNoMatches DEF Callers, Answers
<1>3. launch'[Drain] \notin Matches => RoomAhead'
  BY DEF RoomAhead
<1>4. CASE Clock \/ UNCHANGED vars
  BY <1>1, <1>4, RoomAheadKept DEF Clock, Tick, matchVars, vars, RoomAhead
<1>5. ASSUME NEW r \in Requests, PlayerStep(r) \/ ServerStep(r) PROVE RoomAhead'
  <2>1. drain.pc = "admitting" => UNCHANGED tickets
    <3>1. drain.pc = "admitting" => InTurn /\ request[r].pc # "admitting"
      BY DEF InTurn, OneTurn
    <3>2. Admit(r) => request[r].pc = "admitting"
      BY DEF Admit
    <3>3. ~Admit(r) => ~InTurn
      BY <1>5 DEF PlayerStep, QuickJoin, AskLaunch, JoinByCode, Poll, Cancel, ServerStep,
         LaunchOk, Enqueue, LaunchFailed, AnswerEnqueued
    <3> QED BY <3>1, <3>2, <3>3
  <2>2. /\ UNCHANGED <<drain, hosted>> /\ launch'[Drain] = launch[Drain]
        /\ Len(chain') \in Nat /\ Len(chain') >= Len(chain)
    BY <1>5, PlayersLeaveRuns
  <2> QED BY <1>1, <2>1, <2>2, RoomAheadKept DEF RoomAhead
<1>6. CASE DrainStep
  <2>1. CASE StartRun \/ ScanRow
    <3>1. launch[Drain] = "none" /\ UNCHANGED launch
      BY <2>1 DEF StartRun, ScanRow, CallsEnd
    <3> QED BY <1>2, <1>3, <3>1
  <2>2. CASE ScanEnd
    <3>1. launch[Drain] = "none"
      BY <2>2 DEF ScanEnd, CallsEnd
    <3>2. UNCHANGED launch \/ launch' = [launch EXCEPT ![Drain] = "sent"]
      BY <2>2 DEF ScanEnd
    <3> QED BY <1>2, <1>3, <3>1, <3>2 DEF CallsOK
  <2>3. CASE DrainLaunchOk
    <3>1. /\ launch[Drain] \in Matches
          /\ UNCHANGED <<launch, hosted, queue>>
          /\ drain'.pc = "admitting" /\ drain'.head = drain.head
      BY <2>3 DEF DrainLaunchOk, Answered, DrainOK
    <3>2. UNCHANGED tickets /\ \A t \in tickets : t.match # launch[Drain]
      BY <2>3, <3>1, AssignKeepsCodeFirst DEF DrainLaunchOk
    <3> QED BY <3>1, <3>2 DEF RoomAhead
  <2>4. CASE DrainAdmit \/ DrainLaunchFails
    <3>1. launch' = [launch EXCEPT ![Drain] = "none"]
      BY <2>4 DEF DrainAdmit, DrainLaunchFails
    <3> QED BY <1>2, <1>3, <3>1 DEF CallsOK
  <2> QED BY <1>6, <2>1, <2>2, <2>3, <2>4 DEF DrainStep
<1>7. ASSUME NEW c \in Callers, HostReserve(c) PROVE RoomAhead'
  <2>1. UNCHANGED <<tickets, drain, chain, queue>> /\ launch[c] = "sent"
    BY <1>7 DEF HostReserve, storeVars
  <2>2. CASE UNCHANGED hosted
    <3>1. launch'[Drain] = launch[Drain] \/ launch'[Drain] = "refused"
      <4>1. ASSUME NEW m \in UnusedMatches, hosted'[m].state = "starting" PROVE FALSE
        BY <2>2, <4>1 DEF UnusedMatches
      <4> QED BY <1>2, <1>7, <4>1, HostTakes
    <3> QED BY <1>1, <1>2, <1>3, <2>1, <2>2, <3>1, RoomAheadKept DEF RoomAhead
  <2>3. ASSUME NEW m \in UnusedMatches, launch'[c] = m,
               hosted'[m].state = "starting", hosted'[m].spec = AskFor(c),
               \A x \in Matches : x # m => hosted'[x] = hosted[x]
        PROVE  RoomAhead'
    <3>1. m \in Matches /\ hosted[m].state = "unused"
      BY <2>3 DEF UnusedMatches
    <3>2. CASE c = Drain
      <4>1. drain.pc = "launching"
        BY <2>1, <3>2 DEF HandlersOK, CallHasCaller
      <4> QED BY <2>1, <2>3, <3>1, <3>2, <4>1 DEF RoomAhead, AskFor
    <3>3. CASE c # Drain
      <4>1. launch'[Drain] = launch[Drain]
        BY <1>2, <1>7, <3>3, HostTakes
      <4>2. launch[Drain] \in Matches => hosted'[launch[Drain]] = hosted[launch[Drain]]
        BY <2>3, <3>1 DEF RoomAhead
      <4> QED BY <1>1, <2>1, <4>1, <4>2, RoomAheadKept DEF RoomAhead
    <3> QED BY <3>2, <3>3
  <2> QED BY <1>7, <2>2, <2>3, HostTakes
<1>8. ASSUME NEW m \in Matches, HostUnregisters(m) PROVE RoomAhead'
  <2>1. /\ UNCHANGED <<drain, launch>> /\ HostTo(m, "gone")
        /\ chain' = Append(chain, m) /\ drain.pc # "admitting"
    BY <1>8 DEF HostUnregisters, OfferToQueue, InTurn
  <2>2. /\ hosted'[m].state = "gone" /\ hosted'[m].spec = hosted[m].spec
        /\ \A x \in Matches : x # m => hosted'[x] = hosted[x]
    BY <2>1, HostMoves
  <2>3. Len(chain') = Len(chain) + 1
    BY <2>1, AppendProperties DEF ChainOK
  <2>4. launch[Drain] \in Matches => Len(chain) >= 1
    <3>1. launch[Drain] \in Matches => chain # << >>
      BY <1>2 DEF CallsEnd, RunWasAskedFor
    <3> QED BY <1>1, <3>1, EmptySeq DEF ChainOK
  <2> QED BY <1>1, <2>1, <2>2, <2>3, <2>4, RoomAheadKept DEF RoomAhead
<1>9. ASSUME NEW m \in Matches, HostRegisters(m) \/ MatchStops(m) PROVE RoomAhead'
  <2>1. UNCHANGED <<drain, launch, chain, tickets>>
    BY <1>9 DEF HostRegisters, MatchStops, RegisterSession, storeVars
  <2>2. PICK state \in {"running", "stopped"} : HostTo(m, state)
    BY <1>9 DEF HostRegisters, MatchStops
  <2>3. /\ hosted'[m].state = state /\ hosted'[m].spec = hosted[m].spec
        /\ \A x \in Matches : x # m => hosted'[x] = hosted[x]
    BY <2>2, HostMoves
  <2> QED BY <1>1, <2>1, <2>3, RoomAheadKept DEF RoomAhead
<1> QED BY <1>4, <1>5, <1>6, <1>7, <1>8, <1>9, StepsWithoutFaults

(* Those who wait.                                                         *)
LEMMA HostStaysFull == UNCHANGED hosted => (HostFull <=> HostFull')
BY DEF HostFull, Load, UnusedMatches

(* A step that frees no place and shortens no chain leaves everybody       *)
(* covered, unless somebody new waits or is refused.                       *)
LEMMA StillCovered ==
    ASSUME WaitersCovered, Len(chain) \in Nat, Len(chain') \in Nat, Len(chain') >= Len(chain),
           HostFull => HostFull',
           \A m \in Matches : hosted[m].state = "stopped" => hosted'[m].state = "stopped",
           Waiting' # {} => Waiting # {} \/ Len(chain') >= 1,
           launch'[Drain] = "refused" => launch[Drain] = "refused"
    PROVE  WaitersCovered'
<1>1. Covered(1) => Covered(1)'
  BY DEF Covered
<1>2. Covered(2) => Covered(2)'
  BY DEF Covered
<1>3. Len(chain') >= 1 => Covered(1)'
  BY DEF Covered
<1> QED BY <1>1, <1>2, <1>3 DEF WaitersCovered

(* The chain still has whoever asked for a run while this one was going on. *)
LEMMA RunAfterThis ==
    ASSUME ChainOK, UNCHANGED hosted, chain # << >>, chain' = Tail(chain), Covered(2)
    PROVE  Covered(1)'
<1>1. Len(chain) \in Nat /\ Len(chain') = Len(chain) - 1
  BY HeadTailProperties, LenProperties DEF ChainOK
<1> QED BY <1>1, HostStaysFull DEF Covered

LEMMA NobodyBegins ==
    ASSUME QueueOK, StoreTypeOK, now' \in Nat, now <= now', RowsRest,
           DOMAIN queue' = DOMAIN queue, QueueOK'
    PROVE  Waiting' \subseteq Waiting
BY WaitersRemain DEF Waiting

(* The head of a run takes a seat of the room that was launched for it.    *)
LEMMA HeadIsAdmitted ==
    ASSUME StoreTypeOK, DrainOK, QueueOK, RoomIsThere, SessionsAreHosted, RoomAhead,
           drain.pc = "admitting"
    PROVE  ~Full(launch[Drain]) /\ Plays(launch[Drain], queue[drain.head].spec)
<1>1. PICK s \in sessions : s.match = launch[Drain]
  BY DEF RoomIsThere
<1>2. launch[Drain] \in Matches /\ s.spec \in Specs
  BY <1>1 DEF StoreTypeOK, Session
<1>3. s.spec = queue[drain.head].spec /\ \A t \in tickets : t.match # s.match
  BY <1>1, <1>2 DEF SessionsAreHosted, RoomAhead
<1>4. UsedSeats(s.match) = {}
  BY <1>3 DEF UsedSeats, Live
<1>5. 0 \in FreeSeats(s)
  BY <1>2, <1>4, SeatsOfType DEF FreeSeats
<1> QED BY <1>1, <1>3, <1>5 DEF Full, Plays

(* The launch of a run fails only because its match is over already.       *)
LEMMA FailedLaunchIsOver ==
    ASSUME CallsEnd, SessionsAreHosted, RoomAhead, Faults = {}, DrainLaunchFails,
           launch[Drain] # "refused"
    PROVE  Len(chain) >= 2
<1>1. launch[Drain] # "failed"
  BY DEF CallsEnd, Callers
<1>2. Answered(Drain) /\ launch[Drain] \notin Registered /\ drain.pc = "launching"
  BY <1>1 DEF DrainLaunchFails
<1>3. launch[Drain] \in Matches /\ hosted[launch[Drain]].state = "gone"
  BY <1>2 DEF Answered, SessionsAreHosted
<1> QED BY <1>2, <1>3 DEF RoomAhead

LEMMA DrainKeepsCovered ==
    ASSUME MatchInv, MatchInv', CallsEnd, SessionsAreHosted, RoomAhead, RoomIsThere,
           WaitersCovered, Faults = {}, DrainStep, now' \in Nat, now <= now'
    PROVE  WaitersCovered'
<1> USE DEF MatchInv, Shape
<1>1. UNCHANGED hosted /\ Len(chain) \in Nat
  BY LenProperties DEF DrainStep, StartRun, ScanRow, ScanEnd, DrainLaunchOk, DrainAdmit,
     DrainLaunchFails, ChainOK
<1>2. DOMAIN queue' = DOMAIN queue
  <2>1. CASE DrainLaunchFails
    <3>1. drain.head \in DOMAIN queue
      BY <2>1 DEF DrainLaunchFails, DrainOK
    <3> QED BY <2>1, <3>1, StatusRewrite DEF DrainLaunchFails
  <2>2. CASE ScanRow \/ DrainAdmit
    BY <2>2, FulfillRewrite DEF ScanRow, DrainAdmit
  <2>3. CASE StartRun \/ ScanEnd \/ DrainLaunchOk
    BY <2>3 DEF StartRun, ScanEnd, DrainLaunchOk
  <2> QED BY <2>1, <2>2, <2>3 DEF DrainStep
<1>3. Waiting' \subseteq Waiting
  BY <1>2, DrainRowsRest, NobodyBegins
<1>4. ASSUME UNCHANGED chain, launch'[Drain] = "refused" => launch[Drain] = "refused"
      PROVE  WaitersCovered'
  BY <1>1, <1>3, <1>4, HostStaysFull, StillCovered
<1>5. CASE StartRun \/ ScanRow \/ DrainLaunchOk
  BY <1>4, <1>5 DEF StartRun, ScanRow, DrainLaunchOk
<1>6. CASE ScanEnd
  <2>1. launch[Drain] = "none"
    BY <1>6 DEF ScanEnd, CallsEnd
  <2>2. launch'[Drain] # "refused"
    BY <1>6, <2>1 DEF ScanEnd, CallsOK, Callers
  <2>3. CASE Waiting = {}
    BY <1>3, <2>2, <2>3 DEF WaitersCovered
  <2>4. CASE UNCHANGED chain
    BY <1>4, <2>2, <2>4
  <2> QED BY <1>6, <2>3, <2>4 DEF ScanEnd
<1>7. CASE DrainAdmit
  <2>1. UNCHANGED chain
    BY <1>7, HeadIsAdmitted DEF DrainAdmit
  <2>2. launch'[Drain] # "refused"
    BY <1>7 DEF DrainAdmit, CallsOK, Callers
  <2> QED BY <1>4, <2>1, <2>2
<1>8. CASE DrainLaunchFails
  <2>1. chain' = Tail(chain) /\ chain # << >>
    BY <1>8 DEF DrainLaunchFails, EndRun, RunWasAskedFor
  <2>2. launch'[Drain] # "refused"
    BY <1>8 DEF DrainLaunchFails, CallsOK, Callers
  <2>3. Covered(2)
    BY <1>8, FailedLaunchIsOver DEF WaitersCovered, Covered
  <2>4. Covered(1)'
    BY <1>1, <2>1, <2>3, RunAfterThis
  <2> QED BY <2>2, <2>4 DEF WaitersCovered
<1> QED BY <1>5, <1>6, <1>7, <1>8 DEF DrainStep

LEMMA HostKeepsCovered ==
    ASSUME MatchInv, CallsEnd, SessionsAreHosted, WaitersCovered, now' = now,
           NEW m \in Matches, HostRegisters(m) \/ HostUnregisters(m) \/ MatchStops(m)
    PROVE  WaitersCovered'
<1> USE DEF MatchInv, Shape
<1>1. Len(chain) \in Nat
  BY LenProperties DEF ChainOK
<1>2. CASE HostRegisters(m)
  <2>1. /\ HostTo(m, "running") /\ hosted[m].state = "starting"
        /\ UNCHANGED <<queue, chain, launch>>
    BY <1>2 DEF HostRegisters
  <2>2. /\ hosted'[m].state = "running"
        /\ \A x \in Matches : x # m => hosted'[x] = hosted[x]
    BY <2>1, HostMoves
  <2>3. Busy' = Busy /\ UnusedMatches' = UnusedMatches
    BY <2>1, <2>2 DEF Busy, UnusedMatches
  <2>4. HostFull => HostFull'
    BY <2>3 DEF HostFull, Load, Busy
  <2> QED BY <1>1, <2>1, <2>2, <2>4, StillCovered DEF Waiting
<1>3. CASE HostUnregisters(m)
  <2>1. chain' = Append(chain, m) /\ UNCHANGED launch
    BY <1>3 DEF HostUnregisters, OfferToQueue
  <2>2. Len(chain') = Len(chain) + 1
    BY <2>1, AppendProperties DEF ChainOK
  <2>3. launch[Drain] = "refused" => Len(chain) >= 1
    <3>1. launch[Drain] = "refused" => chain # << >>
      BY DEF CallsEnd, RunWasAskedFor
    <3> QED BY <1>1, <3>1, EmptySeq DEF ChainOK
  <2> QED BY <1>1, <2>1, <2>2, <2>3 DEF WaitersCovered, Covered
<1>4. CASE MatchStops(m)
  <2>1. hosted'[m].state = "stopped"
    BY <1>4, HostMoves DEF MatchStops
  <2> QED BY <2>1 DEF WaitersCovered, Covered
<1> QED BY <1>2, <1>3, <1>4

LEMMA WaitersCoveredStep ==
    ASSUME MatchInv, MatchInv', RoomIsThere, IdleInv, Faults = {}, [MatchNext]_vars
    PROVE  WaitersCovered'
<1> USE DEF MatchInv, Shape, IdleInv
<1>1. Drain \in Callers /\ Len(chain) \in Nat
  BY LenProperties DEF ChainOK, Callers
<1>2. now' \in Nat /\ now <= now'
  BY MatchStoreStep, ShapeGivesType, ClockGoesOn
<1>3. CASE Clock \/ UNCHANGED vars
  <2>1. UNCHANGED <<queue, chain, launch, hosted>>
    BY <1>3 DEF Clock, matchVars, vars
  <2>2. Waiting' \subseteq Waiting
    BY <1>2, <2>1, SameRowsRest, NobodyBegins
  <2> QED BY <1>1, <2>1, <2>2, HostStaysFull, StillCovered
<1>4. ASSUME NEW r \in Requests, PlayerStep(r) \/ ServerStep(r) PROVE WaitersCovered'
  <2>1. /\ UNCHANGED hosted /\ launch'[Drain] = launch[Drain]
        /\ Len(chain') \in Nat /\ Len(chain') >= Len(chain)
        /\ Enqueue(r) => Len(chain') >= 1
    BY <1>4, PlayersLeaveRuns
  <2>2. ~Enqueue(r) => Waiting' \subseteq Waiting
    <3>1. CASE Cancel(r)
      <4>1. PICK i \in DOMAIN queue : queue' = [queue EXCEPT ![i].status = "cancelled"]
        BY <3>1 DEF Cancel, Waiting
      <4>2. RowsRest /\ DOMAIN queue' = DOMAIN queue
        BY <4>1, ResolvedRowsRest, StatusRewrite
      <4> QED BY <1>2, <4>2, NobodyBegins
    <3>2. CASE ~Cancel(r) /\ ~Enqueue(r)
      <4>1. UNCHANGED queue
        BY <1>4, <3>2 DEF PlayerStep, ServerStep, QuickJoin, AskLaunch, JoinByCode, Poll,
           LaunchOk, Admit, LaunchFailed, AnswerEnqueued
      <4> QED BY <1>2, <4>1, SameRowsRest, NobodyBegins
    <3> QED BY <3>1, <3>2
  <2> QED BY <1>1, <2>1, <2>2, HostStaysFull, StillCovered
<1>5. CASE DrainStep
  BY <1>2, <1>5, DrainKeepsCovered
<1>6. ASSUME NEW c \in Callers, HostReserve(c) PROVE WaitersCovered'
  <2>1. UNCHANGED <<now, queue, chain>>
    BY <1>6 DEF HostReserve, storeVars
  <2>2. Waiting' = Waiting
    BY <2>1 DEF Waiting
  <2>3. CASE HostFull /\ UNCHANGED hosted
    <3>1. HostFull'
      BY <2>3, HostStaysFull
    <3> QED BY <3>1 DEF WaitersCovered, Covered
  <2>4. ASSUME Load < Capacity, NEW m \in UnusedMatches, launch'[c] = m,
               \A x \in Matches : x # m => hosted'[x] = hosted[x]
        PROVE  WaitersCovered'
    <3>1. ~HostFull
      <4>1. Load \in Nat
        BY FS_CardinalityType DEF SessionsAreHosted, Load, Busy
      <4> QED BY <2>4, <4>1, CapacityType DEF HostFull
    <3>2. \A x \in Matches : hosted[x].state = "stopped" => hosted'[x].state = "stopped"
      BY <2>4 DEF UnusedMatches
    <3>3. launch'[Drain] = "refused" => launch[Drain] = "refused"
      <4>1. m # "refused"
        BY AnswersAreNoMatches DEF UnusedMatches, Answers
      <4>2. c # Drain => launch'[Drain] = launch[Drain]
        BY <1>1, <1>6, HostTakes
      <4> QED BY <2>4, <4>1, <4>2
    <3> QED BY <1>1, <2>1, <2>2, <3>1, <3>2, <3>3, StillCovered
  <2> QED BY <1>6, <2>3, <2>4, HostTakes
<1>7. ASSUME NEW m \in Matches, HostRegisters(m) \/ HostUnregisters(m) \/ MatchStops(m)
      PROVE  WaitersCovered'
  <2>1. now' = now
    BY <1>7 DEF HostRegisters, HostUnregisters, MatchStops, RegisterSession, UnregisterSession,
       storeVars
  <2> QED BY <1>7, <2>1, HostKeepsCovered
<1> QED BY <1>3, <1>4, <1>5, <1>6, <1>7, StepsWithoutFaults

LEMMA IdleStep ==
    ASSUME MatchInv, MatchInv', KeysAreUnique, TicketsHaveSessions, RoomIsThere, IdleInv,
           Faults = {}, [MatchNext]_vars
    PROVE  IdleInv'
BY CallsEndStep, SessionsAreHostedStep, RoomAheadStep, CodeFirstStep, OneTurnStep,
   WaitersCoveredStep DEF IdleInv

LEMMA IdleInit == MatchInit => IdleInv
<1> SUFFICES ASSUME MatchInit PROVE IdleInv
  OBVIOUS
<1>1. /\ queue = << >> /\ sessions = {} /\ tickets = {}
      /\ \A c \in Callers : launch[c] = "none"
      /\ \A m \in Matches : hosted[m].state = "unused"
      /\ \A r \in Requests : request[r].pc = "idle"
  BY DEF MatchInit, StoreInit
<1>2. launch[Drain] = "none" /\ "none" \notin Matches
  BY <1>1, AnswersAreNoMatches DEF Callers, Answers
<1>3. Busy = {}
  BY <1>1 DEF Busy
<1>4. IsFiniteSet(Busy)
  BY <1>3, FS_EmptySet
<1>5. Waiting = {}
  BY <1>1, EmptySeq DEF Waiting
<1> QED BY <1>1, <1>2, <1>4, <1>5 DEF IdleInv, CallsEnd, SessionsAreHosted, RoomAhead,
        CodeFirst, OneTurn, WaitersCovered

(* Nobody waits beside a free place: as long as no start fails, no call is *)
(* lost and no operator takes a seat, when everything has come to rest     *)
(* with a row still waiting, the host is full.  The drain runs that an     *)
(* enqueue and an unregistration ask for are enough, for any number of     *)
(* players, matches and places.                                            *)
THEOREM NobodyWaitsIdly ==
    ASSUME Faults = {}
    PROVE  MatchSpec => []NoIdleWait
<1>1. MatchSpec => [](KeysAreUnique /\ TicketsHaveSessions)
  BY MatchmakingRunsOnStore, Keys, TicketsBelong, PTL
<1>2. MatchSpec => []RoomIsThere
  <2>1. SeatsInv => RoomIsThere
    BY DEF SeatsInv
  <2> QED BY <2>1, SeatsInvariant, PTL
<1>3. /\ IdleInv /\ MatchInv /\ MatchInv' /\ KeysAreUnique /\ TicketsHaveSessions
      /\ RoomIsThere /\ [MatchNext]_vars
      => IdleInv'
  BY IdleStep
<1>4. MatchSpec => []IdleInv
  BY <1>1, <1>2, <1>3, IdleInit, MatchInvariant, PTL DEF MatchSpec
<1>5. IdleInv => NoIdleWait
  BY EmptySeq DEF IdleInv, WaitersCovered, Covered, HostFull, NoIdleWait, Quiet
<1> QED BY <1>4, <1>5, PTL
=============================================================================
