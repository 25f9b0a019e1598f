--------------------------- MODULE Matchmaking_proofs ---------------------------
(***************************************************************************)
(* Matchmaking runs on the store: whatever its handlers and drain runs do  *)
(* in between, the tables see only operations of MatchStore, so all that   *)
(* is proved of the store holds of matchmaking.  And what matchmaking      *)
(* promises its players, for any number of players, matches and specs: a   *)
(* row that reads ready is backed by a seat, and every ticket is held by   *)
(* exactly one of them.                                                    *)
(***************************************************************************)
EXTENDS Matchmaking, MatchStore_proofs

(* A ticket can be issued only for a match that has a session.             *)
LEMMA IssueIsStoreStep ==
    ASSUME StoreTypeOK, NEW m, NEW owner \in Owners, IssueTicket(m, owner)
    PROVE  StoreNext
<1>1. m \in Matches
  BY DEF IssueTicket, StoreTypeOK, Session
<1> QED BY <1>1 DEF StoreNext

LEMMA PlayerStoreStep ==
    ASSUME StoreTypeOK, NEW r \in Requests, PlayerStep(r)
    PROVE  StoreNext \/ UNCHANGED storeVars
<1>1. Identity[r] \in Owners
  BY IdentityType
<1>2. ASSUME NEW spec \in Specs, QuickJoin(r, spec) PROVE StoreNext
  BY <1>1, <1>2, IssueIsStoreStep DEF QuickJoin
<1>3. ASSUME NEW spec \in Specs, NEW kind \in Kinds, AskLaunch(r, kind, spec)
      PROVE  UNCHANGED storeVars
  BY <1>3 DEF AskLaunch
<1>4. ASSUME NEW s \in sessions, JoinByCode(r, s) PROVE StoreNext \/ UNCHANGED storeVars
  BY <1>1, <1>4, IssueIsStoreStep DEF JoinByCode
<1>5. CASE Poll(r)
  BY <1>5 DEF Poll
<1>6. CASE Cancel(r)
  BY <1>6 DEF Cancel
<1> QED BY <1>2, <1>3, <1>4, <1>5, <1>6 DEF PlayerStep

LEMMA ServerStoreStep ==
    ASSUME StoreTypeOK, NEW r \in Requests, ServerStep(r)
    PROVE  StoreNext \/ UNCHANGED storeVars
<1>1. Identity[r] \in Owners
  BY IdentityType
<1>2. CASE LaunchOk(r)
  <2>1. launch[r] \in Matches
    BY <1>2 DEF LaunchOk, Answered
  <2> QED BY <1>2, <2>1 DEF LaunchOk, StoreNext
<1>3. CASE Admit(r)
  BY <1>1, <1>3, IssueIsStoreStep DEF Admit
<1>4. CASE Enqueue(r)
  BY <1>4 DEF Enqueue
<1>5. CASE LaunchFailed(r)
  BY <1>5 DEF LaunchFailed
<1>6. CASE AnswerEnqueued(r)
  BY <1>6 DEF AnswerEnqueued
<1> QED BY <1>2, <1>3, <1>4, <1>5, <1>6 DEF ServerStep

LEMMA DrainStoreStep ==
    ASSUME StoreTypeOK, DrainStep
    PROVE  StoreNext \/ UNCHANGED storeVars
<1>1. ASSUME NEW i, NEW m, Fulfill(i, m) PROVE StoreNext
  BY <1>1, IssueIsStoreStep DEF Fulfill, Owners
<1>2. CASE StartRun
  BY <1>2 DEF StartRun
<1>3. CASE ScanRow
  BY <1>1, <1>3 DEF ScanRow
<1>4. CASE ScanEnd
  BY <1>4 DEF ScanEnd
<1>5. CASE DrainLaunchOk
  <2>1. launch[Drain] \in Matches
    BY <1>5 DEF DrainLaunchOk, Answered
  <2> QED BY <1>5, <2>1 DEF DrainLaunchOk, StoreNext
<1>6. CASE DrainAdmit
  BY <1>1, <1>6 DEF DrainAdmit
<1>7. CASE DrainLaunchFails
  BY <1>7 DEF DrainLaunchFails
<1> QED BY <1>2, <1>3, <1>4, <1>5, <1>6, <1>7 DEF DrainStep

LEMMA HostStoreStep ==
    ASSUME StoreTypeOK, NEW m \in Matches,
           HostDuty(m) \/ MatchStops(m) \/ OperatorIssues(m),
           hosted[m].spec \in Specs
    PROVE  StoreNext \/ UNCHANGED storeVars
<1>1. CASE HostStartFails(m)
  BY <1>1 DEF HostStartFails
<1>2. CASE HostRegisters(m)
  BY <1>2 DEF HostRegisters, StoreNext
<1>3. CASE HostUnregisters(m)
  BY <1>3 DEF HostUnregisters, StoreNext
<1>4. CASE UnregisterLost(m)
  BY <1>4 DEF UnregisterLost
<1>5. CASE MatchStops(m)
  BY <1>5 DEF MatchStops
<1>6. CASE OperatorIssues(m)
  BY <1>6, OperatorIsAnOwner, IssueIsStoreStep DEF OperatorIssues
<1> QED BY <1>1, <1>2, <1>3, <1>4, <1>5, <1>6 DEF HostDuty

LEMMA MatchStoreStep ==
    ASSUME StoreTypeOK, MatchTypeOK, [MatchNext]_vars
    PROVE  [StoreNext]_storeVars
<1>1. CASE Clock
  BY <1>1 DEF Clock, StoreNext
<1>2. ASSUME NEW r \in Requests, PlayerStep(r) \/ ServerStep(r) PROVE [StoreNext]_storeVars
  BY <1>2, PlayerStoreStep, ServerStoreStep
<1>3. CASE DrainStep
  BY <1>3, DrainStoreStep
<1>4. ASSUME NEW c \in Callers, HostReserve(c) PROVE [StoreNext]_storeVars
  BY <1>4 DEF HostReserve
<1>5. ASSUME NEW m \in Matches, HostDuty(m) \/ MatchStops(m) \/ OperatorIssues(m)
      PROVE  [StoreNext]_storeVars
  <2>1. hosted[m].spec \in Specs
    BY DEF MatchTypeOK
  <2> QED BY <1>5, <2>1, HostStoreStep
<1>6. CASE UNCHANGED vars
  BY <1>6 DEF vars, storeVars
<1> QED BY <1>1, <1>2, <1>3, <1>4, <1>5, <1>6 DEF MatchNext
-----------------------------------------------------------------------------
(* The inductive invariant.  MatchTypeOK is not inductive: a failed row    *)
(* may be rewritten only where it exists, a run may only end a chain it    *)
(* was taken from, and a host may be asked only for a spec that is known.  *)
(* The four conjuncts after the types say what that takes.                 *)

RequestType ==
    [pc : RequestStates, kind : {"quick", "create_room", "join"}, spec : Specs,
     ticket : 0 .. MaxTickets]

RequestsOK == request \in [Requests -> RequestType]

QueueOK == queue \in Seq(Row)

ChainOK == chain \in Seq(Requests \cup Matches)

DrainOK ==
    /\ drain \in [pc : {"idle", "scan", "launching", "admitting"},
                  todo : SUBSET DOMAIN queue, head : DOMAIN queue \cup {0}]
    /\ drain.pc \in {"launching", "admitting"} => drain.head # 0

CallsOK == launch \in [Callers -> Answers \cup Matches]

HostedOK == hosted \in [Matches -> [state : HostStates, spec : Specs]]

(* A run that has begun was asked for, so ending it shortens the chain.    *)
RunWasAskedFor == drain.pc # "idle" => chain # << >>

(* A call to the host that is not settled belongs to somebody who waits.   *)
CallHasCaller ==
    /\ launch[Drain] = "sent" => drain.pc = "launching"
    /\ \A r \in Requests : launch[r] # "none" => request[r].pc \in {"launching", "admitting"}

(* A player who joins by code is answered at once and never queued.        *)
JoinersDoNotWait ==
    \A r \in Requests : request[r].kind = "join" => request[r].pc \in {"joined", "failed"}

(* A player who waits has a row to be served through.                      *)
HasRow(r) == \E i \in DOMAIN queue : queue[i].request = r

WaiterHasRow ==
    \A r \in Requests : request[r].pc \in {"draining", "waiting"} => HasRow(r)

HandlersOK == CallHasCaller /\ JoinersDoNotWait /\ WaiterHasRow

Shape ==
    /\ RequestsOK /\ QueueOK /\ ChainOK /\ DrainOK /\ CallsOK /\ HostedOK
    /\ RunWasAskedFor /\ HandlersOK

MatchInv == StoreTypeOK /\ minted <= MaxTickets /\ Shape

LEMMA ShapeGivesType == Shape => MatchTypeOK
BY DEF Shape, MatchTypeOK, RequestsOK, RequestType, QueueOK, ChainOK, DrainOK, CallsOK, HostedOK

LEMMA MintedBounded ==
    ASSUME StoreTypeOK, minted <= MaxTickets, [StoreNext]_storeVars
    PROVE  minted' \in 0 .. MaxTickets
<1>1. minted' = minted \/ (CanMint /\ minted' = minted + 1)
  BY DEF StoreNext, storeVars, Tick, RegisterSession, UnregisterSession, AssignRoomCode,
     IssueTicket, ConsumeTicket, ReconnectTicket, RecordSettlement
<1> QED BY <1>1, BoundTypes DEF CanMint, StoreTypeOK

-----------------------------------------------------------------------------
(* What an operation does to the handlers, the rows and the calls.         *)

LEMMA MoveEffect ==
    ASSUME RequestsOK, NEW r \in Requests, NEW pc \in RequestStates, Move(r, pc)
    PROVE  /\ RequestsOK'
           /\ request'[r].pc = pc /\ request'[r].kind = request[r].kind
           /\ request'[r].ticket = request[r].ticket
           /\ \A x \in Requests : x # r => request'[x] = request[x]
<1>1. PICK c : c = [request[r] EXCEPT !.pc = pc]
  OBVIOUS
<1>2. /\ c \in RequestType /\ c.pc = pc /\ c.kind = request[r].kind
      /\ c.ticket = request[r].ticket
  BY <1>1 DEF RequestsOK, RequestType
<1>3. request' = [request EXCEPT ![r] = c]
  BY <1>1 DEF Move
<1> QED BY <1>2, <1>3 DEF RequestsOK

LEMMA MoveWithTicket ==
    ASSUME RequestsOK, NEW r \in Requests, NEW pc \in RequestStates,
           NEW ticket \in 0 .. MaxTickets,
           request' = [request EXCEPT ![r].pc = pc, ![r].ticket = ticket]
    PROVE  /\ RequestsOK'
           /\ request'[r].pc = pc /\ request'[r].kind = request[r].kind
           /\ request'[r].ticket = ticket
           /\ \A x \in Requests : x # r => request'[x] = request[x]
<1>1. PICK b : b = [request[r] EXCEPT !.pc = pc]
  OBVIOUS
<1>2. PICK g : g = [request EXCEPT ![r] = b]
  OBVIOUS
<1>3. b \in RequestType /\ b.pc = pc /\ b.kind = request[r].kind
  BY <1>1 DEF RequestsOK, RequestType
<1>4. g \in [Requests -> RequestType] /\ g[r] = b
  BY <1>2, <1>3 DEF RequestsOK
<1>5. PICK c : c = [b EXCEPT !.ticket = ticket]
  OBVIOUS
<1>6. c \in RequestType /\ c.pc = pc /\ c.kind = b.kind /\ c.ticket = ticket
  BY <1>3, <1>5 DEF RequestType
<1>7. request' = [g EXCEPT ![r] = c]
  BY <1>1, <1>2, <1>4, <1>5
<1> QED BY <1>2, <1>3, <1>4, <1>6, <1>7 DEF RequestsOK

LEMMA ArriveEffect ==
    ASSUME RequestsOK, NEW r \in Requests, NEW kind \in {"quick", "create_room", "join"},
           NEW spec \in Specs, NEW pc \in RequestStates, NEW ticket \in 0 .. MaxTickets,
           Arrive(r, kind, spec, pc, ticket)
    PROVE  /\ RequestsOK'
           /\ request'[r].pc = pc /\ request'[r].kind = kind
           /\ request'[r].ticket = ticket
           /\ \A x \in Requests : x # r => request'[x] = request[x]
<1>1. PICK c : c = [pc |-> pc, kind |-> kind, spec |-> spec, ticket |-> ticket]
  OBVIOUS
<1>2. c \in RequestType /\ c.pc = pc /\ c.kind = kind /\ c.ticket = ticket
  BY <1>1 DEF RequestType
<1>3. request' = [request EXCEPT ![r] = c]
  BY <1>1 DEF Arrive
<1> QED BY <1>2, <1>3 DEF RequestsOK

(* The rows stay where they are and whose they are.                        *)
RowsRemain ==
    \A i \in DOMAIN queue : i \in DOMAIN queue' /\ queue'[i].request = queue[i].request

LEMMA RowRewritten ==
    ASSUME QueueOK, NEW i \in DOMAIN queue, NEW row \in Row,
           row.request = queue[i].request, queue' = [queue EXCEPT ![i] = row]
    PROVE  QueueOK' /\ RowsRemain
<1>1. i \in 1 .. Len(queue)
  BY LenProperties DEF QueueOK
<1>2. queue' \in Seq(Row)
  BY <1>1, ExceptSeq DEF QueueOK
<1> QED BY <1>2 DEF QueueOK, RowsRemain

LEMMA StatusEffect ==
    ASSUME QueueOK, NEW i \in DOMAIN queue, NEW status \in RowStates,
           queue' = [queue EXCEPT ![i].status = status]
    PROVE  QueueOK' /\ RowsRemain
<1>1. queue[i] \in Row
  BY ElementOfSeq, LenProperties DEF QueueOK
<1>2. PICK row : row = [queue[i] EXCEPT !.status = status]
  OBVIOUS
<1>3. row \in Row /\ row.request = queue[i].request
  BY <1>1, <1>2 DEF Row
<1>4. queue' = [queue EXCEPT ![i] = row]
  BY <1>2
<1> QED BY <1>3, <1>4, RowRewritten

LEMMA FulfillEffect ==
    ASSUME QueueOK, StoreTypeOK, NEW i, NEW m, Fulfill(i, m), minted' \in 0 .. MaxTickets
    PROVE  QueueOK' /\ RowsRemain
<1>1. m \in Matches
  BY DEF Fulfill, IssueTicket, StoreTypeOK, Session
<1>2. i \in DOMAIN queue
  BY DEF Fulfill, Waiting
<1>3. queue[i] \in Row
  BY <1>2, ElementOfSeq, LenProperties DEF QueueOK
<1>4. PICK a : a = [queue[i] EXCEPT !.status = "ready"]
  OBVIOUS
<1>5. PICK b : b = [a EXCEPT !.match = m]
  OBVIOUS
<1>6. PICK row : row = [b EXCEPT !.ticket = minted']
  OBVIOUS
<1>7. a \in Row /\ a.request = queue[i].request
  BY <1>3, <1>4 DEF Row, RowStates
<1>8. b \in Row /\ b.request = a.request
  BY <1>1, <1>5, <1>7 DEF Row
<1>9. row \in Row /\ row.request = queue[i].request
  BY <1>6, <1>7, <1>8 DEF Row
<1>10. queue' = [queue EXCEPT ![i] = row]
  BY <1>2, <1>4, <1>5, <1>6 DEF Fulfill
<1> QED BY <1>2, <1>9, <1>10, RowRewritten

LEMMA FailReadyEffect ==
    ASSUME QueueOK, NEW m \in Matches, queue' = FailReadyRows(m)
    PROVE  QueueOK' /\ RowsRemain
<1>1. Len(queue) \in Nat /\ DOMAIN queue = 1 .. Len(queue)
  BY LenProperties DEF QueueOK
<1>2. ASSUME NEW i \in DOMAIN queue
      PROVE  queue'[i] \in Row /\ queue'[i].request = queue[i].request
  <2>1. queue[i] \in Row
    BY <1>1, ElementOfSeq DEF QueueOK
  <2>2. PICK a : a = [queue[i] EXCEPT !.status = "failed"]
    OBVIOUS
  <2>3. PICK row : row = [a EXCEPT !.ticket = NoTicket]
    OBVIOUS
  <2>4. a \in Row /\ a.request = queue[i].request
    BY <2>1, <2>2 DEF Row, RowStates
  <2>5. row \in Row /\ row.request = a.request
    BY <2>3, <2>4, BoundTypes DEF Row, NoTicket
  <2>6. queue'[i] = row \/ queue'[i] = queue[i]
    BY <2>2, <2>3 DEF FailReadyRows
  <2> QED BY <2>1, <2>4, <2>5, <2>6
<1>3. queue' \in [1 .. Len(queue) -> Row]
  BY <1>1, <1>2 DEF FailReadyRows
<1>4. queue' \in Seq(Row)
  BY <1>1, <1>3, SeqDef
<1> QED BY <1>1, <1>2, <1>3, <1>4 DEF QueueOK, RowsRemain

LEMMA NewRowEffect ==
    ASSUME QueueOK, RequestsOK, StoreTypeOK, NEW r \in Requests,
           request[r].kind # "join", queue' = Append(queue, NewRow(r))
    PROVE  QueueOK' /\ RowsRemain /\ HasRow(r)'
<1>1. PICK row : row = NewRow(r)
  OBVIOUS
<1>2. now + QueueTtl \in Nat /\ NoTicket \in 0 .. MaxTickets
  BY QueueTtlType, BoundTypes DEF StoreTypeOK, NoTicket
<1>3. request[r].kind \in {"quick", "create_room"} /\ request[r].spec \in Specs
  BY DEF RequestsOK, RequestType
<1>4. row \in Row /\ row.request = r
  BY <1>1, <1>2, <1>3 DEF NewRow, Row, RowStates
<1>5. queue' = Append(queue, row)
  BY <1>1
<1>6. /\ queue' \in Seq(Row)
      /\ Len(queue') = Len(queue) + 1
      /\ \A i \in 1 .. Len(queue) : queue'[i] = queue[i]
      /\ queue'[Len(queue) + 1] = row
  BY <1>4, <1>5, AppendProperties DEF QueueOK
<1>7. /\ Len(queue) \in Nat
      /\ DOMAIN queue = 1 .. Len(queue)
      /\ DOMAIN queue' = 1 .. Len(queue) + 1
  BY <1>6, LenProperties DEF QueueOK
<1> QED BY <1>4, <1>6, <1>7 DEF QueueOK, RowsRemain, HasRow

LEMMA CallEffect ==
    ASSUME CallsOK, NEW c \in Callers, NEW answer \in Answers \cup Matches,
           launch' = [launch EXCEPT ![c] = answer]
    PROVE  /\ CallsOK'
           /\ launch'[c] = answer
           /\ \A x \in Callers : x # c => launch'[x] = launch[x]
BY DEF CallsOK

-----------------------------------------------------------------------------
(* What stays when an operation leaves something alone.                    *)

LEMMA NothingMoves == Shape /\ UNCHANGED matchVars => Shape'
BY DEF Shape, matchVars, RequestsOK, QueueOK, ChainOK, DrainOK, CallsOK, HostedOK,
   RunWasAskedFor, HandlersOK, CallHasCaller, JoinersDoNotWait, WaiterHasRow, HasRow

LEMMA QueueStays == QueueOK /\ UNCHANGED queue => QueueOK' /\ RowsRemain
BY DEF QueueOK, RowsRemain

LEMMA ChainStays == ChainOK /\ UNCHANGED chain => ChainOK'
BY DEF ChainOK

LEMMA RequestsStay == RequestsOK /\ UNCHANGED request => RequestsOK'
BY DEF RequestsOK

LEMMA CallsStay == CallsOK /\ UNCHANGED launch => CallsOK'
BY DEF CallsOK

LEMMA HostedStays == HostedOK /\ UNCHANGED hosted => HostedOK'
BY DEF HostedOK

LEMMA RunStays ==
    ASSUME DrainOK, RunWasAskedFor, RowsRemain, UNCHANGED drain, chain' = chain \/ chain' # << >>
    PROVE  DrainOK' /\ RunWasAskedFor'
<1>1. DOMAIN queue \subseteq DOMAIN queue'
  BY DEF RowsRemain
<1> QED BY <1>1 DEF DrainOK, RunWasAskedFor

(* A step of one player's handler.                                         *)
LEMMA OneHandlerMoves ==
    ASSUME HandlersOK, RowsRemain, UNCHANGED drain, NEW r \in Requests,
           \A x \in Requests : x # r => request'[x] = request[x],
           \A c \in Callers : c # r => launch'[c] = launch[c],
           launch'[r] # "none" => request'[r].pc \in {"launching", "admitting"},
           request'[r].kind = "join" => request'[r].pc \in {"joined", "failed"},
           request'[r].pc \in {"draining", "waiting"} => HasRow(r)'
    PROVE  HandlersOK'
<1>1. Drain \in Callers /\ Drain # r /\ Requests \subseteq Callers
  BY DrainIsNoRequest DEF Callers
<1>2. CallHasCaller'
  BY <1>1 DEF HandlersOK, CallHasCaller
<1>3. JoinersDoNotWait'
  BY DEF HandlersOK, JoinersDoNotWait
<1>4. WaiterHasRow'
  BY DEF HandlersOK, WaiterHasRow, RowsRemain, HasRow
<1> QED BY <1>2, <1>3, <1>4 DEF HandlersOK

(* A step of the drain run or of the host: no handler moves.               *)
LEMMA NoHandlerMoves ==
    ASSUME HandlersOK, RowsRemain, UNCHANGED request,
           launch'[Drain] = "sent" => drain'.pc = "launching",
           \A r \in Requests : launch'[r] # "none" => launch[r] # "none"
    PROVE  HandlersOK'
<1>1. CallHasCaller'
  BY DEF HandlersOK, CallHasCaller
<1>2. JoinersDoNotWait'
  BY DEF HandlersOK, JoinersDoNotWait
<1>3. WaiterHasRow'
  BY DEF HandlersOK, WaiterHasRow, RowsRemain, HasRow
<1> QED BY <1>1, <1>2, <1>3 DEF HandlersOK

-----------------------------------------------------------------------------
(* The players' handlers.                                                  *)

LEMMA QuickJoinKeeps ==
    ASSUME MatchInv, minted' \in 0 .. MaxTickets, NEW r \in Requests, NEW spec \in Specs,
           QuickJoin(r, spec)
    PROVE  Shape'
<1> USE DEF QuickJoin, MatchInv, Shape
<1>1. /\ RequestsOK'
      /\ request'[r].pc = "joined" /\ request'[r].kind = "quick"
      /\ \A x \in Requests : x # r => request'[x] = request[x]
  BY ArriveEffect DEF RequestStates
<1>2. launch'[r] = "none"
  BY DEF HandlersOK, CallHasCaller
<1>3. QueueOK' /\ RowsRemain
  BY QueueStays
<1>4. DrainOK' /\ RunWasAskedFor'
  BY <1>3, RunStays
<1>5. HandlersOK'
  BY <1>1, <1>2, <1>3, OneHandlerMoves
<1> QED BY <1>1, <1>3, <1>4, <1>5, ChainStays, CallsStay, HostedStays

LEMMA AskLaunchKeeps ==
    ASSUME MatchInv, NEW r \in Requests, NEW kind \in Kinds, NEW spec \in Specs,
           AskLaunch(r, kind, spec)
    PROVE  Shape'
<1> USE DEF AskLaunch, MatchInv, Shape
<1>1. /\ RequestsOK'
      /\ request'[r].pc = "launching" /\ request'[r].kind = kind
      /\ \A x \in Requests : x # r => request'[x] = request[x]
  BY ArriveEffect, KindsType, BoundTypes DEF RequestStates, NoTicket
<1>2. kind # "join"
  BY KindsType
<1>3. CallsOK' /\ \A c \in Callers : c # r => launch'[c] = launch[c]
  BY CallEffect DEF Callers, Answers
<1>4. QueueOK' /\ RowsRemain
  BY QueueStays
<1>5. DrainOK' /\ RunWasAskedFor'
  BY <1>4, RunStays
<1>6. HandlersOK'
  BY <1>1, <1>2, <1>3, <1>4, OneHandlerMoves
<1> QED BY <1>1, <1>3, <1>4, <1>5, <1>6, ChainStays, HostedStays

LEMMA JoinByCodeKeeps ==
    ASSUME MatchInv, minted' \in 0 .. MaxTickets, NEW r \in Requests, NEW s \in sessions,
           JoinByCode(r, s)
    PROVE  Shape'
<1> USE DEF JoinByCode, MatchInv, Shape
<1>1. s.spec \in Specs
  BY DEF StoreTypeOK, Session
<1>2. /\ RequestsOK'
      /\ request'[r].pc \in {"joined", "failed"}
      /\ \A x \in Requests : x # r => request'[x] = request[x]
  <2>1. CASE Arrive(r, "join", s.spec, "joined", minted')
    BY <1>1, <2>1, ArriveEffect DEF RequestStates
  <2>2. CASE Arrive(r, "join", s.spec, "failed", NoTicket)
    BY <1>1, <2>2, ArriveEffect, BoundTypes DEF RequestStates, NoTicket
  <2> QED BY <2>1, <2>2
<1>3. launch'[r] = "none"
  BY DEF HandlersOK, CallHasCaller
<1>4. QueueOK' /\ RowsRemain
  BY QueueStays
<1>5. DrainOK' /\ RunWasAskedFor'
  BY <1>4, RunStays
<1>6. HandlersOK'
  BY <1>2, <1>3, <1>4, OneHandlerMoves
<1> QED BY <1>2, <1>4, <1>5, <1>6, ChainStays, CallsStay, HostedStays

LEMMA LaunchOkKeeps ==
    ASSUME MatchInv, NEW r \in Requests, LaunchOk(r)
    PROVE  Shape'
<1> USE DEF LaunchOk, MatchInv, Shape
<1>1. QueueOK' /\ RowsRemain
  BY QueueStays
<1>2. DrainOK' /\ RunWasAskedFor'
  BY <1>1, RunStays
<1>3. request[r].kind # "join"
  BY DEF HandlersOK, JoinersDoNotWait
<1>4. RequestsOK' /\ CallsOK' /\ HandlersOK'
  <2>1. CASE Move(r, "admitting") /\ UNCHANGED launch
    <3>1. /\ RequestsOK'
          /\ request'[r].pc = "admitting" /\ request'[r].kind = request[r].kind
          /\ \A x \in Requests : x # r => request'[x] = request[x]
      BY <2>1, MoveEffect DEF RequestStates
    <3>2. HandlersOK'
      BY <1>1, <1>3, <2>1, <3>1, OneHandlerMoves
    <3> QED BY <2>1, <3>1, <3>2, CallsStay
  <2>2. CASE Move(r, "failed") /\ launch' = [launch EXCEPT ![r] = "none"]
    <3>1. /\ RequestsOK'
          /\ request'[r].pc = "failed" /\ request'[r].kind = request[r].kind
          /\ \A x \in Requests : x # r => request'[x] = request[x]
      BY <2>2, MoveEffect DEF RequestStates
    <3>2. CallsOK' /\ launch'[r] = "none" /\ \A c \in Callers : c # r => launch'[c] = launch[c]
      BY <2>2, CallEffect DEF Callers, Answers
    <3>3. HandlersOK'
      BY <1>1, <3>1, <3>2, OneHandlerMoves
    <3> QED BY <3>1, <3>2, <3>3
  <2> QED BY <2>1, <2>2
<1> QED BY <1>1, <1>2, <1>4, ChainStays, HostedStays

LEMMA AdmitKeeps ==
    ASSUME MatchInv, minted' \in 0 .. MaxTickets, NEW r \in Requests, Admit(r)
    PROVE  Shape'
<1> USE DEF Admit, MatchInv, Shape
<1>1. /\ RequestsOK'
      /\ request'[r].pc \in {"joined", "failed"}
      /\ \A x \in Requests : x # r => request'[x] = request[x]
  <2>1. CASE request' = [request EXCEPT ![r].pc = "joined", ![r].ticket = minted']
    BY <2>1, MoveWithTicket DEF RequestStates
  <2>2. CASE Move(r, "failed")
    BY <2>2, MoveEffect DEF RequestStates
  <2> QED BY <2>1, <2>2
<1>2. CallsOK' /\ launch'[r] = "none" /\ \A c \in Callers : c # r => launch'[c] = launch[c]
  BY CallEffect DEF Callers, Answers
<1>3. QueueOK' /\ RowsRemain
  BY QueueStays
<1>4. DrainOK' /\ RunWasAskedFor'
  BY <1>3, RunStays
<1>5. HandlersOK'
  BY <1>1, <1>2, <1>3, OneHandlerMoves
<1> QED BY <1>1, <1>2, <1>3, <1>4, <1>5, ChainStays, HostedStays

LEMMA EnqueueKeeps ==
    ASSUME MatchInv, NEW r \in Requests, Enqueue(r)
    PROVE  Shape'
<1> USE DEF Enqueue, MatchInv, Shape
<1>1. request[r].kind # "join"
  BY DEF HandlersOK, CallHasCaller, JoinersDoNotWait
<1>2. QueueOK' /\ RowsRemain /\ HasRow(r)'
  BY <1>1, NewRowEffect
<1>3. /\ RequestsOK'
      /\ request'[r].pc = "draining" /\ request'[r].kind = request[r].kind
      /\ \A x \in Requests : x # r => request'[x] = request[x]
  BY MoveEffect DEF RequestStates
<1>4. CallsOK' /\ launch'[r] = "none" /\ \A c \in Callers : c # r => launch'[c] = launch[c]
  BY CallEffect DEF Callers, Answers
<1>5. ChainOK' /\ chain' # << >>
  BY AppendProperties DEF ChainOK
<1>6. DrainOK' /\ RunWasAskedFor'
  BY <1>2, <1>5, RunStays
<1>7. HandlersOK'
  BY <1>1, <1>2, <1>3, <1>4, OneHandlerMoves
<1> QED BY <1>2, <1>3, <1>4, <1>5, <1>6, <1>7, HostedStays

LEMMA LaunchFailedKeeps ==
    ASSUME MatchInv, NEW r \in Requests, LaunchFailed(r)
    PROVE  Shape'
<1> USE DEF LaunchFailed, MatchInv, Shape
<1>1. /\ RequestsOK'
      /\ request'[r].pc = "failed" /\ request'[r].kind = request[r].kind
      /\ \A x \in Requests : x # r => request'[x] = request[x]
  BY MoveEffect DEF RequestStates
<1>2. CallsOK' /\ launch'[r] = "none" /\ \A c \in Callers : c # r => launch'[c] = launch[c]
  BY CallEffect DEF Callers, Answers
<1>3. QueueOK' /\ RowsRemain
  BY QueueStays
<1>4. DrainOK' /\ RunWasAskedFor'
  BY <1>3, RunStays
<1>5. HandlersOK'
  BY <1>1, <1>2, <1>3, OneHandlerMoves
<1> QED BY <1>1, <1>2, <1>3, <1>4, <1>5, ChainStays, HostedStays

LEMMA LearnKeeps ==
    ASSUME MatchInv, NEW r \in Requests, request[r].pc \in {"draining", "waiting"}, Learn(r),
           UNCHANGED <<queue, chain, drain, launch, hosted>>
    PROVE  Shape'
<1> USE DEF MatchInv, Shape
<1>1. HasRow(r) /\ request[r].kind # "join" /\ launch[r] = "none"
  <2>1. r \in Callers
    BY DEF Callers
  <2> QED BY <2>1 DEF HandlersOK, WaiterHasRow, JoinersDoNotWait, CallHasCaller
<1>2. RowOf(r) \in DOMAIN queue
  BY <1>1 DEF HasRow, RowOf
<1>3. queue[RowOf(r)].ticket \in 0 .. MaxTickets
  <2>1. queue[RowOf(r)] \in Row
    BY <1>2, ElementOfSeq, LenProperties DEF QueueOK
  <2> QED BY <2>1 DEF Row
<1>4. /\ RequestsOK'
      /\ request'[r].kind = request[r].kind
      /\ \A x \in Requests : x # r => request'[x] = request[x]
      /\ request'[r].pc \in {"joined", "failed", "waiting", "left"}
  <2>1. CASE request' = [request EXCEPT ![r].pc = "joined", ![r].ticket = queue[RowOf(r)].ticket]
    BY <1>3, <2>1, MoveWithTicket DEF RequestStates
  <2>2. CASE Move(r, "failed")
    BY <2>2, MoveEffect DEF RequestStates
  <2>3. CASE Move(r, "waiting")
    BY <2>3, MoveEffect DEF RequestStates
  <2>4. CASE Move(r, "left")
    BY <2>4, MoveEffect DEF RequestStates
  <2> QED BY <2>1, <2>2, <2>3, <2>4 DEF Learn
<1>5. QueueOK' /\ RowsRemain /\ HasRow(r)'
  BY <1>1, QueueStays DEF HasRow
<1>6. DrainOK' /\ RunWasAskedFor'
  BY <1>5, RunStays
<1>7. HandlersOK'
  BY <1>1, <1>4, <1>5, OneHandlerMoves
<1> QED BY <1>4, <1>5, <1>6, <1>7, ChainStays, CallsStay, HostedStays

LEMMA CancelKeeps ==
    ASSUME MatchInv, NEW r \in Requests, Cancel(r)
    PROVE  Shape'
<1> USE DEF Cancel, MatchInv, Shape
<1>1. QueueOK' /\ RowsRemain
  BY StatusEffect DEF Waiting, RowStates
<1>2. /\ RequestsOK'
      /\ request'[r].pc = "left" /\ request'[r].kind = request[r].kind
      /\ \A x \in Requests : x # r => request'[x] = request[x]
  BY MoveEffect DEF RequestStates
<1>3. launch'[r] = "none" /\ request[r].kind # "join"
  BY DEF HandlersOK, CallHasCaller, JoinersDoNotWait
<1>4. DrainOK' /\ RunWasAskedFor'
  BY <1>1, RunStays
<1>5. HandlersOK'
  BY <1>1, <1>2, <1>3, OneHandlerMoves
<1> QED BY <1>1, <1>2, <1>4, <1>5, ChainStays, CallsStay, HostedStays

-----------------------------------------------------------------------------
(* The drain run.                                                          *)

LEMMA WaitingRows == Waiting \subseteq DOMAIN queue
BY DEF Waiting

LEMMA RunMoves ==
    ASSUME NEW pc \in {"idle", "scan", "launching", "admitting"},
           NEW todo \in SUBSET DOMAIN queue', NEW head \in DOMAIN queue' \cup {0},
           pc \in {"launching", "admitting"} => head # 0,
           pc # "idle" => chain' # << >>,
           DrainTo(pc, todo, head)
    PROVE  DrainOK' /\ RunWasAskedFor' /\ drain'.pc = pc
BY DEF DrainTo, DrainOK, RunWasAskedFor

(* Taking the run off the chain needs RunWasAskedFor.                      *)
LEMMA EndRunEffect ==
    ASSUME ChainOK, RunWasAskedFor, drain.pc # "idle", EndRun
    PROVE  ChainOK' /\ DrainOK' /\ RunWasAskedFor' /\ drain'.pc = "idle"
<1>1. ChainOK'
  BY HeadTailProperties DEF ChainOK, RunWasAskedFor, EndRun
<1>2. DrainTo("idle", {}, 0)
  BY DEF EndRun
<1> QED BY <1>1, <1>2, RunMoves

LEMMA StartRunKeeps ==
    ASSUME MatchInv, StartRun
    PROVE  Shape'
<1> USE DEF StartRun, MatchInv, Shape
<1>1. QueueOK' /\ RowsRemain
  BY QueueStays
<1>2. DrainOK' /\ RunWasAskedFor' /\ drain'.pc = "scan"
  BY RunMoves, WaitingRows
<1>3. HandlersOK'
  <2>1. launch[Drain] # "sent"
    BY DEF HandlersOK, CallHasCaller
  <2> QED BY <1>1, <2>1, NoHandlerMoves
<1> QED BY <1>1, <1>2, <1>3, RequestsStay, ChainStays, CallsStay, HostedStays

LEMMA ScanRowKeeps ==
    ASSUME MatchInv, minted' \in 0 .. MaxTickets, ScanRow
    PROVE  Shape'
<1> USE DEF ScanRow, MatchInv, Shape
<1>1. PICK i \in First(drain.todo) : DrainTo("scan", drain.todo \ {i}, 0)
  OBVIOUS
<1>2. QueueOK' /\ RowsRemain
  BY QueueStays, FulfillEffect
<1>3. drain.todo \ {i} \in SUBSET DOMAIN queue'
  BY <1>2 DEF DrainOK, RowsRemain
<1>4. chain' # << >>
  BY DEF RunWasAskedFor
<1>5. DrainOK' /\ RunWasAskedFor' /\ drain'.pc = "scan"
  BY <1>1, <1>3, <1>4, RunMoves
<1>6. HandlersOK'
  <2>1. launch[Drain] # "sent"
    BY DEF HandlersOK, CallHasCaller
  <2> QED BY <1>2, <2>1, NoHandlerMoves
<1> QED BY <1>2, <1>5, <1>6, RequestsStay, ChainStays, CallsStay, HostedStays

LEMMA ScanEndKeeps ==
    ASSUME MatchInv, ScanEnd
    PROVE  Shape'
<1> USE DEF ScanEnd, MatchInv, Shape
<1>1. QueueOK' /\ RowsRemain
  BY QueueStays
<1>2. launch[Drain] # "sent"
  BY DEF HandlersOK, CallHasCaller
<1>3. ChainOK' /\ DrainOK' /\ RunWasAskedFor' /\ CallsOK' /\ HandlersOK'
  <2>1. CASE EndRun /\ UNCHANGED launch
    <3>1. ChainOK' /\ DrainOK' /\ RunWasAskedFor'
      BY <2>1, EndRunEffect
    <3>2. HandlersOK'
      BY <1>1, <1>2, <2>1, NoHandlerMoves
    <3> QED BY <2>1, <3>1, <3>2, CallsStay
  <2>2. CASE DrainTo("scan", Waiting, 0) /\ UNCHANGED <<chain, launch>>
    <3>1. DrainOK' /\ RunWasAskedFor'
      BY <2>2, RunMoves, WaitingRows DEF RunWasAskedFor
    <3>2. HandlersOK'
      BY <1>1, <1>2, <2>2, NoHandlerMoves
    <3> QED BY <2>2, <3>1, <3>2, ChainStays, CallsStay
  <2>3. ASSUME NEW head \in First(Waiting), DrainTo("launching", {}, head),
               launch' = [launch EXCEPT ![Drain] = "sent"], UNCHANGED chain
        PROVE  ChainOK' /\ DrainOK' /\ RunWasAskedFor' /\ CallsOK' /\ HandlersOK'
    <3>1. head \in DOMAIN queue' /\ head # 0
      BY LenProperties, WaitingRows DEF First, QueueOK
    <3>2. chain' # << >>
      BY <2>3 DEF RunWasAskedFor
    <3>3. DrainOK' /\ RunWasAskedFor' /\ drain'.pc = "launching"
      BY <2>3, <3>1, <3>2, RunMoves
    <3>4. CallsOK' /\ \A c \in Callers : c # Drain => launch'[c] = launch[c]
      BY <2>3, CallEffect DEF Callers, Answers
    <3>5. HandlersOK'
      BY <1>1, <3>3, <3>4, NoHandlerMoves, DrainIsNoRequest DEF Callers
    <3> QED BY <2>3, <3>3, <3>4, <3>5, ChainStays
  <2> QED BY <2>1, <2>2, <2>3
<1> QED BY <1>1, <1>3, RequestsStay, HostedStays

LEMMA DrainLaunchOkKeeps ==
    ASSUME MatchInv, DrainLaunchOk
    PROVE  Shape'
<1> USE DEF DrainLaunchOk, MatchInv, Shape
<1>1. QueueOK' /\ RowsRemain
  BY QueueStays
<1>2. DrainOK' /\ RunWasAskedFor'
  BY DEF DrainOK, RunWasAskedFor
<1>3. launch[Drain] # "sent"
  BY AnswersAreNoMatches DEF Answered, Answers
<1>4. HandlersOK'
  BY <1>1, <1>3, NoHandlerMoves
<1> QED BY <1>1, <1>2, <1>4, RequestsStay, ChainStays, CallsStay, HostedStays

LEMMA DrainAdmitKeeps ==
    ASSUME MatchInv, minted' \in 0 .. MaxTickets, DrainAdmit
    PROVE  Shape'
<1> USE DEF DrainAdmit, MatchInv, Shape
<1>1. QueueOK' /\ RowsRemain
  BY QueueStays, FulfillEffect
<1>2. ChainOK' /\ DrainOK' /\ RunWasAskedFor'
  <2>1. CASE EndRun
    BY <2>1, EndRunEffect
  <2>2. ASSUME NEW todo \in SUBSET DOMAIN queue', DrainTo("scan", todo, 0), UNCHANGED chain
        PROVE  ChainOK' /\ DrainOK' /\ RunWasAskedFor'
    <3>1. chain' # << >>
      BY <2>2 DEF RunWasAskedFor
    <3> QED BY <2>2, <3>1, RunMoves, ChainStays
  <2>3. Waiting' \in SUBSET DOMAIN queue'
    BY DEF Waiting
  <2>4. UNCHANGED queue => Waiting \in SUBSET DOMAIN queue'
    BY WaitingRows
  <2> QED BY <2>1, <2>2, <2>3, <2>4
<1>3. CallsOK' /\ launch'[Drain] = "none" /\ \A c \in Callers : c # Drain => launch'[c] = launch[c]
  BY CallEffect DEF Callers, Answers
<1>4. HandlersOK'
  BY <1>1, <1>3, NoHandlerMoves, DrainIsNoRequest DEF Callers
<1> QED BY <1>1, <1>2, <1>3, <1>4, RequestsStay, HostedStays

LEMMA DrainLaunchFailsKeeps ==
    ASSUME MatchInv, DrainLaunchFails
    PROVE  Shape'
<1> USE DEF DrainLaunchFails, MatchInv, Shape
<1>1. drain.head \in DOMAIN queue
  BY DEF DrainOK
<1>2. QueueOK' /\ RowsRemain
  BY <1>1, QueueStays, StatusEffect DEF RowStates
<1>3. ChainOK' /\ DrainOK' /\ RunWasAskedFor'
  BY EndRunEffect
<1>4. CallsOK' /\ launch'[Drain] = "none" /\ \A c \in Callers : c # Drain => launch'[c] = launch[c]
  BY CallEffect DEF Callers, Answers
<1>5. HandlersOK'
  BY <1>2, <1>4, NoHandlerMoves, DrainIsNoRequest DEF Callers
<1> QED BY <1>2, <1>3, <1>4, <1>5, RequestsStay, HostedStays

-----------------------------------------------------------------------------
(* The match host.                                                         *)

LEMMA HostToEffect ==
    ASSUME HostedOK, NEW m \in Matches, NEW state \in HostStates, HostTo(m, state)
    PROVE  HostedOK'
<1>1. PICK h : h = [hosted[m] EXCEPT !.state = state]
  OBVIOUS
<1>2. h \in [state : HostStates, spec : Specs]
  BY <1>1 DEF HostedOK
<1>3. hosted' = [hosted EXCEPT ![m] = h]
  BY <1>1 DEF HostTo
<1> QED BY <1>2, <1>3 DEF HostedOK

(* A call in flight belongs to a launching run, whose head is a row, or to *)
(* a request.                                                              *)
LEMMA SpecAskedFor ==
    ASSUME Shape, NEW c \in Callers, launch[c] = "sent"
    PROVE  AskFor(c) \in Specs
<1> USE DEF Shape
<1>1. CASE c = Drain
  <2>1. drain.head \in DOMAIN queue
    BY <1>1 DEF HandlersOK, CallHasCaller, DrainOK
  <2>2. queue[drain.head] \in Row
    BY <2>1, ElementOfSeq, LenProperties DEF QueueOK
  <2> QED BY <1>1, <2>2 DEF AskFor, Row
<1>2. CASE c \in Requests
  BY <1>2, DrainIsNoRequest DEF AskFor, RequestsOK, RequestType
<1> QED BY <1>1, <1>2 DEF Callers

LEMMA HostReserveKeeps ==
    ASSUME MatchInv, NEW c \in Callers, HostReserve(c)
    PROVE  Shape'
<1> USE DEF HostReserve, MatchInv, Shape
<1>1. QueueOK' /\ RowsRemain
  BY QueueStays
<1>2. DrainOK' /\ RunWasAskedFor'
  BY <1>1, RunStays
<1>3. HostedOK'
  <2>1. ASSUME NEW m \in UnusedMatches,
               hosted' = [hosted EXCEPT ![m] = [state |-> "starting", spec |-> AskFor(c)]]
        PROVE  HostedOK'
    <3>1. PICK h : h = [state |-> "starting", spec |-> AskFor(c)]
      OBVIOUS
    <3>2. h \in [state : HostStates, spec : Specs]
      BY <3>1, SpecAskedFor DEF HostStates
    <3> QED BY <2>1, <3>1, <3>2 DEF HostedOK, UnusedMatches
  <2> QED BY <2>1, HostedStays
<1>4. PICK answer \in Matches \cup {"refused"} : launch' = [launch EXCEPT ![c] = answer]
  BY DEF UnusedMatches
<1>5. /\ CallsOK' /\ launch'[c] # "sent"
      /\ \A x \in Callers : x # c => launch'[x] = launch[x]
  BY <1>4, CallEffect, AnswersAreNoMatches DEF Answers
<1>6. HandlersOK'
  <2>1. launch'[Drain] = "sent" => drain'.pc = "launching"
    BY <1>5 DEF HandlersOK, CallHasCaller, Callers
  <2>2. \A r \in Requests : launch'[r] # "none" => launch[r] # "none"
    BY <1>5 DEF Callers
  <2> QED BY <1>1, <2>1, <2>2, NoHandlerMoves
<1> QED BY <1>1, <1>2, <1>3, <1>5, <1>6, RequestsStay, ChainStays

LEMMA HostStartFailsKeeps ==
    ASSUME MatchInv, NEW m \in Matches, HostStartFails(m)
    PROVE  Shape'
<1> USE DEF HostStartFails, MatchInv, Shape
<1>1. QueueOK' /\ RowsRemain
  BY QueueStays
<1>2. DrainOK' /\ RunWasAskedFor'
  BY <1>1, RunStays
<1>3. HostedOK'
  BY HostToEffect DEF HostStates
<1>4. CallsOK'
  BY DEF CallsOK, Answers
<1>5. HandlersOK'
  <2>1. launch'[Drain] = "sent" => drain'.pc = "launching"
    BY DEF HandlersOK, CallHasCaller, Callers
  <2>2. \A r \in Requests : launch'[r] # "none" => launch[r] # "none"
    BY AnswersAreNoMatches DEF Callers, Answers
  <2> QED BY <1>1, <2>1, <2>2, NoHandlerMoves
<1> QED BY <1>1, <1>2, <1>3, <1>4, <1>5, RequestsStay, ChainStays

LEMMA HostUnregistersKeeps ==
    ASSUME MatchInv, NEW m \in Matches, HostUnregisters(m)
    PROVE  Shape'
<1> USE DEF HostUnregisters, MatchInv, Shape
<1>1. QueueOK' /\ RowsRemain
  BY FailReadyEffect
<1>2. ChainOK' /\ chain' # << >>
  BY AppendProperties DEF ChainOK, OfferToQueue
<1>3. DrainOK' /\ RunWasAskedFor'
  BY <1>1, <1>2, RunStays
<1>4. HostedOK'
  BY HostToEffect DEF HostStates
<1>5. HandlersOK'
  <2>1. launch'[Drain] = "sent" => drain'.pc = "launching"
    BY DEF HandlersOK, CallHasCaller
  <2> QED BY <1>1, <2>1, NoHandlerMoves
<1> QED BY <1>1, <1>2, <1>3, <1>4, <1>5, RequestsStay, CallsStay

(* Registering, stopping and losing a call change the host's view alone.   *)
LEMMA HostViewKeeps ==
    ASSUME MatchInv, NEW m \in Matches, NEW state \in HostStates, HostTo(m, state),
           UNCHANGED <<request, queue, chain, drain, launch>>
    PROVE  Shape'
<1> USE DEF MatchInv, Shape
<1>1. QueueOK' /\ RowsRemain
  BY QueueStays
<1>2. DrainOK' /\ RunWasAskedFor'
  BY <1>1, RunStays
<1>3. HandlersOK'
  <2>1. launch'[Drain] = "sent" => drain'.pc = "launching"
    BY DEF HandlersOK, CallHasCaller
  <2> QED BY <1>1, <2>1, NoHandlerMoves
<1> QED BY <1>1, <1>2, <1>3, HostToEffect, RequestsStay, ChainStays, CallsStay

-----------------------------------------------------------------------------
LEMMA MatchInitInv == MatchInit => MatchInv
<1> SUFFICES ASSUME MatchInit PROVE MatchInv
  OBVIOUS
<1>1. PICK spec \in Specs :
          /\ request = [r \in Requests |->
                 [pc |-> "idle", kind |-> "quick", spec |-> spec, ticket |-> NoTicket]]
          /\ hosted = [m \in Matches |-> [state |-> "unused", spec |-> spec]]
  <2>1. (CHOOSE x \in Specs : TRUE) \in Specs
    BY SomethingToPlay
  <2> QED BY <2>1 DEF MatchInit
<1>2. StoreTypeOK /\ minted <= MaxTickets
  BY BoundTypes DEF MatchInit, StoreInit, StoreTypeOK
<1>3. RequestsOK
  BY <1>1, BoundTypes DEF RequestsOK, RequestType, RequestStates, NoTicket
<1>4. HostedOK
  BY <1>1 DEF HostedOK, HostStates
<1>5. QueueOK /\ ChainOK /\ DrainOK /\ RunWasAskedFor
  BY EmptySeq DEF MatchInit, QueueOK, ChainOK, DrainOK, RunWasAskedFor
<1>6. CallsOK
  BY DEF MatchInit, CallsOK, Answers
<1>7. HandlersOK
  BY <1>1 DEF MatchInit, HandlersOK, CallHasCaller, JoinersDoNotWait, WaiterHasRow, Callers
<1> QED BY <1>2, <1>3, <1>4, <1>5, <1>6, <1>7 DEF MatchInv, Shape

LEMMA MatchStepInv == MatchInv /\ [MatchNext]_vars => MatchInv'
<1> SUFFICES ASSUME MatchInv, [MatchNext]_vars PROVE MatchInv'
  OBVIOUS
<1>1. [StoreNext]_storeVars
  BY ShapeGivesType, MatchStoreStep DEF MatchInv
<1>2. StoreTypeOK'
  BY <1>1, TypeInductive DEF MatchInv
<1>3. minted' \in 0 .. MaxTickets
  BY <1>1, MintedBounded DEF MatchInv
<1>4. Shape'
  <2>1. CASE Clock
    BY <2>1, NothingMoves DEF Clock, MatchInv
  <2>2. ASSUME NEW r \in Requests, PlayerStep(r) PROVE Shape'
    <3>1. ASSUME NEW spec \in Specs, QuickJoin(r, spec) PROVE Shape'
      BY <1>3, <3>1, QuickJoinKeeps
    <3>2. ASSUME NEW spec \in Specs, NEW kind \in Kinds, AskLaunch(r, kind, spec) PROVE Shape'
      BY <3>2, AskLaunchKeeps
    <3>3. ASSUME NEW s \in sessions, JoinByCode(r, s) PROVE Shape'
      BY <1>3, <3>3, JoinByCodeKeeps
    <3>4. CASE Poll(r)
      BY <3>4, LearnKeeps DEF Poll
    <3>5. CASE Cancel(r)
      BY <3>5, CancelKeeps
    <3> QED BY <2>2, <3>1, <3>2, <3>3, <3>4, <3>5 DEF PlayerStep
  <2>3. ASSUME NEW r \in Requests, ServerStep(r) PROVE Shape'
    <3>1. CASE LaunchOk(r)
      BY <3>1, LaunchOkKeeps
    <3>2. CASE Admit(r)
      BY <1>3, <3>2, AdmitKeeps
    <3>3. CASE Enqueue(r)
      BY <3>3, EnqueueKeeps
    <3>4. CASE LaunchFailed(r)
      BY <3>4, LaunchFailedKeeps
    <3>5. CASE AnswerEnqueued(r)
      BY <3>5, LearnKeeps DEF AnswerEnqueued
    <3> QED BY <2>3, <3>1, <3>2, <3>3, <3>4, <3>5 DEF ServerStep
  <2>4. CASE DrainStep
    BY <1>3, <2>4, StartRunKeeps, ScanRowKeeps, ScanEndKeeps, DrainLaunchOkKeeps,
       DrainAdmitKeeps, DrainLaunchFailsKeeps DEF DrainStep
  <2>5. ASSUME NEW c \in Callers, HostReserve(c) PROVE Shape'
    BY <2>5, HostReserveKeeps
  <2>6. ASSUME NEW m \in Matches, HostDuty(m) PROVE Shape'
    <3>1. CASE HostStartFails(m)
      BY <3>1, HostStartFailsKeeps
    <3>2. CASE HostRegisters(m)
      BY <3>2, HostViewKeeps DEF HostRegisters, HostStates
    <3>3. CASE HostUnregisters(m)
      BY <3>3, HostUnregistersKeeps
    <3>4. CASE UnregisterLost(m)
      BY <3>4, HostViewKeeps DEF UnregisterLost, HostStates
    <3> QED BY <2>6, <3>1, <3>2, <3>3, <3>4 DEF HostDuty
  <2>7. ASSUME NEW m \in Matches, MatchStops(m) PROVE Shape'
    BY <2>7, HostViewKeeps DEF MatchStops, HostStates
  <2>8. ASSUME NEW m \in Matches, OperatorIssues(m) PROVE Shape'
    BY <2>8, NothingMoves DEF OperatorIssues, MatchInv
  <2>9. CASE UNCHANGED vars
    BY <2>9, NothingMoves DEF vars, matchVars, MatchInv
  <2> QED BY <2>1, <2>2, <2>3, <2>4, <2>5, <2>6, <2>7, <2>8, <2>9 DEF MatchNext
<1> QED BY <1>2, <1>3, <1>4, BoundTypes DEF MatchInv, StoreTypeOK

(* The handlers, the queue and the drain runs stay well formed, for any    *)
(* number of players, matches and specs.                                   *)
THEOREM MatchInvariant == MatchSpec => []MatchInv
<1> QED BY MatchInitInv, MatchStepInv, PTL DEF MatchSpec

(* Every value the handlers of server.ts and the queue table hold is of    *)
(* its type; in particular a drain run never names a row that is not there.*)
THEOREM MatchTypeCorrect == MatchSpec => []MatchTypeOK
<1>1. MatchInv => MatchTypeOK
  BY ShapeGivesType DEF MatchInv
<1> QED BY <1>1, MatchInvariant, PTL

(* Matchmaking does to the three tables only what MatchStore's operations  *)
(* do: a handler, a drain run or the host's calls never write them past    *)
(* the functions of database_sessions.ts and database_tickets.ts.          *)
THEOREM MatchmakingRunsOnStore == MatchSpec => StoreSpec
<1>1. MatchInit => StoreInit
  BY DEF MatchInit
<1>2. MatchInv /\ [MatchNext]_vars => [StoreNext]_storeVars
  BY ShapeGivesType, MatchStoreStep DEF MatchInv
<1> QED BY <1>1, <1>2, MatchInvariant, PTL DEF MatchSpec, StoreSpec

(* So what is proved of the store holds while players are matched: verify  *)
(* would admit at most one ticket of a seat, and the seats of a room that  *)
(* direct joins, launches and drain runs fill between them have no gap.    *)
THEOREM MatchmakingKeepsSeats ==
    MatchSpec => [](OneAdmissiblePerSeat /\ SeatsFillInOrder /\ TicketsHaveSessions)
<1> QED BY MatchmakingRunsOnStore, Admission, SeatsFill, TicketsBelong, PTL

-----------------------------------------------------------------------------
(* Rows and their status.                                                  *)

MovesOn(was, is) ==
    was # is => \/ was = "waiting" /\ is \in {"ready", "failed", "cancelled"}
                \/ was = "ready" /\ is = "failed"

RowsMove == \A i \in DOMAIN queue : MovesOn(queue[i].status, queue'[i].status)

LEMMA RowsMoveIfUnchanged == UNCHANGED queue => RowsMove
BY DEF RowsMove, MovesOn

(* A row that is rewritten alone moves on if its own status does.          *)
LEMMA OneRowMoves ==
    ASSUME NEW i \in DOMAIN queue, NEW row, queue' = [queue EXCEPT ![i] = row],
           MovesOn(queue[i].status, row.status)
    PROVE  RowsMove
BY DEF RowsMove, MovesOn

LEMMA StatusMoves ==
    ASSUME QueueOK, NEW i \in DOMAIN queue, NEW status, MovesOn(queue[i].status, status),
           queue' = [queue EXCEPT ![i].status = status]
    PROVE  RowsMove
<1>1. queue[i] \in Row
  BY ElementOfSeq, LenProperties DEF QueueOK
<1>2. PICK row : row = [queue[i] EXCEPT !.status = status]
  OBVIOUS
<1>3. row.status = status
  BY <1>1, <1>2 DEF Row
<1>4. queue' = [queue EXCEPT ![i] = row]
  BY <1>2
<1> QED BY <1>3, <1>4, OneRowMoves

(* fulfillWaiter reads the row again, so it makes ready only what waits.   *)
LEMMA FulfillMoves ==
    ASSUME QueueOK, NEW i, NEW m, Fulfill(i, m)
    PROVE  RowsMove
<1>1. i \in DOMAIN queue /\ queue[i].status = "waiting"
  BY DEF Fulfill, Waiting
<1>2. queue[i] \in Row
  BY <1>1, ElementOfSeq, LenProperties DEF QueueOK
<1>3. PICK a : a = [queue[i] EXCEPT !.status = "ready"]
  OBVIOUS
<1>4. PICK b : b = [a EXCEPT !.match = m]
  OBVIOUS
<1>5. PICK row : row = [b EXCEPT !.ticket = minted']
  OBVIOUS
<1>6. row.status = "ready"
  BY <1>2, <1>3, <1>4, <1>5 DEF Row
<1>7. queue' = [queue EXCEPT ![i] = row]
  BY <1>1, <1>3, <1>4, <1>5 DEF Fulfill
<1> QED BY <1>1, <1>6, <1>7, OneRowMoves DEF MovesOn

LEMMA FailReadyMoves ==
    ASSUME QueueOK, NEW m, queue' = FailReadyRows(m)
    PROVE  RowsMove
<1> SUFFICES ASSUME NEW i \in DOMAIN queue PROVE MovesOn(queue[i].status, queue'[i].status)
  BY DEF RowsMove
<1>1. queue[i] \in Row
  BY ElementOfSeq, LenProperties DEF QueueOK
<1>2. PICK a : a = [queue[i] EXCEPT !.status = "failed"]
  OBVIOUS
<1>3. PICK row : row = [a EXCEPT !.ticket = NoTicket]
  OBVIOUS
<1>4. row.status = "failed"
  BY <1>1, <1>2, <1>3 DEF Row
<1>5. queue'[i] = IF queue[i].match = m /\ queue[i].status = "ready" THEN row ELSE queue[i]
  BY <1>2, <1>3 DEF FailReadyRows
<1> QED BY <1>4, <1>5 DEF MovesOn

LEMMA AppendMoves ==
    ASSUME QueueOK, NEW row \in Row, queue' = Append(queue, row)
    PROVE  RowsMove
BY AppendProperties, LenProperties DEF QueueOK, RowsMove, MovesOn

LEMMA PlayersMoveRows ==
    ASSUME MatchInv, NEW r \in Requests, PlayerStep(r) \/ ServerStep(r)
    PROVE  RowsMove
<1> USE DEF MatchInv, Shape
<1>1. CASE Cancel(r)
  BY <1>1, StatusMoves DEF Cancel, Waiting, MovesOn
<1>2. CASE Enqueue(r)
  <2>1. request[r].kind # "join"
    BY <1>2 DEF Enqueue, HandlersOK, CallHasCaller, JoinersDoNotWait
  <2>2. queue' = Append(queue, NewRow(r))
    BY <1>2 DEF Enqueue
  <2>3. NewRow(r) \in Row
    <3>1. now + QueueTtl \in Nat /\ NoTicket \in 0 .. MaxTickets
      BY QueueTtlType, BoundTypes DEF StoreTypeOK, NoTicket
    <3>2. request[r].kind \in {"quick", "create_room"} /\ request[r].spec \in Specs
      BY <2>1 DEF RequestsOK, RequestType
    <3> QED BY <3>1, <3>2 DEF NewRow, Row, RowStates
  <2>4. PICK row \in Row : row = NewRow(r)
    BY <2>3
  <2> QED BY <2>2, <2>4, AppendMoves
<1>3. CASE ~Cancel(r) /\ ~Enqueue(r)
  <2>1. UNCHANGED queue
    BY <1>3 DEF PlayerStep, ServerStep, QuickJoin, AskLaunch, JoinByCode, Poll, LaunchOk,
       Admit, LaunchFailed, AnswerEnqueued
  <2> QED BY <2>1, RowsMoveIfUnchanged
<1> QED BY <1>1, <1>2, <1>3

LEMMA DrainMovesRows ==
    ASSUME MatchInv, DrainStep
    PROVE  RowsMove
<1> USE DEF MatchInv, Shape
<1>1. CASE StartRun \/ ScanEnd \/ DrainLaunchOk
  BY <1>1, RowsMoveIfUnchanged DEF StartRun, ScanEnd, DrainLaunchOk
<1>2. CASE ScanRow
  BY <1>2, FulfillMoves, RowsMoveIfUnchanged DEF ScanRow
<1>3. CASE DrainAdmit
  BY <1>3, FulfillMoves, RowsMoveIfUnchanged DEF DrainAdmit
<1>4. CASE DrainLaunchFails
  <2>1. drain.head \in DOMAIN queue
    BY <1>4 DEF DrainLaunchFails, DrainOK
  <2> QED BY <1>4, <2>1, StatusMoves, RowsMoveIfUnchanged DEF DrainLaunchFails, MovesOn
<1> QED BY <1>1, <1>2, <1>3, <1>4 DEF DrainStep

LEMMA StepMovesRows == MatchInv /\ [MatchNext]_vars => RowsMove
<1> SUFFICES ASSUME MatchInv, [MatchNext]_vars PROVE RowsMove
  OBVIOUS
<1> USE DEF MatchInv, Shape
<1>1. ASSUME NEW r \in Requests, PlayerStep(r) \/ ServerStep(r) PROVE RowsMove
  BY <1>1, PlayersMoveRows
<1>2. CASE DrainStep
  BY <1>2, DrainMovesRows
<1>3. ASSUME NEW m \in Matches, HostUnregisters(m) PROVE RowsMove
  BY <1>3, FailReadyMoves DEF HostUnregisters
<1>4. CASE UNCHANGED queue
  BY <1>4, RowsMoveIfUnchanged
<1>5. ASSUME NEW m \in Matches, HostDuty(m) \/ MatchStops(m) \/ OperatorIssues(m),
             ~HostUnregisters(m)
      PROVE  UNCHANGED queue
  BY <1>5 DEF HostDuty, HostStartFails, HostRegisters, UnregisterLost, MatchStops,
     OperatorIssues, matchVars
<1>6. ASSUME NEW c \in Callers, HostReserve(c) PROVE UNCHANGED queue
  BY <1>6 DEF HostReserve
<1>7. Clock \/ UNCHANGED vars => UNCHANGED queue
  BY DEF Clock, matchVars, vars
<1> QED BY <1>1, <1>2, <1>3, <1>4, <1>5, <1>6, <1>7 DEF MatchNext

(* A row that was cancelled, or has failed, is never revived by a drain    *)
(* run that was launching for it when that happened, and a ready row can   *)
(* only fail with its match: for any number of players and matches.        *)
THEOREM RowsMoveOn == MatchSpec => RowsOnlyMoveOn
<1>1. MatchInv /\ [MatchNext]_vars =>
        [\A i \in DOMAIN queue :
            LET was == queue[i].status  is == queue'[i].status IN
            was # is => \/ was = "waiting" /\ is \in {"ready", "failed", "cancelled"}
                        \/ was = "ready" /\ is = "failed"]_vars
  BY StepMovesRows DEF RowsMove, MovesOn
<1> QED BY <1>1, MatchInvariant, PTL DEF MatchSpec, RowsOnlyMoveOn

-----------------------------------------------------------------------------
(* Seats.                                                                  *)

(* The tables ts and ss back a ready row.                                  *)
Backs(ts, ss, row) ==
    \E t \in ts, s \in ss :
        /\ t.id = row.ticket /\ t.match = row.match
        /\ s.match = t.match
        /\ s.spec = row.spec /\ s.code # NoCode

(* The room a drain run is about to admit to has its code, and its launch  *)
(* is over.                                                                *)
RoomIsThere ==
    drain.pc = "admitting" =>
        /\ Answered(Drain)
        /\ \E s \in sessions : s.match = launch[Drain] /\ s.code # NoCode

SeatsInv == RoomIsThere /\ ReadyRowHasSeat

-----------------------------------------------------------------------------
(* Only unregistering a match takes public rooms and tickets away.         *)
Grows ==
    /\ \A s \in sessions : s.code # NoCode => s \in sessions'
    /\ tickets \subseteq tickets'

LEMMA TickGrows == Tick => Grows
BY DEF Tick, Grows

LEMMA StoreStaysGrows == UNCHANGED storeVars => Grows
BY DEF storeVars, Grows

LEMMA RegisterGrows ==
    ASSUME NEW m, NEW spec, RegisterSession(m, spec)
    PROVE  Grows
BY DEF RegisterSession, Grows

LEMMA AssignGrows ==
    ASSUME StoreTypeOK, NEW m \in Matches, NEW code \in RoomCodes, AssignRoomCode(m, code)
    PROVE  Grows /\ \E s \in sessions' : s.match = m /\ s.code # NoCode
<1>1. PICK s \in sessions, c \in Session :
          /\ sessions' = (sessions \ {s}) \cup {c}
          /\ c.match = m /\ c.code = code /\ s.code = NoCode
          /\ tickets' = tickets
  BY AssignEffect
<1> QED BY <1>1, NoCodeIsNone DEF Grows

(* A fresh ticket has the next number and is of the match it was issued for. *)
LEMMA IssueGrows ==
    ASSUME StoreTypeOK, NEW m, NEW owner \in Owners, IssueTicket(m, owner)
    PROVE  /\ Grows
           /\ minted' = minted + 1
           /\ \E c \in Ticket :
                 /\ tickets' = tickets \cup {c}
                 /\ c.id = minted' /\ c.match = m /\ c.owner = owner
<1>1. m \in Matches
  BY DEF IssueTicket, StoreTypeOK, Session
<1>2. PICK s \in sessions, c \in Ticket :
          /\ tickets' = tickets \cup {c}
          /\ c.id = minted + 1 /\ c.match = m /\ c.owner = owner
          /\ sessions' = sessions
          /\ minted' = minted + 1
  BY <1>1, IssueEffect
<1> QED BY <1>2 DEF Grows

(* An unregistration waits until no run is between its launch and its      *)
(* admission; every other step leaves public rooms and tickets in place.   *)
LEMMA StepGrows ==
    ASSUME MatchInv, [MatchNext]_vars, \A m \in Matches : ~HostUnregisters(m)
    PROVE  Grows
<1> USE DEF MatchInv
<1>1. ASSUME NEW m, NEW owner \in Owners, IssueTicket(m, owner) PROVE Grows
  BY <1>1, IssueGrows
<1>2. ASSUME NEW m \in Matches, NEW code \in RoomCodes, AssignRoomCode(m, code) PROVE Grows
  BY <1>2, AssignGrows
<1>3. UNCHANGED storeVars => Grows
  BY StoreStaysGrows
<1>4. CASE Clock
  BY <1>4, TickGrows DEF Clock
<1>5. ASSUME NEW r \in Requests, PlayerStep(r) PROVE Grows
  <2>1. Identity[r] \in Owners
    BY IdentityType
  <2> QED BY <1>1, <1>3, <1>5, <2>1 DEF PlayerStep, QuickJoin, AskLaunch, JoinByCode, Poll, Cancel
<1>6. ASSUME NEW r \in Requests, ServerStep(r) PROVE Grows
  <2>1. Identity[r] \in Owners
    BY IdentityType
  <2> QED BY <1>1, <1>2, <1>3, <1>6, <2>1 DEF ServerStep, LaunchOk, Answered, Admit, Enqueue,
          LaunchFailed, AnswerEnqueued
<1>7. CASE DrainStep
  <2>1. ASSUME NEW i, NEW m, Fulfill(i, m) PROVE Grows
    BY <1>1, <2>1 DEF Fulfill, Owners
  <2> QED BY <1>2, <1>3, <1>7, <2>1 DEF DrainStep, StartRun, ScanRow, ScanEnd, DrainLaunchOk,
          Answered, DrainAdmit, DrainLaunchFails
<1>8. ASSUME NEW c \in Callers, HostReserve(c) PROVE Grows
  BY <1>3, <1>8 DEF HostReserve
<1>9. ASSUME NEW m \in Matches, HostDuty(m) \/ MatchStops(m) \/ OperatorIssues(m) PROVE Grows
  BY <1>1, <1>3, <1>9, RegisterGrows, OperatorIsAnOwner DEF HostDuty, HostStartFails,
     HostRegisters, UnregisterLost, MatchStops, OperatorIssues
<1>10. CASE UNCHANGED vars
  BY <1>3, <1>10 DEF vars, storeVars
<1> QED BY <1>4, <1>5, <1>6, <1>7, <1>8, <1>9, <1>10 DEF MatchNext

-----------------------------------------------------------------------------
(* The room of a run that admits.                                          *)

Over == {"running", "stopped", "gone"}

LEMMA RoomKept ==
    ASSUME RoomIsThere, Grows,
           drain'.pc = "admitting" =>
               /\ drain.pc = "admitting"
               /\ launch'[Drain] = launch[Drain]
               /\ hosted'[launch[Drain]].state \in Over
    PROVE  RoomIsThere'
BY DEF RoomIsThere, Grows, Answered, Over

LEMMA HostOnlyGoesOn ==
    ASSUME HostedOK, NEW m \in Matches, NEW state \in Over, HostTo(m, state)
    PROVE  \A x \in Matches : hosted[x].state \in Over => hosted'[x].state \in Over
<1>1. PICK h : h = [hosted[m] EXCEPT !.state = state]
  OBVIOUS
<1>2. h.state = state
  BY <1>1 DEF HostedOK
<1>3. hosted' = [hosted EXCEPT ![m] = h]
  BY <1>1 DEF HostTo
<1> QED BY <1>2, <1>3 DEF HostedOK

LEMMA RoomStep ==
    ASSUME MatchInv, RoomIsThere, [MatchNext]_vars
    PROVE  RoomIsThere'
<1> USE DEF MatchInv, Shape
<1>1. CASE \E m \in Matches : HostUnregisters(m)
  BY <1>1 DEF HostUnregisters, InTurn, RoomIsThere
<1>2. CASE \A m \in Matches : ~HostUnregisters(m)
  <2>1. Grows
    BY <1>2, StepGrows
  <2>2. drain.pc = "admitting" =>
            launch[Drain] \in Matches /\ hosted[launch[Drain]].state \in Over
    BY DEF RoomIsThere, Answered, Over
  <2>3. CASE Clock \/ UNCHANGED vars \/ (\E m \in Matches : OperatorIssues(m))
    BY <2>1, <2>2, <2>3, RoomKept DEF Clock, vars, matchVars, OperatorIssues
  <2>4. ASSUME NEW r \in Requests, PlayerStep(r) \/ ServerStep(r) PROVE RoomIsThere'
    <3>1. UNCHANGED <<drain, hosted>>
      BY <2>4 DEF PlayerStep, QuickJoin, AskLaunch, JoinByCode, Poll, Cancel, ServerStep,
         LaunchOk, Admit, Enqueue, LaunchFailed, AnswerEnqueued
    <3>2. UNCHANGED launch \/ \E answer : launch' = [launch EXCEPT ![r] = answer]
      BY <2>4 DEF PlayerStep, QuickJoin, AskLaunch, JoinByCode, Poll, Cancel, ServerStep,
         LaunchOk, Admit, Enqueue, LaunchFailed, AnswerEnqueued
    <3>3. launch'[Drain] = launch[Drain]
      BY <3>2, DrainIsNoRequest DEF CallsOK, Callers
    <3> QED BY <2>1, <2>2, <3>1, <3>3, RoomKept
  <2>5. CASE DrainLaunchOk
    <3>1. Answered(Drain) /\ launch[Drain] \in Matches
      BY <2>5 DEF DrainLaunchOk, Answered
    <3>2. \E s \in sessions' : s.match = launch[Drain] /\ s.code # NoCode
      BY <2>5, <3>1, AssignGrows DEF DrainLaunchOk
    <3> QED BY <2>5, <3>1, <3>2 DEF DrainLaunchOk, RoomIsThere, Answered
  <2>6. CASE StartRun \/ ScanRow \/ ScanEnd \/ DrainAdmit \/ DrainLaunchFails
    <3>1. \E pc \in {"idle", "scan", "launching"} : \E todo, head : DrainTo(pc, todo, head)
      BY <2>6 DEF StartRun, ScanRow, ScanEnd, DrainAdmit, DrainLaunchFails, EndRun
    <3> QED BY <3>1 DEF DrainTo, RoomIsThere
  <2>7. ASSUME NEW c \in Callers, HostReserve(c) PROVE RoomIsThere'
    <3>1. UNCHANGED drain /\ launch[c] = "sent"
      BY <2>7 DEF HostReserve
    <3>2. drain.pc = "admitting" => c # Drain
      BY <3>1 DEF HandlersOK, CallHasCaller
    <3>3. drain.pc = "admitting" => launch'[Drain] = launch[Drain]
      BY <2>7, <3>2 DEF HostReserve, CallsOK, Callers
    <3>4. drain.pc = "admitting" => hosted'[launch[Drain]] = hosted[launch[Drain]]
      BY <2>2, <2>7 DEF HostReserve, UnusedMatches, HostedOK, Over
    <3> QED BY <2>1, <2>2, <3>1, <3>3, <3>4, RoomKept
  <2>8. ASSUME NEW m \in Matches, HostStartFails(m) PROVE RoomIsThere'
    <3>1. UNCHANGED drain /\ HostTo(m, "gone") /\ hosted[m].state = "starting"
      BY <2>8 DEF HostStartFails
    <3>2. drain.pc = "admitting" => launch[Drain] # m
      BY <2>2, <3>1 DEF Over
    <3>3. drain.pc = "admitting" => launch'[Drain] = launch[Drain]
      BY <2>8, <3>2 DEF HostStartFails, Callers
    <3>4. drain.pc = "admitting" => hosted'[launch[Drain]].state \in Over
      BY <2>2, <3>1, HostOnlyGoesOn DEF Over
    <3> QED BY <2>1, <3>1, <3>3, <3>4, RoomKept
  <2>9. ASSUME NEW m \in Matches, HostRegisters(m) \/ UnregisterLost(m) \/ MatchStops(m)
        PROVE  RoomIsThere'
    <3>1. UNCHANGED <<drain, launch>> /\ \E state \in Over : HostTo(m, state)
      BY <2>9 DEF HostRegisters, UnregisterLost, MatchStops, Over
    <3>2. drain.pc = "admitting" => hosted'[launch[Drain]].state \in Over
      BY <2>2, <3>1, HostOnlyGoesOn
    <3> QED BY <2>1, <3>1, <3>2, RoomKept
  <2> QED BY <1>2, <2>3, <2>4, <2>5, <2>6, <2>7, <2>8, <2>9 DEF MatchNext, DrainStep, HostDuty
<1> QED BY <1>1, <1>2

-----------------------------------------------------------------------------
(* Ready rows.                                                             *)

(* While nothing is unregistered, the rows to look at are those that have  *)
(* just become ready.                                                      *)
LEMMA RowsStayBacked ==
    ASSUME ReadyRowHasSeat, Grows,
           \A i \in DOMAIN queue' : queue'[i].status = "ready" =>
               \/ i \in DOMAIN queue /\ queue'[i] = queue[i]
               \/ Backs(tickets', sessions', queue'[i])
    PROVE  ReadyRowHasSeat'
<1> SUFFICES ASSUME NEW i \in DOMAIN queue', queue'[i].status = "ready"
             PROVE  Backs(tickets', sessions', queue'[i])
  BY DEF ReadyRowHasSeat, Backs
<1>1. CASE i \in DOMAIN queue /\ queue'[i] = queue[i]
  <2>1. Backs(tickets, sessions, queue'[i])
    BY <1>1 DEF ReadyRowHasSeat, Backs
  <2> QED BY <2>1 DEF Backs, Grows
<1> QED BY <1>1

LEMMA StatusRewrite ==
    ASSUME QueueOK, NEW i \in DOMAIN queue, NEW status,
           queue' = [queue EXCEPT ![i].status = status]
    PROVE  /\ DOMAIN queue' = DOMAIN queue
           /\ queue'[i].status = status
           /\ queue'[i].request = queue[i].request /\ queue'[i].ticket = queue[i].ticket
           /\ queue'[i].spec = queue[i].spec
           /\ \A j \in DOMAIN queue : j # i => queue'[j] = queue[j]
<1>1. queue[i] \in Row
  BY ElementOfSeq, LenProperties DEF QueueOK
<1>2. PICK row : row = [queue[i] EXCEPT !.status = status]
  OBVIOUS
<1>3. /\ row.status = status /\ row.request = queue[i].request
      /\ row.ticket = queue[i].ticket /\ row.spec = queue[i].spec
  BY <1>1, <1>2 DEF Row
<1>4. queue' = [queue EXCEPT ![i] = row]
  BY <1>2
<1> QED BY <1>3, <1>4

LEMMA FulfillRewrite ==
    ASSUME QueueOK, NEW i, NEW m, Fulfill(i, m)
    PROVE  /\ i \in DOMAIN queue /\ DOMAIN queue' = DOMAIN queue
           /\ queue'[i].request = queue[i].request /\ queue'[i].spec = queue[i].spec
           /\ queue'[i].status = "ready" /\ queue'[i].match = m /\ queue'[i].ticket = minted'
           /\ \A j \in DOMAIN queue : j # i => queue'[j] = queue[j]
<1>1. i \in DOMAIN queue
  BY DEF Fulfill, Waiting
<1>2. queue[i] \in Row
  BY <1>1, ElementOfSeq, LenProperties DEF QueueOK
<1>3. PICK a : a = [queue[i] EXCEPT !.status = "ready"]
  OBVIOUS
<1>4. PICK b : b = [a EXCEPT !.match = m]
  OBVIOUS
<1>5. PICK row : row = [b EXCEPT !.ticket = minted']
  OBVIOUS
<1>6. /\ row.request = queue[i].request /\ row.spec = queue[i].spec
      /\ row.status = "ready" /\ row.match = m /\ row.ticket = minted'
  BY <1>2, <1>3, <1>4, <1>5 DEF Row
<1>7. queue' = [queue EXCEPT ![i] = row]
  BY <1>1, <1>3, <1>4, <1>5 DEF Fulfill
<1> QED BY <1>1, <1>6, <1>7

LEMMA FailReadyRewrite ==
    ASSUME QueueOK, NEW m, queue' = FailReadyRows(m)
    PROVE  /\ DOMAIN queue' = DOMAIN queue
           /\ \A i \in DOMAIN queue :
                 IF queue[i].match = m /\ queue[i].status = "ready"
                 THEN /\ queue'[i].request = queue[i].request /\ queue'[i].spec = queue[i].spec
                      /\ queue'[i].status = "failed" /\ queue'[i].ticket = NoTicket
                 ELSE queue'[i] = queue[i]
<1>1. ASSUME NEW i \in DOMAIN queue, queue[i].match = m, queue[i].status = "ready"
      PROVE  /\ queue'[i].request = queue[i].request /\ queue'[i].spec = queue[i].spec
             /\ queue'[i].status = "failed" /\ queue'[i].ticket = NoTicket
  <2>1. queue[i] \in Row
    BY ElementOfSeq, LenProperties DEF QueueOK
  <2>2. PICK a : a = [queue[i] EXCEPT !.status = "failed"]
    OBVIOUS
  <2>3. PICK row : row = [a EXCEPT !.ticket = NoTicket]
    OBVIOUS
  <2>4. /\ row.request = queue[i].request /\ row.spec = queue[i].spec
        /\ row.status = "failed" /\ row.ticket = NoTicket
    BY <2>1, <2>2, <2>3 DEF Row
  <2>5. queue'[i] = row
    BY <1>1, <2>2, <2>3 DEF FailReadyRows
  <2> QED BY <2>4, <2>5
<1>2. DOMAIN queue' = DOMAIN queue
  BY DEF FailReadyRows
<1>3. ASSUME NEW i \in DOMAIN queue, ~(queue[i].match = m /\ queue[i].status = "ready")
      PROVE  queue'[i] = queue[i]
  BY <1>3 DEF FailReadyRows
<1> QED BY <1>1, <1>2, <1>3

(* fulfillWaiter compares the session's spec with the row's, and the match *)
(* has one session, so a public room of the match is the room it compared. *)
LEMMA FulfilledIsBacked ==
    ASSUME StoreTypeOK, QueueOK, KeysAreUnique, ReadyRowHasSeat, NEW i, NEW m, Fulfill(i, m),
           NEW s \in sessions, s.match = m, s.code # NoCode
    PROVE  ReadyRowHasSeat'
<1>1. PICK c \in Ticket : tickets' = tickets \cup {c} /\ c.id = minted' /\ c.match = m
  BY IssueGrows DEF Fulfill, Owners
<1>2. Grows
  BY IssueGrows DEF Fulfill, Owners
<1>3. s.spec = queue[i].spec
  BY DEF Fulfill, Plays, KeysAreUnique
<1>4. s \in sessions'
  BY <1>2 DEF Grows
<1>5. queue'[i].match = m /\ queue'[i].ticket = minted' /\ queue'[i].spec = s.spec
  BY <1>3, FulfillRewrite
<1>6. Backs(tickets', sessions', queue'[i])
  BY <1>1, <1>4, <1>5 DEF Backs
<1>7. \A j \in DOMAIN queue' : j # i => j \in DOMAIN queue /\ queue'[j] = queue[j]
  BY FulfillRewrite
<1> QED BY <1>2, <1>6, <1>7, RowsStayBacked

LEMMA ReadyUnregister ==
    ASSUME MatchInv, ReadyRowHasSeat, NEW m \in Matches, HostUnregisters(m)
    PROVE  ReadyRowHasSeat'
<1> USE DEF MatchInv, Shape, HostUnregisters
<1> SUFFICES ASSUME NEW i \in DOMAIN queue', queue'[i].status = "ready"
             PROVE  Backs(tickets', sessions', queue'[i])
  BY DEF ReadyRowHasSeat, Backs
<1>1. i \in DOMAIN queue /\ queue'[i] = queue[i] /\ queue[i].match # m
  BY FailReadyRewrite
<1>2. PICK t \in tickets, s \in sessions :
          /\ t.id = queue[i].ticket /\ t.match = queue[i].match
          /\ s.match = t.match
          /\ s.spec = queue[i].spec /\ s.code # NoCode
  BY <1>1 DEF ReadyRowHasSeat
<1>3. t \in tickets' /\ s \in sessions'
  BY <1>1, <1>2 DEF UnregisterSession, TicketsWithout
<1> QED BY <1>1, <1>2, <1>3 DEF Backs

LEMMA ReadyStep ==
    ASSUME MatchInv, KeysAreUnique, RoomIsThere, ReadyRowHasSeat, [MatchNext]_vars
    PROVE  ReadyRowHasSeat'
<1> USE DEF MatchInv, Shape
<1>1. CASE \E m \in Matches : HostUnregisters(m)
  BY <1>1, ReadyUnregister
<1>2. CASE \A m \in Matches : ~HostUnregisters(m)
  <2>1. Grows
    BY <1>2, StepGrows
  <2>2. CASE UNCHANGED queue
    BY <2>1, <2>2, RowsStayBacked
  <2>3. ASSUME NEW r \in Requests, Cancel(r) PROVE ReadyRowHasSeat'
    <3>1. RowOf(r) \in DOMAIN queue /\ queue' = [queue EXCEPT ![RowOf(r)].status = "cancelled"]
      BY <2>3 DEF Cancel, Waiting
    <3> QED BY <2>1, <3>1, StatusRewrite, RowsStayBacked
  <2>4. ASSUME NEW r \in Requests, Enqueue(r) PROVE ReadyRowHasSeat'
    <3>1. request[r].kind # "join"
      BY <2>4 DEF Enqueue, HandlersOK, CallHasCaller, JoinersDoNotWait
    <3>2. PICK row : row = NewRow(r)
      OBVIOUS
    <3>3. row \in Row
      <4>1. now + QueueTtl \in Nat /\ NoTicket \in 0 .. MaxTickets
        BY QueueTtlType, BoundTypes DEF StoreTypeOK, NoTicket
      <4>2. request[r].kind \in {"quick", "create_room"} /\ request[r].spec \in Specs
        BY <3>1 DEF RequestsOK, RequestType
      <4> QED BY <3>2, <4>1, <4>2 DEF NewRow, Row, RowStates
    <3>4. row.status = "waiting"
      BY <3>2 DEF NewRow
    <3>5. queue' = Append(queue, row)
      BY <2>4, <3>2 DEF Enqueue
    <3>6. \A i \in DOMAIN queue' : queue'[i] = row \/ (i \in DOMAIN queue /\ queue'[i] = queue[i])
      BY <3>3, <3>5, AppendProperties, LenProperties DEF QueueOK
    <3> QED BY <2>1, <3>4, <3>6, RowsStayBacked
  <2>5. CASE ScanRow
    <3>1. ASSUME NEW i, NEW s \in OldestOpen(queue[i].spec), Fulfill(i, s.match)
          PROVE  ReadyRowHasSeat'
      <4>1. s \in sessions /\ s.code # NoCode
        BY DEF OldestOpen, OpenRooms
      <4> QED BY <3>1, <4>1, FulfilledIsBacked
    <3> QED BY <2>2, <2>5, <3>1 DEF ScanRow
  <2>6. CASE DrainAdmit
    <3>1. ASSUME Fulfill(drain.head, launch[Drain]) PROVE ReadyRowHasSeat'
      <4>1. PICK s \in sessions : s.match = launch[Drain] /\ s.code # NoCode
        BY <2>6 DEF DrainAdmit, RoomIsThere
      <4> QED BY <3>1, <4>1, FulfilledIsBacked
    <3> QED BY <2>2, <2>6, <3>1 DEF DrainAdmit
  <2>7. CASE DrainLaunchFails
    <3>1. drain.head \in DOMAIN queue
      BY <2>7 DEF DrainLaunchFails, DrainOK
    <3>2. UNCHANGED queue \/ queue' = [queue EXCEPT ![drain.head].status = "failed"]
      BY <2>7 DEF DrainLaunchFails
    <3>3. CASE queue' = [queue EXCEPT ![drain.head].status = "failed"]
      BY <2>1, <3>1, <3>3, StatusRewrite, RowsStayBacked
    <3> QED BY <2>2, <3>2, <3>3
  <2>8. ASSUME NEW r \in Requests, PlayerStep(r) \/ ServerStep(r), ~Cancel(r), ~Enqueue(r)
        PROVE  UNCHANGED queue
    BY <2>8 DEF PlayerStep, ServerStep, QuickJoin, AskLaunch, JoinByCode, Poll, LaunchOk,
       Admit, LaunchFailed, AnswerEnqueued
  <2>9. CASE StartRun \/ ScanEnd \/ DrainLaunchOk
    BY <2>2, <2>9 DEF StartRun, ScanEnd, DrainLaunchOk
  <2>10. ASSUME NEW m \in Matches, HostDuty(m) \/ MatchStops(m) \/ OperatorIssues(m)
         PROVE  UNCHANGED queue
    BY <1>2, <2>10 DEF HostDuty, HostStartFails, HostRegisters, UnregisterLost, MatchStops,
       OperatorIssues, matchVars
  <2>11. ASSUME NEW c \in Callers, HostReserve(c) PROVE UNCHANGED queue
    BY <2>11 DEF HostReserve
  <2>12. Clock \/ UNCHANGED vars => UNCHANGED queue
    BY DEF Clock, matchVars, vars
  <2> QED BY <2>2, <2>3, <2>4, <2>5, <2>6, <2>7, <2>8, <2>9, <2>10, <2>11, <2>12
          DEF MatchNext, DrainStep
<1> QED BY <1>1, <1>2

LEMMA SeatsInit == MatchInit => SeatsInv
BY EmptySeq DEF MatchInit, SeatsInv, RoomIsThere, ReadyRowHasSeat

LEMMA SeatsStep == MatchInv /\ KeysAreUnique /\ SeatsInv /\ [MatchNext]_vars => SeatsInv'
BY RoomStep, ReadyStep DEF SeatsInv

LEMMA SeatsInvariant == MatchSpec => []SeatsInv
<1>1. MatchSpec => []KeysAreUnique
  BY MatchmakingRunsOnStore, Keys, PTL
<1> QED BY <1>1, MatchInvariant, SeatsInit, SeatsStep, PTL DEF MatchSpec

(* A row that reads ready, whenever its player polls, is backed by a       *)
(* ticket and a public room of the spec the player asked for: the launch,  *)
(* the scan and the unregistration of matches never leave one behind.      *)
THEOREM ReadyRows == MatchSpec => []ReadyRowHasSeat
<1>1. SeatsInv => ReadyRowHasSeat
  BY DEF SeatsInv
<1> QED BY <1>1, SeatsInvariant, PTL

-----------------------------------------------------------------------------
(* Who holds what.  A player holds a ticket that was answered to it or     *)
(* that is parked in a row of its own.                                     *)

Holds(req, rows, r, n) ==
    \/ req[r].ticket = n
    \/ \E i \in DOMAIN rows : rows[i].request = r /\ rows[i].ticket = n

OneHolder ==
    \A r, x \in Requests, n \in Nat \ {0} :
        Holds(request, queue, r, n) /\ Holds(request, queue, x, n) => r = x

HandedOut ==
    \A t \in tickets : t.owner # Operator =>
        \E r \in Requests : Holds(request, queue, r, t.id)

(* Nobody holds a number that was not minted yet.                          *)
NoneAhead ==
    \A r \in Requests, n \in Nat \ {0} : Holds(request, queue, r, n) => n <= minted

TicketsWereAnswered ==
    \A r \in Requests : request[r].pc # "joined" => request[r].ticket = NoTicket

OnlyReadyRowsPark ==
    \A i \in DOMAIN queue : queue[i].status # "ready" => queue[i].ticket = NoTicket

HoldersInv == OneHolder /\ HandedOut /\ NoneAhead /\ TicketsWereAnswered /\ OnlyReadyRowsPark

SameHolders ==
    \A r \in Requests, n \in Nat \ {0} :
        Holds(request', queue', r, n) <=> Holds(request, queue, r, n)

LEMMA NobodyGains ==
    ASSUME HoldersInv, StoreTypeOK, minted' = minted \/ minted' = minted + 1, SameHolders,
           \A t \in tickets' : (t \in tickets /\ t.id \in Nat \ {0}) \/ t.owner = Operator
    PROVE  OneHolder' /\ HandedOut' /\ NoneAhead'
<1>1. OneHolder'
  BY DEF HoldersInv, OneHolder, SameHolders
<1>2. HandedOut'
  BY DEF HoldersInv, HandedOut, SameHolders
<1>3. NoneAhead'
  BY DEF HoldersInv, NoneAhead, SameHolders, StoreTypeOK
<1> QED BY <1>1, <1>2, <1>3

(* A fresh ticket goes to one player, and no holding changes besides.      *)
LEMMA OneGains ==
    ASSUME HoldersInv, StoreTypeOK, NEW p \in Requests, NEW m, NEW owner \in Owners,
           IssueTicket(m, owner),
           \A r \in Requests, n \in Nat \ {0} :
               Holds(request', queue', r, n) <=>
                   Holds(request, queue, r, n) \/ (r = p /\ n = minted')
    PROVE  OneHolder' /\ HandedOut' /\ NoneAhead'
<1>1. PICK c \in Ticket : tickets' = tickets \cup {c} /\ c.id = minted'
  BY IssueGrows
<1>2. minted \in Nat /\ minted' = minted + 1
  BY IssueGrows DEF StoreTypeOK
<1>3. OneHolder'
  BY <1>2 DEF HoldersInv, OneHolder, NoneAhead
<1>4. HandedOut'
  <2>1. \A t \in tickets' : t.id \in Nat \ {0}
    BY <1>1 DEF StoreTypeOK, Ticket
  <2> QED BY <1>1, <2>1 DEF HoldersInv, HandedOut
<1>5. NoneAhead'
  BY <1>2 DEF HoldersInv, NoneAhead
<1> QED BY <1>3, <1>4, <1>5

LEMMA HoldersStay ==
    ASSUME HoldersInv, StoreTypeOK, UNCHANGED <<request, queue>>,
           minted' = minted \/ minted' = minted + 1,
           \A t \in tickets' : (t \in tickets /\ t.id \in Nat \ {0}) \/ t.owner = Operator
    PROVE  HoldersInv'
<1>1. SameHolders
  BY DEF SameHolders
<1>2. TicketsWereAnswered' /\ OnlyReadyRowsPark'
  BY DEF HoldersInv, TicketsWereAnswered, OnlyReadyRowsPark
<1> QED BY <1>1, <1>2, NobodyGains DEF HoldersInv

LEMMA TicketIds == StoreTypeOK => \A t \in tickets : t.id \in Nat \ {0}
BY DEF StoreTypeOK, Ticket

-----------------------------------------------------------------------------
(* The steps that hand tickets out.                                        *)

(* A handler that has answered nothing yet answers a fresh ticket.         *)
LEMMA RequestGains ==
    ASSUME HoldersInv, StoreTypeOK, NEW r \in Requests, NEW m, NEW owner \in Owners,
           IssueTicket(m, owner), request[r].pc # "joined",
           request'[r].pc = "joined", request'[r].ticket = minted',
           \A x \in Requests : x # r => request'[x] = request[x], UNCHANGED queue
    PROVE  HoldersInv'
<1>1. request[r].ticket = 0
  BY DEF HoldersInv, TicketsWereAnswered, NoTicket
<1>2. \A x \in Requests, n \in Nat \ {0} :
          Holds(request', queue', x, n) <=>
              Holds(request, queue, x, n) \/ (x = r /\ n = minted')
  BY <1>1 DEF Holds
<1>3. TicketsWereAnswered' /\ OnlyReadyRowsPark'
  BY DEF HoldersInv, TicketsWereAnswered, OnlyReadyRowsPark
<1> QED BY <1>2, <1>3, OneGains DEF HoldersInv

(* A handler moves on without a ticket.                                    *)
LEMMA RequestKeeps ==
    ASSUME HoldersInv, StoreTypeOK, NEW r \in Requests, request[r].pc # "joined",
           request'[r].ticket = NoTicket \/ request'[r].ticket = request[r].ticket,
           \A x \in Requests : x # r => request'[x] = request[x],
           UNCHANGED <<queue, tickets, minted>>
    PROVE  HoldersInv'
<1>1. request[r].ticket = 0 /\ request'[r].ticket = 0
  BY DEF HoldersInv, TicketsWereAnswered, NoTicket
<1>2. SameHolders
  BY <1>1 DEF Holds, SameHolders
<1>3. TicketsWereAnswered' /\ OnlyReadyRowsPark'
  BY <1>1 DEF HoldersInv, TicketsWereAnswered, OnlyReadyRowsPark, NoTicket
<1> QED BY <1>2, <1>3, NobodyGains, TicketIds DEF HoldersInv

(* A row that waits is given a fresh ticket for its player.                *)
LEMMA RowGains ==
    ASSUME HoldersInv, StoreTypeOK, QueueOK, UNCHANGED request, NEW i, NEW m, Fulfill(i, m)
    PROVE  HoldersInv'
<1>1. /\ i \in DOMAIN queue /\ DOMAIN queue' = DOMAIN queue
      /\ queue'[i].request = queue[i].request
      /\ queue'[i].status = "ready" /\ queue'[i].ticket = minted'
      /\ \A j \in DOMAIN queue : j # i => queue'[j] = queue[j]
  BY FulfillRewrite
<1>2. queue[i].request \in Requests
  <2>1. queue[i] \in Row
    BY <1>1, ElementOfSeq, LenProperties DEF QueueOK
  <2> QED BY <2>1 DEF Row
<1>3. queue[i].ticket = 0
  BY <1>1 DEF HoldersInv, OnlyReadyRowsPark, NoTicket, Fulfill, Waiting
<1>4. \A x \in Requests, n \in Nat \ {0} :
          Holds(request', queue', x, n) <=>
              Holds(request, queue, x, n) \/ (x = queue[i].request /\ n = minted')
  <2> SUFFICES ASSUME NEW x \in Requests, NEW n \in Nat \ {0}
               PROVE  Holds(request', queue', x, n) <=>
                          Holds(request, queue, x, n) \/ (x = queue[i].request /\ n = minted')
    OBVIOUS
  <2>1. Holds(request', queue', x, n) =>
            Holds(request, queue, x, n) \/ (x = queue[i].request /\ n = minted')
    BY <1>1 DEF Holds
  <2>2. Holds(request, queue, x, n) => Holds(request', queue', x, n)
    BY <1>1, <1>3 DEF Holds
  <2>3. x = queue[i].request /\ n = minted' => Holds(request', queue', x, n)
    BY <1>1 DEF Holds
  <2> QED BY <2>1, <2>2, <2>3
<1>5. TicketsWereAnswered' /\ OnlyReadyRowsPark'
  BY <1>1 DEF HoldersInv, TicketsWereAnswered, OnlyReadyRowsPark
<1>6. OneHolder' /\ HandedOut' /\ NoneAhead'
  BY <1>2, <1>4, OneGains DEF Fulfill, Owners
<1> QED BY <1>5, <1>6 DEF HoldersInv

(* The player collects what its row has parked: the same player holds it.  *)
LEMMA LearnKeepsHolders ==
    ASSUME HoldersInv, MatchInv, NEW r \in Requests,
           request[r].pc \in {"draining", "waiting"}, Learn(r),
           UNCHANGED <<queue, tickets, minted>>
    PROVE  HoldersInv'
<1> USE DEF MatchInv, Shape
<1>1. HasRow(r)
  BY DEF HandlersOK, WaiterHasRow
<1>2. RowOf(r) \in DOMAIN queue /\ queue[RowOf(r)].request = r
  BY <1>1 DEF HasRow, RowOf
<1>3. CASE request' = [request EXCEPT ![r].pc = "joined", ![r].ticket = queue[RowOf(r)].ticket]
  <2>1. queue[RowOf(r)].ticket \in 0 .. MaxTickets
    <3>1. queue[RowOf(r)] \in Row
      BY <1>2, ElementOfSeq, LenProperties DEF QueueOK
    <3> QED BY <3>1 DEF Row
  <2>2. /\ request'[r].pc = "joined" /\ request'[r].ticket = queue[RowOf(r)].ticket
        /\ \A x \in Requests : x # r => request'[x] = request[x]
    BY <1>3, <2>1, MoveWithTicket DEF RequestStates
  <2>3. request[r].ticket = 0
    BY DEF HoldersInv, TicketsWereAnswered, NoTicket
  <2>4. SameHolders
    BY <1>2, <2>2, <2>3 DEF Holds, SameHolders
  <2>5. TicketsWereAnswered' /\ OnlyReadyRowsPark'
    BY <2>2 DEF HoldersInv, TicketsWereAnswered, OnlyReadyRowsPark
  <2> QED BY <2>4, <2>5, NobodyGains, TicketIds DEF HoldersInv
<1>4. ASSUME NEW pc \in {"failed", "waiting", "left"}, Move(r, pc) PROVE HoldersInv'
  BY <1>4, MoveEffect, RequestKeeps DEF RequestStates
<1> QED BY <1>3, <1>4 DEF Learn

(* A row that does not park a ticket changes its status, and perhaps its   *)
(* player's handler moves.                                                 *)
LEMMA StatusKeepsHolders ==
    ASSUME HoldersInv, StoreTypeOK, QueueOK, NEW i \in DOMAIN queue, NEW status,
           queue[i].status # "ready", queue' = [queue EXCEPT ![i].status = status],
           \A x \in Requests : /\ request'[x].ticket = request[x].ticket
                               /\ request[x].pc = "joined" => request'[x].pc = "joined",
           UNCHANGED <<tickets, minted>>
    PROVE  HoldersInv'
<1>1. /\ DOMAIN queue' = DOMAIN queue
      /\ queue'[i].request = queue[i].request /\ queue'[i].ticket = queue[i].ticket
      /\ \A j \in DOMAIN queue : j # i => queue'[j] = queue[j]
  BY StatusRewrite
<1>2. SameHolders
  BY <1>1 DEF Holds, SameHolders
<1>3. TicketsWereAnswered' /\ OnlyReadyRowsPark'
  BY <1>1 DEF HoldersInv, TicketsWereAnswered, OnlyReadyRowsPark
<1> QED BY <1>2, <1>3, NobodyGains, TicketIds DEF HoldersInv

LEMMA EnqueueKeepsHolders ==
    ASSUME HoldersInv, MatchInv, NEW r \in Requests, Enqueue(r)
    PROVE  HoldersInv'
<1> USE DEF MatchInv, Shape
<1>1. request[r].pc \in {"launching", "admitting"} /\ request[r].kind # "join"
  <2>1. r \in Callers
    BY DEF Callers
  <2> QED BY <2>1 DEF Enqueue, HandlersOK, CallHasCaller, JoinersDoNotWait
<1>2. PICK row : row = NewRow(r)
  OBVIOUS
<1>3. row \in Row
  <2>1. now + QueueTtl \in Nat /\ NoTicket \in 0 .. MaxTickets
    BY QueueTtlType, BoundTypes DEF StoreTypeOK, NoTicket
  <2>2. request[r].kind \in {"quick", "create_room"} /\ request[r].spec \in Specs
    BY <1>1 DEF RequestsOK, RequestType
  <2> QED BY <1>2, <2>1, <2>2 DEF NewRow, Row, RowStates
<1>4. row.ticket = 0
  BY <1>2 DEF NewRow, NoTicket
<1>5. queue' = Append(queue, row)
  BY <1>2 DEF Enqueue
<1>6. /\ \A i \in DOMAIN queue' : queue'[i] = row \/ (i \in DOMAIN queue /\ queue'[i] = queue[i])
      /\ \A i \in DOMAIN queue : i \in DOMAIN queue' /\ queue'[i] = queue[i]
  BY <1>3, <1>5, AppendProperties, LenProperties DEF QueueOK
<1>7. /\ request'[r].pc = "draining" /\ request'[r].ticket = request[r].ticket
      /\ \A x \in Requests : x # r => request'[x] = request[x]
  BY MoveEffect DEF Enqueue, RequestStates
<1>8. SameHolders
  <2> SUFFICES ASSUME NEW x \in Requests, NEW n \in Nat \ {0}
               PROVE  Holds(request', queue', x, n) <=> Holds(request, queue, x, n)
    BY DEF SameHolders
  <2>1. request'[x].ticket = request[x].ticket
    BY <1>7
  <2>2. Holds(request', queue', x, n) => Holds(request, queue, x, n)
    BY <1>4, <1>6, <2>1 DEF Holds
  <2>3. Holds(request, queue, x, n) => Holds(request', queue', x, n)
    BY <1>6, <2>1 DEF Holds
  <2> QED BY <2>2, <2>3
<1>9. TicketsWereAnswered' /\ OnlyReadyRowsPark'
  BY <1>1, <1>4, <1>6, <1>7 DEF HoldersInv, TicketsWereAnswered, OnlyReadyRowsPark, NoTicket
<1> QED BY <1>8, <1>9, NobodyGains, TicketIds DEF HoldersInv, Enqueue, storeVars

(* A ready row loses its ticket only with the ticket: both are of the      *)
(* match that is unregistered.                                             *)
LEMMA UnregisterKeepsHolders ==
    ASSUME HoldersInv, MatchInv, KeysAreUnique, ReadyRowHasSeat, NEW m \in Matches,
           HostUnregisters(m)
    PROVE  HoldersInv'
<1> USE DEF MatchInv, Shape, HostUnregisters
<1>1. /\ DOMAIN queue' = DOMAIN queue
      /\ \A i \in DOMAIN queue :
            IF queue[i].match = m /\ queue[i].status = "ready"
            THEN /\ queue'[i].request = queue[i].request
                 /\ queue'[i].status = "failed" /\ queue'[i].ticket = 0
            ELSE queue'[i] = queue[i]
  BY FailReadyRewrite DEF NoTicket
<1>2. tickets' = {t \in tickets : t.match # m} /\ minted' = minted
  BY DEF UnregisterSession, TicketsWithout
<1>3. \A r \in Requests, n \in Nat \ {0} :
          Holds(request', queue', r, n) => Holds(request, queue, r, n)
  BY <1>1 DEF Holds
<1>4. ASSUME NEW t \in tickets', NEW r \in Requests, Holds(request, queue, r, t.id)
      PROVE  Holds(request', queue', r, t.id)
  <2>1. CASE request[r].ticket = t.id
    BY <2>1 DEF Holds
  <2>2. ASSUME NEW i \in DOMAIN queue, queue[i].request = r, queue[i].ticket = t.id
        PROVE  Holds(request', queue', r, t.id)
    <3>1. CASE queue[i].match = m /\ queue[i].status = "ready"
      <4>1. PICK u \in tickets : u.id = queue[i].ticket /\ u.match = queue[i].match
        BY <3>1 DEF ReadyRowHasSeat
      <4>2. u = t
        BY <1>2, <2>2, <4>1 DEF KeysAreUnique
      <4> QED BY <1>2, <3>1, <4>1, <4>2
    <3>2. CASE ~(queue[i].match = m /\ queue[i].status = "ready")
      BY <1>1, <2>2, <3>2 DEF Holds
    <3> QED BY <3>1, <3>2
  <2> QED BY <1>4, <2>1, <2>2 DEF Holds
<1>5. OneHolder'
  BY <1>3 DEF HoldersInv, OneHolder
<1>6. HandedOut'
  BY <1>2, <1>4 DEF HoldersInv, HandedOut
<1>7. NoneAhead'
  BY <1>2, <1>3 DEF HoldersInv, NoneAhead
<1>8. TicketsWereAnswered' /\ OnlyReadyRowsPark'
  BY <1>1 DEF HoldersInv, TicketsWereAnswered, OnlyReadyRowsPark, NoTicket
<1> QED BY <1>5, <1>6, <1>7, <1>8 DEF HoldersInv

-----------------------------------------------------------------------------
LEMMA PlayersHold ==
    ASSUME HoldersInv, MatchInv, minted' \in 0 .. MaxTickets, NEW r \in Requests,
           PlayerStep(r) \/ ServerStep(r)
    PROVE  HoldersInv'
<1> USE DEF MatchInv, Shape
<1>1. Identity[r] \in Owners
  BY IdentityType
<1>2. ASSUME NEW spec \in Specs, QuickJoin(r, spec) PROVE HoldersInv'
  <2>1. \E m : IssueTicket(m, Identity[r])
    BY <1>2 DEF QuickJoin
  <2>2. /\ request'[r].pc = "joined" /\ request'[r].ticket = minted'
        /\ \A x \in Requests : x # r => request'[x] = request[x]
    BY <1>2, ArriveEffect DEF QuickJoin, RequestStates
  <2> QED BY <1>1, <1>2, <2>1, <2>2, RequestGains DEF QuickJoin
<1>3. ASSUME NEW spec \in Specs, NEW kind \in Kinds, AskLaunch(r, kind, spec) PROVE HoldersInv'
  <2>1. /\ request'[r].ticket = NoTicket
        /\ \A x \in Requests : x # r => request'[x] = request[x]
    BY <1>3, ArriveEffect, KindsType, BoundTypes DEF AskLaunch, RequestStates, NoTicket
  <2> QED BY <1>3, <2>1, RequestKeeps DEF AskLaunch, storeVars
<1>4. ASSUME NEW s \in sessions, JoinByCode(r, s) PROVE HoldersInv'
  <2>1. s.spec \in Specs
    BY DEF StoreTypeOK, Session
  <2>2. CASE IssueTicket(s.match, Identity[r]) /\ Arrive(r, "join", s.spec, "joined", minted')
    <3>1. /\ request'[r].pc = "joined" /\ request'[r].ticket = minted'
          /\ \A x \in Requests : x # r => request'[x] = request[x]
      BY <2>1, <2>2, ArriveEffect DEF RequestStates
    <3> QED BY <1>1, <1>4, <2>2, <3>1, RequestGains DEF JoinByCode
  <2>3. CASE Arrive(r, "join", s.spec, "failed", NoTicket) /\ UNCHANGED storeVars
    <3>1. /\ request'[r].ticket = NoTicket
          /\ \A x \in Requests : x # r => request'[x] = request[x]
      BY <2>1, <2>3, ArriveEffect, BoundTypes DEF RequestStates, NoTicket
    <3> QED BY <1>4, <2>3, <3>1, RequestKeeps DEF JoinByCode, storeVars
  <2> QED BY <1>4, <2>2, <2>3 DEF JoinByCode
<1>5. CASE Poll(r) \/ AnswerEnqueued(r)
  BY <1>5, LearnKeepsHolders DEF Poll, AnswerEnqueued, storeVars
<1>6. CASE Cancel(r)
  <2>1. RowOf(r) \in DOMAIN queue /\ queue[RowOf(r)].status # "ready"
    BY <1>6 DEF Cancel, Waiting
  <2>2. /\ request'[r].ticket = request[r].ticket /\ request[r].pc # "joined"
        /\ \A x \in Requests : x # r => request'[x] = request[x]
    BY <1>6, MoveEffect DEF Cancel, RequestStates
  <2> QED BY <1>6, <2>1, <2>2, StatusKeepsHolders DEF Cancel, storeVars
<1>7. ASSUME NEW pc \in RequestStates, Move(r, pc), UNCHANGED <<storeVars, queue>>,
             request[r].pc # "joined"
      PROVE  HoldersInv'
  BY <1>7, MoveEffect, RequestKeeps DEF storeVars
<1>8. CASE LaunchOk(r)
  <2>1. \E pc \in RequestStates : Move(r, pc)
    BY <1>8 DEF LaunchOk, RequestStates
  <2>2. UNCHANGED <<queue, tickets, minted>> /\ request[r].pc # "joined"
    BY <1>8 DEF LaunchOk, AssignRoomCode, storeVars
  <2> QED BY <2>1, <2>2, MoveEffect, RequestKeeps
<1>9. CASE Admit(r)
  <2>1. CASE /\ IssueTicket(launch[r], Identity[r])
             /\ request' = [request EXCEPT ![r].pc = "joined", ![r].ticket = minted']
    <3>1. /\ request'[r].pc = "joined" /\ request'[r].ticket = minted'
          /\ \A x \in Requests : x # r => request'[x] = request[x]
      BY <2>1, MoveWithTicket DEF RequestStates
    <3> QED BY <1>1, <1>9, <2>1, <3>1, RequestGains DEF Admit
  <2>2. CASE Move(r, "failed") /\ UNCHANGED storeVars
    BY <1>7, <1>9, <2>2 DEF Admit, RequestStates
  <2> QED BY <1>9, <2>1, <2>2 DEF Admit
<1>10. CASE Enqueue(r)
  BY <1>10, EnqueueKeepsHolders
<1>11. CASE LaunchFailed(r)
  BY <1>7, <1>11 DEF LaunchFailed, RequestStates
<1> QED BY <1>2, <1>3, <1>4, <1>5, <1>6, <1>8, <1>9, <1>10, <1>11 DEF PlayerStep, ServerStep

LEMMA NothingHandedOut ==
    ASSUME HoldersInv, StoreTypeOK, UNCHANGED <<request, queue, tickets, minted>>
    PROVE  HoldersInv'
BY HoldersStay, TicketIds

LEMMA DrainHolds ==
    ASSUME HoldersInv, MatchInv, DrainStep
    PROVE  HoldersInv'
<1> USE DEF MatchInv, Shape
<1>1. CASE StartRun \/ ScanEnd \/ DrainLaunchOk
  BY <1>1, NothingHandedOut DEF StartRun, ScanEnd, DrainLaunchOk, AssignRoomCode, storeVars
<1>2. CASE ScanRow
  BY <1>2, RowGains, NothingHandedOut DEF ScanRow, storeVars
<1>3. CASE DrainAdmit
  BY <1>3, RowGains, NothingHandedOut DEF DrainAdmit, storeVars
<1>4. CASE DrainLaunchFails
  <2>1. drain.head \in DOMAIN queue
    BY <1>4 DEF DrainLaunchFails, DrainOK
  <2>2. CASE UNCHANGED queue
    BY <1>4, <2>2, NothingHandedOut DEF DrainLaunchFails, storeVars
  <2>3. CASE queue[drain.head].status = "waiting"
             /\ queue' = [queue EXCEPT ![drain.head].status = "failed"]
    BY <1>4, <2>1, <2>3, StatusKeepsHolders DEF DrainLaunchFails, storeVars
  <2> QED BY <1>4, <2>2, <2>3 DEF DrainLaunchFails
<1> QED BY <1>1, <1>2, <1>3, <1>4 DEF DrainStep

LEMMA HostHolds ==
    ASSUME HoldersInv, MatchInv, KeysAreUnique, ReadyRowHasSeat, NEW m \in Matches,
           HostDuty(m) \/ MatchStops(m) \/ OperatorIssues(m)
    PROVE  HoldersInv'
<1> USE DEF MatchInv, Shape
<1>1. CASE HostUnregisters(m)
  BY <1>1, UnregisterKeepsHolders
<1>2. CASE HostStartFails(m) \/ HostRegisters(m) \/ UnregisterLost(m) \/ MatchStops(m)
  BY <1>2, NothingHandedOut DEF HostStartFails, HostRegisters, RegisterSession, UnregisterLost,
     MatchStops, storeVars
<1>3. CASE OperatorIssues(m)
  <2>1. PICK c \in Ticket : tickets' = tickets \cup {c} /\ c.owner = Operator
    BY <1>3, IssueGrows, OperatorIsAnOwner DEF OperatorIssues
  <2>2. minted' = minted + 1
    BY <1>3, IssueGrows, OperatorIsAnOwner DEF OperatorIssues
  <2>3. UNCHANGED <<request, queue>>
    BY <1>3 DEF OperatorIssues, matchVars
  <2> QED BY <2>1, <2>2, <2>3, HoldersStay, TicketIds
<1> QED BY <1>1, <1>2, <1>3 DEF HostDuty

LEMMA HoldersStep ==
    MatchInv /\ KeysAreUnique /\ ReadyRowHasSeat /\ HoldersInv /\ [MatchNext]_vars => HoldersInv'
<1> SUFFICES ASSUME MatchInv, KeysAreUnique, ReadyRowHasSeat, HoldersInv, [MatchNext]_vars
             PROVE  HoldersInv'
  OBVIOUS
<1> USE DEF MatchInv, Shape
<1>1. minted' \in 0 .. MaxTickets
  BY ShapeGivesType, MatchStoreStep, MintedBounded
<1>2. ASSUME NEW r \in Requests, PlayerStep(r) \/ ServerStep(r) PROVE HoldersInv'
  BY <1>1, <1>2, PlayersHold
<1>3. CASE DrainStep
  BY <1>3, DrainHolds
<1>4. ASSUME NEW m \in Matches, HostDuty(m) \/ MatchStops(m) \/ OperatorIssues(m) PROVE HoldersInv'
  BY <1>4, HostHolds
<1>5. ASSUME NEW c \in Callers, HostReserve(c) PROVE HoldersInv'
  BY <1>5, NothingHandedOut DEF HostReserve, storeVars
<1>6. CASE Clock \/ UNCHANGED vars
  BY <1>6, NothingHandedOut DEF Clock, Tick, matchVars, vars
<1> QED BY <1>2, <1>3, <1>4, <1>5, <1>6 DEF MatchNext

LEMMA HoldersInit == MatchInit => HoldersInv
BY DEF MatchInit, StoreInit, HoldersInv, OneHolder, HandedOut, NoneAhead, TicketsWereAnswered,
   OnlyReadyRowsPark, Holds, NoTicket

LEMMA OneHolderIsOnePlayer ==
    ASSUME HoldersInv, StoreTypeOK, QueueOK
    PROVE  EveryTicketHasOnePlayer
<1> SUFFICES ASSUME NEW t \in tickets, t.owner # Operator PROVE Cardinality(HoldersOf(t)) = 1
  BY DEF EveryTicketHasOnePlayer
<1>1. t.id \in Nat \ {0}
  BY TicketIds
<1>2. \A i \in DOMAIN queue : queue[i].request \in Requests
  <2> SUFFICES ASSUME NEW i \in DOMAIN queue PROVE queue[i].request \in Requests
    OBVIOUS
  <2>1. queue[i] \in Row
    BY ElementOfSeq, LenProperties DEF QueueOK
  <2> QED BY <2>1 DEF Row
<1>3. PICK p \in Requests : Holds(request, queue, p, t.id)
  BY DEF HoldersInv, HandedOut
<1>4. \A r \in HoldersOf(t) : r \in Requests /\ Holds(request, queue, r, t.id)
  BY <1>2 DEF HoldersOf, Holds
<1>5. p \in HoldersOf(t)
  BY <1>3 DEF HoldersOf, Holds
<1>6. HoldersOf(t) = {p}
  BY <1>1, <1>3, <1>4, <1>5 DEF HoldersInv, OneHolder
<1> QED BY <1>6, FS_Singleton

(* No seat is lost and none is given twice: every ticket of a registered   *)
(* match is held by exactly one player, whichever of the direct join, the  *)
(* launch continuation and the drain run issued it.                        *)
THEOREM EveryTicketOnePlayer == MatchSpec => []EveryTicketHasOnePlayer
<1>1. MatchSpec => []KeysAreUnique
  BY MatchmakingRunsOnStore, Keys, PTL
<1>2. MatchSpec => []HoldersInv
  BY <1>1, MatchInvariant, ReadyRows, HoldersInit, HoldersStep, PTL DEF MatchSpec
<1>3. MatchInv /\ HoldersInv => EveryTicketHasOnePlayer
  BY OneHolderIsOnePlayer DEF MatchInv, Shape
<1> QED BY <1>2, <1>3, MatchInvariant, PTL
=============================================================================
