----------------------------- MODULE Gateway_proofs -----------------------------
(***************************************************************************)
(* Theorems about the gateway, for any number of upgrades and tickets.     *)
(*                                                                         *)
(* The gateway changes the tables only through the control plane, so what  *)
(* is proved of the store holds here.  To it the invariant adds what each  *)
(* connection's record says of its two sockets, and that the ticket of an  *)
(* upgrade the control plane let in is consumed and stays so.              *)
(***************************************************************************)
EXTENDS Gateway, MatchStore_proofs

\* The tables under the gateway: only operations of the store touch them.
LEMMA GatewayStoreStep ==
  ASSUME [GatewayNext]_vars
  PROVE  [StoreNext]_storeVars
<1>1. CASE UNCHANGED vars
  BY <1>1 DEF vars
<1>2. ASSUME NEW c \in Conns, PlaneVerifies(c) PROVE [StoreNext]_storeVars
  BY <1>2 DEF PlaneVerifies, StoreNext
<1>3. ASSUME NEW c \in Conns, NEW r, Becomes(c, r) PROVE [StoreNext]_storeVars
  BY <1>3 DEF Becomes
<1>4. CASE PlaneGoesOn
  BY <1>4 DEF PlaneGoesOn, StoreNext
<1>5. CASE Shutdown \/ Exit
  BY <1>5 DEF Shutdown, Exit
<1> QED  BY <1>1, <1>2, <1>3, <1>4, <1>5
         DEF GatewayNext, Upgrade, Due, Answers, Refuse, VerifyThrows, Dial, OnClientClose,
             OnUpstreamClose, ClientCloseEnds, UpstreamCloseEnds, UpstreamOpens,
             UpstreamFails, ForwardUp, ForwardToClient, ClientSends, UpstreamSends,
             ClientLeaves, UpstreamLeaves

\* Whatever the gateway and its clients do, match_sessions and match_tickets
\* change only as the functions of the control plane's database change them.
THEOREM GatewayRunsOnStore == GatewaySpec => StoreSpec
<1>1. GatewayInit => StoreInit
  BY DEF GatewayInit
<1> QED  BY <1>1, GatewayStoreStep, PTL DEF GatewaySpec, StoreSpec

-----------------------------------------------------------------------------
(* One connection.                                                         *)

\* The upstream is dialled once, before the client is upgraded; frames are
\* only of paired sockets, and one is dropped only towards an end that closed.
Sound(r) ==
    /\ r \in Conn
    /\ r.stage \in {"idle", "verifying"} => r.up = "none"
    /\ r.stage = "dialling" => r.up = "connecting"
    /\ r.up = "connecting" => r.stage = "dialling"
    /\ r.stage # "idle" => r.client # "none"
    /\ r.stage = "paired" => r.up # "none"
    /\ r.stage \in {"idle", "verifying", "dialling"} => r.toUp = "none" /\ r.toClient = "none"
    /\ r.toUp = "dropped" => r.up \in {"closing", "gone", "closed"}
    /\ r.toClient = "dropped" => r.client \in {"closing", "gone", "closed"}

\* What a callback makes of a record: the ticket and its verdict stay.
Follows(r, q) == Sound(q) /\ q.ticket = r.ticket /\ q.verdict = r.verdict

LEMMA RejectedFollows ==
  ASSUME NEW r, Sound(r), r.stage = "verifying"
  PROVE  Follows(r, Rejected(r))
<1>1. PICK q : q = Rejected(r)
  OBVIOUS
<1>2. /\ q \in Conn /\ q.stage = "over" /\ q.client = "closed" /\ q.up = r.up
      /\ q.toUp = r.toUp /\ q.toClient = r.toClient
      /\ q.ticket = r.ticket /\ q.verdict = r.verdict
  BY <1>1 DEF Rejected, Sound, Conn
<1> QED  BY <1>1, <1>2 DEF Follows, Sound

\* A dial that is over: the client's upgrade is completed or turned down.
LEMMA AnsweredFollows ==
  ASSUME NEW r, Sound(r), r.up = "connecting", NEW q,
         \/ q = [r EXCEPT !.up = "open", !.stage = "paired"]
         \/ q = [Rejected(r) EXCEPT !.up = "open"]
         \/ q = [Rejected(r) EXCEPT !.up = "closed"]
  PROVE  Follows(r, q)
<1>1. /\ q \in Conn /\ q.toUp = r.toUp /\ q.toClient = r.toClient
      /\ q.ticket = r.ticket /\ q.verdict = r.verdict
      /\ \/ q.up = "open" /\ q.stage = "paired" /\ q.client = r.client
         \/ q.up \in {"open", "closed"} /\ q.stage = "over" /\ q.client = "closed"
  BY DEF Rejected, Sound, Conn
<1> QED  BY <1>1 DEF Follows, Sound

\* A change of the two sockets that opens none.
LEMMA SocketsFollow ==
  ASSUME NEW r, Sound(r), r.stage # "idle", NEW q \in Conn,
         q.ticket = r.ticket /\ q.verdict = r.verdict,
         q.toUp = r.toUp /\ q.toClient = r.toClient,
         q.stage = r.stage \/ (r.stage = "paired" /\ q.stage = "over"),
         q.client = r.client \/ q.client \in {"closing", "gone", "closed"},
         q.up = r.up \/ (/\ r.up \in {"open", "closing", "gone", "closed"}
                         /\ q.up \in {"closing", "gone", "closed"})
  PROVE  Follows(r, q)
BY DEF Follows, Sound

\* A frame that is sent, delivered or dropped.
LEMMA FrameFollows ==
  ASSUME NEW r, Sound(r), r.stage = "paired", NEW q \in Conn,
         q.ticket = r.ticket /\ q.verdict = r.verdict,
         q.stage = r.stage /\ q.client = r.client /\ q.up = r.up,
         q.toUp = r.toUp \/ q.toUp # "dropped" \/ q.up # "open",
         q.toClient = r.toClient \/ q.toClient # "dropped" \/ q.client # "open"
  PROVE  Follows(r, q)
<1>1. q.up \in {"open", "closing", "gone", "closed"}
  BY DEF Sound, Conn
<1>2. q.client \in {"open", "closing", "gone", "closed"}
  BY DEF Sound, Conn
<1> QED  BY <1>1, <1>2 DEF Follows, Sound

\* Connection c does a callback, or one of its sockets something.
Moves(c) == \E q : Becomes(c, q) /\ Follows(conn[c], q)

LEMMA FinishMoves ==
  ASSUME NEW c, Sound(conn[c]), Refuse(c) \/ VerifyThrows(c)
  PROVE  Moves(c)
<1>1. conn[c].stage = "verifying" /\ Becomes(c, Rejected(conn[c]))
  BY DEF Refuse, VerifyThrows, Stage
<1>2. PICK q : q = Rejected(conn[c])
  OBVIOUS
<1> QED  BY <1>1, <1>2, RejectedFollows DEF Moves

LEMMA DialMoves ==
  ASSUME NEW c, Sound(conn[c]), Dial(c)
  PROVE  Moves(c)
<1>1. PICK r : r = conn[c]
  OBVIOUS
<1>2. PICK q : q = Dialled(r)
  OBVIOUS
<1>3. /\ q \in Conn /\ q.stage = "dialling" /\ q.up = "connecting"
      /\ q.client = r.client /\ q.toUp = r.toUp /\ q.toClient = r.toClient
      /\ q.ticket = r.ticket /\ q.verdict = r.verdict
  BY <1>1, <1>2 DEF Dialled, Sound, Conn
<1>4. r.stage = "verifying" /\ Becomes(c, q)
  BY <1>1, <1>2 DEF Dial, Stage
<1>5. Follows(r, q)
  BY <1>1, <1>3, <1>4 DEF Follows, Sound
<1> QED  BY <1>1, <1>4, <1>5 DEF Moves

LEMMA AnswerMoves ==
  ASSUME NEW c, Sound(conn[c]), Answers(c)
  PROVE  Moves(c)
<1>1. PICK r : r = conn[c]
  OBVIOUS
<1>2. PICK q :
        /\ Becomes(c, q)
        /\ \/ q = [r EXCEPT !.up = "open", !.stage = "paired"]
           \/ q = [Rejected(r) EXCEPT !.up = "open"]
           \/ q = [Rejected(r) EXCEPT !.up = "closed"]
  BY <1>1, Zenon DEF Answers, UpstreamOpens, UpstreamFails
<1>3. r.up = "connecting"
  BY <1>1 DEF Answers, UpstreamOpens, UpstreamFails
<1> QED  BY <1>1, <1>2, <1>3, AnsweredFollows DEF Moves

LEMMA LeaveMoves ==
  ASSUME NEW c, Sound(conn[c]),
         ClientLeaves(c) \/ UpstreamLeaves(c) \/ ClientCloseEnds(c) \/ UpstreamCloseEnds(c)
  PROVE  Moves(c)
<1>1. PICK r : r = conn[c]
  OBVIOUS
<1>2. PICK q :
        /\ Becomes(c, q)
        /\ \/ q = [r EXCEPT !.client = "gone"] /\ r.client \in {"open", "closing"}
           \/ q = [r EXCEPT !.up = "gone"] /\ r.up \in {"open", "closing"}
  BY <1>1, Zenon DEF ClientLeaves, UpstreamLeaves, ClientCloseEnds, UpstreamCloseEnds
<1>3. /\ q \in Conn /\ q.stage = r.stage /\ q.toUp = r.toUp /\ q.toClient = r.toClient
      /\ q.ticket = r.ticket /\ q.verdict = r.verdict
      /\ \/ q.client = "gone" /\ q.up = r.up /\ r.client \in {"open", "closing"}
         \/ q.up = "gone" /\ q.client = r.client /\ r.up \in {"open", "closing"}
  BY <1>1, <1>2 DEF Sound, Conn
<1>4. Follows(r, q)
  BY <1>1, <1>3 DEF Follows, Sound
<1> QED  BY <1>1, <1>2, <1>4 DEF Moves

LEMMA ClientCloseMoves ==
  ASSUME NEW c, Sound(conn[c]), OnClientClose(c)
  PROVE  Moves(c)
<1>1. PICK r : r = conn[c]
  OBVIOUS
<1>2. PICK u : u = UpAfterClient(r.up)
  OBVIOUS
<1>3. PICK q : q = [r EXCEPT !.stage = "over", !.client = "closed", !.up = u]
  OBVIOUS
<1>4. Becomes(c, q) /\ r.stage = "paired"
  BY <1>1, <1>2, <1>3, Zenon DEF OnClientClose, Stage
<1>5. u = r.up \/ (u = "closing" /\ r.up = "open")
  BY <1>2 DEF UpAfterClient
<1>6. /\ q \in Conn /\ q.stage = "over" /\ q.client = "closed" /\ q.up = u
      /\ q.toUp = r.toUp /\ q.toClient = r.toClient
      /\ q.ticket = r.ticket /\ q.verdict = r.verdict
  BY <1>1, <1>3, <1>5 DEF Sound, Conn
<1>7. Follows(r, q)
  BY <1>1, <1>4, <1>5, <1>6, SocketsFollow
<1> QED  BY <1>1, <1>4, <1>7 DEF Moves

LEMMA UpstreamCloseMoves ==
  ASSUME NEW c, Sound(conn[c]), OnUpstreamClose(c)
  PROVE  Moves(c)
<1>1. PICK r : r = conn[c]
  OBVIOUS
<1>2. PICK l : l = IF r.stage = "paired" /\ r.client = "open" THEN "closing" ELSE r.client
  OBVIOUS
<1>3. PICK q : q = [r EXCEPT !.up = "closed", !.client = l]
  OBVIOUS
<1>4. Becomes(c, q) /\ r.up = "gone"
  BY <1>1, <1>2, <1>3, Zenon DEF OnUpstreamClose, Stage
<1>5. /\ q \in Conn /\ q.stage = r.stage /\ q.client = l /\ q.up = "closed"
      /\ q.toUp = r.toUp /\ q.toClient = r.toClient
      /\ q.ticket = r.ticket /\ q.verdict = r.verdict
  BY <1>1, <1>2, <1>3 DEF Sound, Conn
<1>6. r.stage # "idle"
  BY <1>1, <1>4 DEF Sound
<1>7. Follows(r, q)
  BY <1>1, <1>2, <1>4, <1>5, <1>6, SocketsFollow
<1> QED  BY <1>1, <1>4, <1>7 DEF Moves

LEMMA FrameMoves ==
  ASSUME NEW c, Sound(conn[c]),
         ForwardUp(c) \/ ForwardToClient(c) \/ ClientSends(c) \/ UpstreamSends(c)
  PROVE  Moves(c)
<1>1. PICK r : r = conn[c]
  OBVIOUS
<1>2. PICK f : f = IF r.up = "open" THEN "none" ELSE "dropped"
  OBVIOUS
<1>3. PICK g : g = IF r.client = "open" THEN "none" ELSE "dropped"
  OBVIOUS
<1>4. PICK q :
        /\ Becomes(c, q)
        /\ \/ q = [r EXCEPT !.toUp = f] \/ q = [r EXCEPT !.toUp = "sent"]
           \/ q = [r EXCEPT !.toClient = g] \/ q = [r EXCEPT !.toClient = "sent"]
  BY <1>1, <1>2, <1>3, Zenon DEF ForwardUp, ForwardToClient, ClientSends, UpstreamSends
<1>5. r.stage = "paired"
  BY <1>1 DEF ForwardUp, ForwardToClient, ClientSends, UpstreamSends, Stage
<1>6. f \in Frame /\ g \in Frame /\ "sent" \in Frame
  BY <1>2, <1>3 DEF Frame
<1>7. /\ q \in Conn /\ q.stage = r.stage /\ q.client = r.client /\ q.up = r.up
      /\ q.ticket = r.ticket /\ q.verdict = r.verdict
      /\ \/ q.toClient = r.toClient /\ q.toUp \in {f, "sent"}
         \/ q.toUp = r.toUp /\ q.toClient \in {g, "sent"}
  BY <1>1, <1>4, <1>6 DEF Sound, Conn
<1>8. Follows(r, q)
  BY <1>1, <1>2, <1>3, <1>5, <1>7, FrameFollows
<1> QED  BY <1>1, <1>4, <1>8 DEF Moves

\* The request of an upgrade is read: the one step that sets a ticket.
LEMMA UpgradeBecomes ==
  ASSUME NEW c, NEW id \in Nat, Sound(conn[c]), Upgrade(c, id)
  PROVE  \E q : Becomes(c, q) /\ Sound(q) /\ q.verdict # "ok"
<1>1. PICK r : r = conn[c]
  OBVIOUS
<1>2. PICK v : v = IF id = 0 THEN "no" ELSE "sent"
  OBVIOUS
<1>3. PICK q : q = [r EXCEPT !.stage = "verifying", !.ticket = id, !.client = "open",
                             !.verdict = v]
  OBVIOUS
<1>4. Becomes(c, q) /\ r.stage = "idle"
  BY <1>1, <1>2, <1>3, Zenon DEF Upgrade, Stage
<1>5. /\ q \in Conn /\ q.stage = "verifying" /\ q.client = "open" /\ q.up = r.up
      /\ q.toUp = r.toUp /\ q.toClient = r.toClient /\ q.verdict = v
  BY <1>1, <1>2, <1>3 DEF Sound, Conn
<1>6. Sound(q)
  BY <1>1, <1>4, <1>5 DEF Sound
<1> QED  BY <1>2, <1>4, <1>5, <1>6

\* A verdict comes: only that field changes.
LEMMA VerdictSound ==
  ASSUME NEW r, Sound(r), NEW v \in {"ok", "no"}, NEW q, q = [r EXCEPT !.verdict = v]
  PROVE  Sound(q) /\ q.ticket = r.ticket /\ q.verdict = v
<1>1. /\ q \in Conn /\ q.stage = r.stage /\ q.client = r.client /\ q.up = r.up
      /\ q.toUp = r.toUp /\ q.toClient = r.toClient
      /\ q.ticket = r.ticket /\ q.verdict = v
  BY DEF Sound, Conn
<1> QED  BY <1>1 DEF Sound

\* close() on one record, and the end of the process.
LEMMA ShutFollows ==
  ASSUME NEW r, Sound(r)
  PROVE  Follows(r, Shut(r))
<1>1. CASE r.stage = "paired"
  <2>1. PICK l : l = IF r.client = "open" THEN "closing" ELSE r.client
    OBVIOUS
  <2>2. PICK u : u = UpAfterClient(r.up)
    OBVIOUS
  <2>3. PICK q : q = [r EXCEPT !.client = l, !.up = u]
    OBVIOUS
  <2>4. Shut(r) = q
    BY <1>1, <2>1, <2>2, <2>3, Zenon DEF Shut
  <2>5. u = r.up \/ (u = "closing" /\ r.up = "open")
    BY <2>2 DEF UpAfterClient
  <2>6. /\ q \in Conn /\ q.stage = r.stage /\ q.client = l /\ q.up = u
        /\ q.toUp = r.toUp /\ q.toClient = r.toClient
        /\ q.ticket = r.ticket /\ q.verdict = r.verdict
    BY <2>1, <2>3, <2>5 DEF Sound, Conn
  <2> QED  BY <1>1, <2>1, <2>4, <2>5, <2>6, SocketsFollow
<1>2. CASE r.stage # "paired"
  <2>1. Shut(r) = r
    BY <1>2 DEF Shut
  <2> QED  BY <2>1 DEF Follows
<1> QED  BY <1>1, <1>2

LEMMA ExitFollows ==
  ASSUME NEW r, Sound(r), r.stage # "idle", NEW q,
         q = [Rejected(r) EXCEPT !.up = IF @ = "none" THEN @ ELSE "closed"]
  PROVE  Follows(r, q)
<1>1. PICK p : p = Rejected(r)
  OBVIOUS
<1>2. /\ p \in Conn /\ p.stage = "over" /\ p.client = "closed" /\ p.up = r.up
      /\ p.toUp = r.toUp /\ p.toClient = r.toClient
      /\ p.ticket = r.ticket /\ p.verdict = r.verdict
  BY <1>1 DEF Rejected, Sound, Conn
<1>3. PICK u : u = IF r.up = "none" THEN "none" ELSE "closed"
  OBVIOUS
<1>4. q = [p EXCEPT !.up = u]
  BY <1>1, <1>2, <1>3
<1>5. /\ q \in Conn /\ q.stage = "over" /\ q.client = "closed" /\ q.up = u
      /\ q.toUp = r.toUp /\ q.toClient = r.toClient
      /\ q.ticket = r.ticket /\ q.verdict = r.verdict
  BY <1>2, <1>3, <1>4 DEF Conn
<1> QED  BY <1>3, <1>5 DEF Follows, Sound

-----------------------------------------------------------------------------
(* The tickets under the upgrades.                                         *)

\* Every row of ticket id was let in once and stays consumed.
Spent(id) == id \in 1 .. minted /\ \A t \in tickets : t.id = id => t.consumed

LetIn(c) == conn[c].verdict = "ok"

GateInv ==
    /\ conn \in [Conns -> Conn]
    /\ gateway \in {"up", "closing", "down"}
    /\ \A c \in Conns : Sound(conn[c])
    /\ \A c \in Conns : LetIn(c) => Spent(conn[c].ticket)
    /\ OneUpgradePerTicket

\* No operation of the store makes a spent ticket usable: a reconnect puts a
\* row with a new id beside it.
LEMMA SpentStays ==
  ASSUME StoreInv, [StoreNext]_storeVars, NEW id, Spent(id)
  PROVE  Spent(id)'
<1>1. minted \in Nat /\ id \in 1 .. minted
  BY DEF StoreInv, StoreTypeOK, Spent
<1>2. CASE tickets' = tickets
  <2>1. minted' = minted \/ minted' = minted + 1
    BY AssignEffect DEF StoreInv, StoreNext, storeVars, Tick, RegisterSession,
       UnregisterSession, IssueTicket, ReconnectTicket, RecordSettlement, ConsumeTicket
  <2> QED  BY <1>1, <1>2, <2>1 DEF Spent
<1>3. ASSUME NEW m \in Matches, UnregisterSession(m) PROVE Spent(id)'
  BY <1>3 DEF UnregisterSession, TicketsWithout, Spent
<1>4. ASSUME NEW m \in Matches, NEW owner \in Owners, IssueTicket(m, owner)
      PROVE  Spent(id)'
  <2>1. PICK c \in Ticket : /\ tickets' = tickets \cup {c}
                            /\ c.id = minted + 1 /\ minted' = minted + 1
    BY <1>4, IssueEffect DEF StoreInv
  <2> QED  BY <1>1, <2>1 DEF Spent
<1>5. ASSUME NEW m \in Matches, NEW t \in tickets, ReconnectTicket(m, t)
      PROVE  Spent(id)'
  <2>1. PICK c, d \in Ticket :
          /\ tickets' = (tickets \ {t}) \cup {c, d}
          /\ c.consumed /\ d.id = minted + 1 /\ minted' = minted + 1
    BY <1>5, ReconnectEffect DEF StoreInv
  <2> QED  BY <1>1, <2>1 DEF Spent
<1>6. ASSUME NEW t \in tickets, ConsumeTicket(t) PROVE Spent(id)'
  <2>1. PICK c \in Ticket : /\ tickets' = (tickets \ {t}) \cup {c}
                            /\ c.consumed /\ minted' = minted
    BY <1>6, ConsumeEffect DEF StoreInv
  <2> QED  BY <1>1, <2>1 DEF Spent
<1> QED  BY <1>2, <1>3, <1>4, <1>5, <1>6, OtherTicketSteps DEF StoreInv

\* One connection moves and nobody is let in.
LEMMA MovesKeep ==
  ASSUME GateInv, NEW c \in Conns, NEW q, Becomes(c, q), Sound(q),
         \/ q.verdict # "ok"
         \/ q.verdict = conn[c].verdict /\ q.ticket = conn[c].ticket
  PROVE  GateInv'
<1>1. conn' = [conn EXCEPT ![c] = q] /\ UNCHANGED <<tickets, minted, gateway>>
  BY DEF Becomes, storeVars
<1>2. q \in Conn
  BY DEF Sound
<1>3. conn' \in [Conns -> Conn] /\ \A d \in Conns : Sound(conn'[d])
  BY <1>1, <1>2 DEF GateInv
<1>4. \A d \in Conns : LetIn(d)' => LetIn(d) /\ conn'[d].ticket = conn[d].ticket
  BY <1>1 DEF GateInv, LetIn
<1> QED  BY <1>1, <1>3, <1>4 DEF GateInv, Spent, LetIn, OneUpgradePerTicket

\* The control plane goes on: the records stay, spent tickets stay spent.
LEMMA TablesKeep ==
  ASSUME GateInv, StoreInv, [StoreNext]_storeVars, UNCHANGED gatewayVars
  PROVE  GateInv'
<1>1. \A id : Spent(id) => Spent(id)'
  BY SpentStays
<1> QED  BY <1>1 DEF GateInv, gatewayVars, LetIn, OneUpgradePerTicket

\* A ticket is let in: it was not consumed, so no other upgrade has it.
LEMMA VerifyKeeps ==
  ASSUME GateInv, StoreInv, NEW c \in Conns, PlaneVerifies(c)
  PROVE  GateInv'
<1>1. PICK v \in {"ok", "no"} :
        /\ conn' = [conn EXCEPT ![c].verdict = v]
        /\ v = "ok" => \E t \in tickets : t.id = conn[c].ticket /\ ConsumeTicket(t)
        /\ v = "no" => UNCHANGED storeVars
  <2>1. CASE \E t \in tickets : /\ t.id = conn[c].ticket /\ ConsumeTicket(t)
                               /\ conn' = [conn EXCEPT ![c].verdict = "ok"]
    BY <2>1
  <2>2. CASE conn' = [conn EXCEPT ![c].verdict = "no"] /\ UNCHANGED storeVars
    BY <2>2
  <2> QED  BY <2>1, <2>2, Zenon DEF PlaneVerifies
<1>2. gateway' = gateway /\ [StoreNext]_storeVars
  BY DEF PlaneVerifies, StoreNext
<1>3. PICK q : q = [conn[c] EXCEPT !.verdict = v]
  OBVIOUS
<1>4. Sound(q) /\ q.ticket = conn[c].ticket /\ q.verdict = v
  BY <1>3, VerdictSound DEF GateInv
<1>5. conn' = [conn EXCEPT ![c] = q]
  BY <1>1, <1>3
<1>6. conn' \in [Conns -> Conn] /\ \A d \in Conns : Sound(conn'[d])
  BY <1>4, <1>5 DEF GateInv, Sound
<1>7. \A d \in Conns : /\ conn'[d].ticket = conn[d].ticket
                       /\ d # c => conn'[d].verdict = conn[d].verdict
  BY <1>4, <1>5 DEF GateInv
<1>8. conn'[c].verdict = v
  BY <1>4, <1>5 DEF GateInv
<1>9. \A id : Spent(id) => Spent(id)'
  BY <1>2, SpentStays
<1>10. CASE v = "no"
  <2>1. \A d \in Conns : LetIn(d)' => LetIn(d)
    BY <1>7, <1>8, <1>10 DEF LetIn
  <2> QED  BY <1>2, <1>6, <1>7, <1>9, <2>1 DEF GateInv, LetIn, OneUpgradePerTicket
<1>11. CASE v = "ok"
  <2>1. PICK t \in tickets : t.id = conn[c].ticket /\ ConsumeTicket(t)
    BY <1>1, <1>11
  <2>2. ~t.consumed /\ t.id \in 1 .. minted
    BY <2>1 DEF ConsumeTicket, Admissible, StoreInv, StoreTypeOK, KeysAreUnique, Ticket
  <2>3. PICK r \in Ticket : /\ tickets' = (tickets \ {t}) \cup {r}
                            /\ r.id = t.id /\ r.consumed /\ minted' = minted
    BY <2>1, ConsumeEffect DEF StoreInv
  <2>4. Spent(t.id)'
    BY <2>2, <2>3 DEF Spent, StoreInv, KeysAreUnique
  <2>5. \A d \in Conns : LetIn(d) => conn[d].ticket # t.id
    BY <2>2 DEF GateInv, Spent
  <2>6. \A d \in Conns : d # c => (LetIn(d)' <=> LetIn(d))
    BY <1>7 DEF LetIn
  <2>7. \A d \in Conns : LetIn(d)' => Spent(conn[d].ticket)'
    <3> SUFFICES ASSUME NEW d \in Conns, LetIn(d)'
                 PROVE  Spent(conn[d].ticket)'
      OBVIOUS
    <3>1. conn'[d].ticket = conn[d].ticket
      BY <1>7
    <3>2. PICK id : id = conn[d].ticket
      OBVIOUS
    <3>3. Spent(id)'
      <4>1. CASE d = c
        BY <2>1, <2>4, <3>2, <4>1
      <4>2. CASE d # c
        BY <1>9, <2>6, <3>2, <4>2 DEF GateInv
      <4> QED  BY <4>1, <4>2
    <3> QED  BY <3>1, <3>2, <3>3 DEF Spent
  <2>8. OneUpgradePerTicket'
    BY <1>7, <2>1, <2>5, <2>6 DEF GateInv, LetIn, OneUpgradePerTicket
  <2> QED  BY <1>2, <1>6, <2>7, <2>8 DEF GateInv
<1> QED  BY <1>10, <1>11

\* A signal, or the end of the process: every record at once.
LEMMA AllMoveKeep ==
  ASSUME GateInv, NEW f, conn' = [c \in Conns |-> f[c]],
         \A c \in Conns : Follows(conn[c], f[c]),
         UNCHANGED storeVars, gateway' \in {"up", "closing", "down"}
  PROVE  GateInv'
<1>1. \A c \in Conns : Sound(conn'[c]) /\ conn'[c].ticket = conn[c].ticket
                                       /\ conn'[c].verdict = conn[c].verdict
  BY DEF Follows
<1>2. conn' \in [Conns -> Conn]
  BY DEF Follows, Sound
<1>3. UNCHANGED <<tickets, minted>>
  BY DEF storeVars
<1> QED  BY <1>1, <1>2, <1>3 DEF GateInv, Spent, LetIn, OneUpgradePerTicket

LEMMA ShutdownKeeps ==
  ASSUME GateInv, Shutdown
  PROVE  GateInv'
<1> DEFINE f == [c \in Conns |-> Shut(conn[c])]
<1>1. conn' = [c \in Conns |-> f[c]]
  BY DEF Shutdown
<1>2. \A c \in Conns : Follows(conn[c], f[c])
  BY ShutFollows DEF GateInv
<1> HIDE DEF f
<1> QED  BY <1>1, <1>2, AllMoveKeep DEF Shutdown

LEMMA ExitKeeps ==
  ASSUME GateInv, Exit
  PROVE  GateInv'
<1> DEFINE End(r) == [Rejected(r) EXCEPT !.up = IF @ = "none" THEN @ ELSE "closed"]
           f == [c \in Conns |-> IF Stage(c, "idle") THEN conn[c] ELSE End(conn[c])]
<1>1. conn' = [c \in Conns |-> f[c]]
  BY Zenon DEF Exit
<1>2. ASSUME NEW c \in Conns PROVE Follows(conn[c], f[c])
  <2>1. CASE Stage(c, "idle")
    BY <2>1 DEF Follows, GateInv
  <2>2. CASE ~Stage(c, "idle")
    <3>1. PICK q : q = End(conn[c])
      OBVIOUS
    <3>2. Follows(conn[c], q)
      BY <2>2, <3>1, ExitFollows DEF Stage, GateInv
    <3>3. f[c] = q
      BY <2>2, <3>1, Zenon
    <3> QED  BY <3>2, <3>3
  <2> QED  BY <2>1, <2>2
<1> HIDE DEF f
<1> QED  BY <1>1, <1>2, AllMoveKeep DEF Exit

LEMMA GateInitInv ==
  ASSUME GatewayInit
  PROVE  GateInv
<1>1. PICK r : r = [stage |-> "idle", ticket |-> 0, verdict |-> "none", client |-> "none",
                    up |-> "none", toUp |-> "none", toClient |-> "none"]
  OBVIOUS
<1>2. /\ r \in Conn /\ r.stage = "idle" /\ r.verdict = "none" /\ r.client = "none"
      /\ r.up = "none" /\ r.toUp = "none" /\ r.toClient = "none"
  BY <1>1 DEF Conn, Frame
<1>3. conn = [c \in Conns |-> r] /\ gateway = "up"
  BY <1>1 DEF GatewayInit
<1> QED  BY <1>2, <1>3 DEF GateInv, Sound, LetIn, OneUpgradePerTicket

LEMMA GateStepInv ==
  ASSUME GateInv, StoreInv, [GatewayNext]_vars
  PROVE  GateInv'
<1>1. CASE UNCHANGED vars
  <2>1. UNCHANGED gatewayVars /\ [StoreNext]_storeVars
    BY <1>1 DEF vars, gatewayVars
  <2> QED  BY <2>1, TablesKeep
<1>2. CASE PlaneGoesOn
  <2>1. UNCHANGED gatewayVars /\ [StoreNext]_storeVars
    BY <1>2 DEF PlaneGoesOn, StoreNext
  <2> QED  BY <2>1, TablesKeep
<1>3. ASSUME NEW c \in Conns, NEW id \in 0 .. minted, Upgrade(c, id) PROVE GateInv'
  <2>1. id \in Nat /\ Sound(conn[c])
    BY DEF GateInv, StoreInv, StoreTypeOK
  <2>2. PICK q : Becomes(c, q) /\ Sound(q) /\ q.verdict # "ok"
    BY <1>3, <2>1, UpgradeBecomes
  <2> QED  BY <2>2, MovesKeep
<1>4. ASSUME NEW c \in Conns, PlaneVerifies(c) PROVE GateInv'
  BY <1>4, VerifyKeeps
<1>5. ASSUME NEW c \in Conns, Moves(c) PROVE GateInv'
  BY <1>5, MovesKeep DEF Moves, Follows
<1>6. ASSUME NEW c \in Conns,
             \/ Due(c) \/ Answers(c) \/ ForwardUp(c) \/ ForwardToClient(c)
             \/ ClientSends(c) \/ UpstreamSends(c) \/ ClientLeaves(c) \/ UpstreamLeaves(c)
      PROVE  GateInv'
  <2>1. Sound(conn[c])
    BY DEF GateInv
  <2>2. Moves(c)
    BY <1>6, <2>1, FinishMoves, DialMoves, AnswerMoves, LeaveMoves, ClientCloseMoves,
       UpstreamCloseMoves, FrameMoves DEF Due
  <2> QED  BY <1>5, <2>2
<1>7. CASE Shutdown
  BY <1>7, ShutdownKeeps
<1>8. CASE Exit
  BY <1>8, ExitKeeps
<1> QED  BY <1>1, <1>2, <1>3, <1>4, <1>6, <1>7, <1>8 DEF GatewayNext

\* No step of the gateway, its clients or the control plane leaves it.
THEOREM GateInvariant == GatewaySpec => [](StoreInv /\ GateInv)
<1>1. GatewayInit => GateInv
  BY GateInitInv
<1>2. StoreInv /\ GateInv /\ [GatewayNext]_vars => GateInv'
  BY GateStepInv
<1>3. GatewaySpec => []StoreInv
  BY GatewayRunsOnStore, StoreInvariant, PTL
<1> QED  BY <1>1, <1>2, <1>3, PTL DEF GatewaySpec

\* The record of every connection and the tables keep their types.
THEOREM GatewayTypes == GatewaySpec => []GatewayTypeOK
<1>1. StoreInv /\ GateInv => GatewayTypeOK
  BY DEF StoreInv, GateInv, GatewayTypeOK
<1> QED  BY GateInvariant, <1>1, PTL

\* POST /tickets/verify lets one upgrade in per ticket, although the gateway
\* gives up a request after two seconds that the control plane still handles.
THEOREM OneUpgrade == GatewaySpec => []OneUpgradePerTicket
<1>1. GateInv => OneUpgradePerTicket
  BY DEF GateInv
<1> QED  BY GateInvariant, <1>1, PTL

\* Two upgrades let in to one seat hold tickets of which a reconnect has
\* superseded one: the gateway never pairs two clients with a seat otherwise.
THEOREM SeatShared == GatewaySpec => []SeatSharedOnlyByReconnect
<1>1. StoreInv /\ GateInv => SeatSharedOnlyByReconnect
  <2> SUFFICES ASSUME StoreInv, GateInv, NEW c \in Conns, NEW d \in Conns,
                      NEW t \in tickets, NEW u \in tickets,
                      c # d, conn[c].verdict = "ok", conn[d].verdict = "ok",
                      t.id = conn[c].ticket, u.id = conn[d].ticket,
                      t.match = u.match, t.seat = u.seat,
                      ~t.superseded, ~u.superseded
               PROVE  FALSE
    BY DEF SeatSharedOnlyByReconnect
  <2>1. t = u
    BY DEF StoreInv, OneLiveTicketPerSeat
  <2> QED  BY <2>1 DEF GateInv, OneUpgradePerTicket
<1> QED  BY GateInvariant, <1>1, PTL

\* The "is the other side open" tests of the two message handlers drop a frame
\* only when that side has begun to close.
THEOREM FramesArrive == GatewaySpec => []NoFrameLost
<1>1. GateInv => NoFrameLost
  BY DEF GateInv, Sound, NoFrameLost
<1> QED  BY GateInvariant, <1>1, PTL
=============================================================================
