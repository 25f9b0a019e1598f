-------------------------------- MODULE Gateway --------------------------------
(***************************************************************************)
(* The realtime gateway, the only way from a client to a match process.    *)
(* An upgrade carries a ticket; the gateway has the control plane consume  *)
(* it, dials the match process, completes the client's upgrade only when   *)
(* that socket is open, and from then on ties the two together.            *)
(*                                                                         *)
(* Every callback of server.ts runs to its end, so a callback is a step;   *)
(* what happens to a socket between two callbacks (it closes, it opens, a  *)
(* frame is sent on it) is a step of its own.  At most one frame of each   *)
(* direction is under way at a time.  An error event that nobody listens   *)
(* to, of a raw socket before its upgrade or of a client's WebSocket,      *)
(* would end the process; it is not modelled.                              *)
(***************************************************************************)
EXTENDS MatchStore

CONSTANTS
    Conns        \* upgrade requests, each with a client socket of its own

VARIABLES
    conn,        \* conn[c]: where the upgrade c stands and what its two sockets do
    gateway      \* "up", "closing" after a signal, "down" once the process ended

gatewayVars == <<conn, gateway>>
vars == <<storeVars, conn, gateway>>

Frame == {"none", "sent", "dropped"}

Conn == [stage : {"idle", "verifying", "dialling", "paired", "over"},
         ticket : Nat,                           \* 0: the query has no ticket
         verdict : {"none", "sent", "ok", "no"}, \* of POST /tickets/verify
         client : {"none", "open", "closing", "gone", "closed"},
         up : {"none", "connecting", "open", "closing", "gone", "closed"},
         toUp : Frame, toClient : Frame]

GatewayTypeOK ==
    /\ StoreTypeOK
    /\ conn \in [Conns -> Conn]
    /\ gateway \in {"up", "closing", "down"}

GatewayInit ==
    /\ StoreInit
    /\ conn = [c \in Conns |->
           [stage |-> "idle", ticket |-> 0, verdict |-> "none", client |-> "none",
            up |-> "none", toUp |-> "none", toClient |-> "none"]]
    /\ gateway = "up"

Stage(c, s) == conn[c].stage = s

(* A callback of c: the record changes, the tables and the process do not. *)
Becomes(c, r) ==
    /\ conn' = [conn EXCEPT ![c] = r]
    /\ UNCHANGED <<storeVars, gateway>>

(* rejectUpgrade answers and destroys the socket, in whatever state it is. *)
Rejected(r) == [r EXCEPT !.stage = "over", !.client = "closed"]

-----------------------------------------------------------------------------
(* The upgrade.                                                            *)

Upgrade(c, id) ==
    /\ gateway # "down"
    /\ Stage(c, "idle")
    /\ Becomes(c, [conn[c] EXCEPT !.stage = "verifying", !.ticket = id, !.client = "open",
                                  !.verdict = IF id = 0 THEN "no" ELSE "sent"])

(* The control plane handles POST /tickets/verify.  It neither knows nor   *)
(* cares whether the gateway still waits for the answer.                   *)
PlaneVerifies(c) ==
    /\ conn[c].verdict = "sent"
    /\ \/ \E t \in tickets :
             /\ t.id = conn[c].ticket
             /\ ConsumeTicket(t)
             /\ conn' = [conn EXCEPT ![c].verdict = "ok"]
       \/ /\ \A t \in tickets : t.id = conn[c].ticket => ~Admissible(t)
          /\ conn' = [conn EXCEPT ![c].verdict = "no"]
          /\ UNCHANGED storeVars
    /\ UNCHANGED gateway

(* 401: the ticket is missing or the control plane turned it down.         *)
Refuse(c) ==
    /\ Stage(c, "verifying")
    /\ conn[c].verdict = "no"
    /\ Becomes(c, Rejected(conn[c]))

(* Mutant: the fetch has no time limit.                                    *)
FetchFailsWhenAnswered(r) == r.ticket # 0 /\ r.verdict # "sent"

FetchFails(r) == r.ticket # 0

(* 500: the fetch failed or ran into its two seconds; the request may have *)
(* been handled, or still be.                                              *)
VerifyThrows(c) ==
    /\ Stage(c, "verifying")
    /\ FetchFails(conn[c])
    /\ Becomes(c, Rejected(conn[c]))

(* Mutant: the client is upgraded before the upstream has answered.        *)
DialledAndUpgraded(r) == [r EXCEPT !.stage = "paired", !.up = "connecting"]

Dialled(r) == [r EXCEPT !.stage = "dialling", !.up = "connecting"]

(* A verdict without an upstream (502) comes from the development verifier *)
(* only: the control plane's turns such an answer into a refusal.          *)
Dial(c) ==
    /\ Stage(c, "verifying")
    /\ conn[c].verdict = "ok"
    /\ Becomes(c, Dialled(conn[c]))

(* handleUpgrade calls back at once, or destroys the client's socket when  *)
(* it can no longer be used or the WebSocket server is closing; then no    *)
(* handler ever holds the upstream that has just opened.                   *)
UpstreamOpens(c) ==
    /\ conn[c].up = "connecting"
    /\ Becomes(c,
           IF conn[c].client = "open" /\ gateway = "up"
           THEN [conn[c] EXCEPT !.up = "open", !.stage = "paired"]
           ELSE [Rejected(conn[c]) EXCEPT !.up = "open"])

(* 502: the match process cannot be reached.                               *)
UpstreamFails(c) ==
    /\ conn[c].up = "connecting"
    /\ Becomes(c, [Rejected(conn[c]) EXCEPT !.up = "closed"])

-----------------------------------------------------------------------------
(* A pair of sockets.                                                      *)

(* Mutant: only the map entries are deleted.                               *)
UpAfterClientLeft(up) == up

UpAfterClient(up) == IF up = "open" THEN "closing" ELSE up

(* ws "close": the upstream is closed with it.                             *)
OnClientClose(c) ==
    /\ Stage(c, "paired")
    /\ conn[c].client = "gone"
    /\ Becomes(c, [conn[c] EXCEPT !.stage = "over", !.client = "closed",
                                  !.up = UpAfterClient(@)])

(* upstream "close" and "error": the client is closed with it.             *)
OnUpstreamClose(c) ==
    /\ conn[c].up = "gone"
    /\ Becomes(c, [conn[c] EXCEPT !.up = "closed",
           !.client = IF Stage(c, "paired") /\ @ = "open" THEN "closing" ELSE @])

(* A message is sent on only when the other side is open.                  *)
ForwardUp(c) ==
    /\ Stage(c, "paired")
    /\ conn[c].toUp = "sent"
    /\ Becomes(c, [conn[c] EXCEPT
           !.toUp = IF conn[c].up = "open" THEN "none" ELSE "dropped"])

ForwardToClient(c) ==
    /\ Stage(c, "paired")
    /\ conn[c].toClient = "sent"
    /\ Becomes(c, [conn[c] EXCEPT
           !.toClient = IF conn[c].client = "open" THEN "none" ELSE "dropped"])

-----------------------------------------------------------------------------
(* What the sockets do.                                                    *)

ClientSends(c) ==
    /\ Stage(c, "paired")
    /\ conn[c].client = "open"
    /\ conn[c].toUp = "none"
    /\ Becomes(c, [conn[c] EXCEPT !.toUp = "sent"])

UpstreamSends(c) ==
    /\ Stage(c, "paired")
    /\ conn[c].up = "open"
    /\ conn[c].toClient = "none"
    /\ Becomes(c, [conn[c] EXCEPT !.toClient = "sent"])

ClientLeaves(c) ==
    /\ conn[c].client = "open"
    /\ Becomes(c, [conn[c] EXCEPT !.client = "gone"])

UpstreamLeaves(c) ==
    /\ conn[c].up = "open"
    /\ Becomes(c, [conn[c] EXCEPT !.up = "gone"])

(* A socket the gateway closed ends when its peer answers, or after the    *)
(* thirty seconds of the WebSocket library.                                *)
ClientCloseEnds(c) ==
    /\ conn[c].client = "closing"
    /\ Becomes(c, [conn[c] EXCEPT !.client = "gone"])

UpstreamCloseEnds(c) ==
    /\ conn[c].up = "closing"
    /\ Becomes(c, [conn[c] EXCEPT !.up = "gone"])

-----------------------------------------------------------------------------
(* close(): every pair is closed from both ends; an upgrade that is still  *)
(* being verified or dialled is in neither map.                            *)
(* Mutant: the pairs are left to the WebSocket server, which only waits.   *)
ShutNothing(r) == r

Shut(r) ==
    IF r.stage = "paired"
    THEN [r EXCEPT !.client = IF @ = "open" THEN "closing" ELSE @,
                   !.up = UpAfterClient(@)]
    ELSE r

Shutdown ==
    /\ gateway = "up"
    /\ gateway' = "closing"
    /\ conn' = [c \in Conns |-> Shut(conn[c])]
    /\ UNCHANGED storeVars

(* wss.close and app.close have waited for every client socket; the        *)
(* process exits and takes what is left with it.                           *)
Exit ==
    /\ gateway = "closing"
    /\ \A c \in Conns :
          \/ conn[c].client \in {"none", "closed"}
          \/ conn[c].client = "gone" /\ ~Stage(c, "paired")
    /\ gateway' = "down"
    /\ conn' = [c \in Conns |->
           IF Stage(c, "idle") THEN conn[c]
           ELSE [Rejected(conn[c]) EXCEPT !.up = IF @ = "none" THEN @ ELSE "closed"]]
    /\ UNCHANGED storeVars

-----------------------------------------------------------------------------
(* The rest of the control plane goes on beside the gateway.               *)
PlaneGoesOn ==
    /\ \/ Tick
       \/ \E m \in Matches :
             \/ \E spec \in Specs : RegisterSession(m, spec)
             \/ UnregisterSession(m)
             \/ \E owner \in Owners : IssueTicket(m, owner)
             \/ \E t \in tickets : ReconnectTicket(m, t)
    /\ UNCHANGED gatewayVars

(* What the event loop runs once it is due: the callbacks and the timers.  *)
Due(c) ==
    \/ Refuse(c) \/ VerifyThrows(c) \/ Dial(c)
    \/ OnClientClose(c) \/ OnUpstreamClose(c)
    \/ ClientCloseEnds(c) \/ UpstreamCloseEnds(c)

(* What the match process, or the kernel of its machine, answers a dial.   *)
Answers(c) == UpstreamOpens(c) \/ UpstreamFails(c)

GatewayNext ==
    \/ \E c \in Conns :
          \/ \E id \in 0 .. minted : Upgrade(c, id)
          \/ PlaneVerifies(c)
          \/ Due(c)
          \/ Answers(c)
          \/ ForwardUp(c) \/ ForwardToClient(c)
          \/ ClientSends(c) \/ UpstreamSends(c)
          \/ ClientLeaves(c) \/ UpstreamLeaves(c)
    \/ Shutdown
    \/ Exit
    \/ PlaneGoesOn

GatewaySpec == GatewayInit /\ [][GatewayNext]_vars

(* The control plane may never answer and peers may never leave; callbacks *)
(* and timers run, a dialled address answers or refuses.                   *)
FairGatewaySpec ==
    /\ GatewaySpec
    /\ \A c \in Conns : WF_vars(Due(c)) /\ WF_vars(Answers(c))
    /\ WF_vars(Exit)
-----------------------------------------------------------------------------
(* A ticket lets one upgrade in, however many carry it and however late    *)
(* the control plane handles the request of one the gateway gave up.       *)
OneUpgradePerTicket ==
    \A c, d \in Conns :
        (conn[c].verdict = "ok" /\ conn[d].verdict = "ok"
            /\ conn[c].ticket = conn[d].ticket) => c = d

(* Two upgrades reach one seat of a match only when its player reconnected *)
(* in between: the ticket of one of them is superseded.                    *)
SeatSharedOnlyByReconnect ==
    \A c, d \in Conns : \A t, u \in tickets :
        (/\ c # d /\ conn[c].verdict = "ok" /\ conn[d].verdict = "ok"
         /\ t.id = conn[c].ticket /\ u.id = conn[d].ticket
         /\ t.match = u.match /\ t.seat = u.seat) => t.superseded \/ u.superseded

(* The two "is the other side open" tests never cost a frame while both    *)
(* ends are up: the client is upgraded only when the upstream is open, and *)
(* the listeners are attached before the upstream's first frame is read.   *)
NoFrameLost ==
    \A c \in Conns :
        (conn[c].toUp = "dropped" \/ conn[c].toClient = "dropped")
            => conn[c].client # "open" \/ conn[c].up # "open"

(* Whichever end of a pair closes, the other is closed too.                *)
PairsCloseTogether ==
    \A c \in Conns :
        (Stage(c, "paired") /\ (conn[c].client # "open" \/ conn[c].up # "open"))
            ~> (conn[c].client = "closed" /\ conn[c].up = "closed")

(* An upgrade is answered: it is paired or its socket is destroyed, even   *)
(* if the control plane never answers.                                     *)
EveryUpgradeIsAnswered ==
    \A c \in Conns : Stage(c, "verifying") ~> (Stage(c, "paired") \/ Stage(c, "over"))

(* A gateway that was told to stop does, whatever its clients do.          *)
ShutdownEnds == (gateway = "closing") ~> (gateway = "down")

(* server.ts: any side that closes or errs closes the other.               *)
EitherSideClosesTheOther ==
    \A c \in Conns :
        (conn[c].up = "open" /\ conn[c].client \in {"gone", "closed"})
            ~> (conn[c].up = "closed")
=============================================================================
