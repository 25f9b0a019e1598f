------------------------------ MODULE MatchHost ------------------------------
(***************************************************************************)
(* The match host (backend/match-host): the registry that starts one game  *)
(* process per match, registers it with the control plane, keeps its       *)
(* lease, and takes it down again.  One action is the code between two     *)
(* awaits of one of its activities: a POST /matches in flight, the stop of *)
(* a match (#finalize), a run of the reclaim timer, the shutdown.  A call  *)
(* to the control plane takes effect there when it ends here; it may fail  *)
(* before or after it did.                                                 *)
(*                                                                         *)
(* Time is kept as ages.  A lease's lastValidInputAt and expiresAt are     *)
(* always written together, so age[m], the time since then, stands for     *)
(* both.                                                                   *)
(***************************************************************************)
EXTENDS Integers, Sequences, FiniteSets

CONSTANTS
    Matches,      \* match ids (randomUUID, never used twice)
    Plan,         \* Plan[m]: what m plays: "official", "blueprint" or "content"
    MinPort, MaxPort,
    MaxMatches,   \* maxConcurrentMatches
    Lease,        \* leaseDurationMs, in clock units
    Idle,         \* idleTimeoutMs, in clock units
    Sweeps,       \* runs of the reclaim timer that may overlap
    Faults        \* what may fail or happen: a subset of FaultKinds

FaultKinds == {"envelope", "listen", "register", "settlement", "replay", "unregister",
               "renew", "hangup", "shutdown"}

ASSUME PlanType == Plan \in [Matches -> {"official", "blueprint", "content"}]
ASSUME PortRange == MinPort \in Nat \ {0} /\ MaxPort \in Nat /\ MinPort <= MaxPort
ASSUME MaxMatchesType == MaxMatches \in Nat
ASSUME LeaseTypes == Lease \in Nat \ {0} /\ Idle \in Nat \ {0}
ASSUME FaultsType == Faults \subseteq FaultKinds

Ports == MinPort .. MaxPort
NoPort == 0

Starting == {"preparing", "listening", "registering"}
Stopping == {"settling", "replaying", "unregistering"}
Ended == {"ended", "settle_error", "unregister_error"}

VARIABLES
    pc,           \* pc[m]: where the match is between POST /matches and its end
    port,         \* port[m]: the port it was given
    proc,         \* proc[m]: its process: "none", "alive", "dying" (SIGTERM sent) or "dead"
    stopper,      \* stopper[m]: who stopped it: "exit", "sweep", "request" or "shutdown"
    result,       \* result[m]: what it left to post: "settlement", "replay"
    unseen,       \* unseen[m]: valid_input_tick is ahead of lastRenewedValidInputTick
    age,          \* age[m]: time since its lease was created or renewed
    quiet,        \* quiet[m]: time since a player of it really acted
    posted,       \* posted[m]: settlementPosted and replayPosted, as a set
    entries,      \* the registry's map, in insertion order
    inUse,        \* ports the allocator holds
    cursor,       \* where its next search starts
    sweep,        \* sweep[s]: [pc, at, todo], a run of the reclaim timer
    host,         \* "up", "closing" (shutdown), "draining" (server.close) or "exited"
    registered,   \* control plane: match ids with a session
    stored        \* control plane: <<kind, match>> of what was recorded

control == <<registered, stored>>
ports == <<port, inUse, cursor>>
clocks == <<age, quiet, unseen>>
vars == <<pc, proc, stopper, result, posted, entries, sweep, host, ports, clocks, control>>

MaxAge == IF Lease > Idle THEN Lease ELSE Idle

HostTypeOK ==
    /\ pc \in [Matches -> {"none", "running", "failed"} \cup Starting \cup Stopping \cup Ended]
    /\ port \in [Matches -> Ports \cup {NoPort}]
    /\ proc \in [Matches -> {"none", "alive", "dying", "dead"}]
    /\ stopper \in [Matches -> {"none", "exit", "sweep", "request", "shutdown"}]
    /\ result \in [Matches -> SUBSET {"settlement", "replay"}]
    /\ unseen \in [Matches -> BOOLEAN]
    /\ age \in [Matches -> 0 .. MaxAge]
    /\ quiet \in [Matches -> 0 .. MaxAge]
    /\ posted \in [Matches -> SUBSET {"settlement", "replay"}]
    /\ entries \in Seq(Matches)
    /\ inUse \subseteq Ports
    /\ cursor \in Ports
    /\ sweep \in [Sweeps -> [pc : {"idle", "settlement", "replay", "reclaim"},
                             at : Nat, todo : SUBSET Matches]]
    /\ host \in {"up", "closing", "draining", "exited"}
    /\ registered \subseteq Matches
    /\ stored \subseteq {"settlement", "replay"} \X Matches

HostInit ==
    /\ pc = [m \in Matches |-> "none"]
    /\ port = [m \in Matches |-> NoPort]
    /\ proc = [m \in Matches |-> "none"]
    /\ stopper = [m \in Matches |-> "none"]
    /\ result = [m \in Matches |-> {}]
    /\ unseen = [m \in Matches |-> FALSE]
    /\ age = [m \in Matches |-> 0]
    /\ quiet = [m \in Matches |-> 0]
    /\ posted = [m \in Matches |-> {}]
    /\ entries = << >>
    /\ inUse = {}
    /\ cursor = MinPort
    /\ sweep = [s \in Sweeps |-> [pc |-> "idle", at |-> 0, todo |-> {}]]
    /\ host = "up"
    /\ registered = {}
    /\ stored = {}

Up == host # "exited"
Running == {m \in Matches : pc[m] = "running"}
To(m, where) == pc' = [pc EXCEPT ![m] = where]

-----------------------------------------------------------------------------
(* PortAllocator: the first free port at or after the cursor, wrapping.    *)

Distance(p) == IF p >= cursor THEN p - cursor ELSE p - cursor + (MaxPort - MinPort + 1)

NextPort == {p \in Ports \ inUse : \A q \in Ports \ inUse : Distance(p) <= Distance(q)}

After(p) == IF p = MaxPort THEN MinPort ELSE p + 1

(* Mutant: the port of a match that ended stays taken.                     *)
ReleaseNot(ms) == UNCHANGED ports

Release(ms) ==
    /\ inUse' = inUse \ {port[m] : m \in ms}
    /\ UNCHANGED <<port, cursor>>

-----------------------------------------------------------------------------
(* Starting a match.                                                       *)

(* occupiedCount: the running matches and the reservations.                *)
Occupied == {m \in Matches : pc[m] \in Starting \cup {"running"}}

(* POST /matches up to its first await.  A full host answers 503 and an    *)
(* empty port range 500, both without a trace.  Only a content match has   *)
(* an envelope to fetch before its process is launched.                    *)
Post(m) ==
    /\ host \in {"up", "closing"}
    /\ pc[m] = "none"
    /\ Cardinality(Occupied) < MaxMatches
    /\ \E p \in NextPort :
          /\ port' = [port EXCEPT ![m] = p]
          /\ inUse' = inUse \cup {p}
          /\ cursor' = After(p)
    /\ IF Plan[m] = "content"
       THEN To(m, "preparing") /\ UNCHANGED proc
       ELSE To(m, "listening") /\ proc' = [proc EXCEPT ![m] = "alive"]
    /\ UNCHANGED <<stopper, result, posted, entries, sweep, host, clocks, control>>

EnvelopeFetched(m) ==
    /\ Up
    /\ pc[m] = "preparing"
    /\ To(m, "listening")
    /\ proc' = [proc EXCEPT ![m] = "alive"]
    /\ UNCHANGED <<stopper, result, posted, entries, sweep, host, ports, clocks, control>>

Kill(ms) ==
    proc' = [m \in Matches |-> IF m \in ms /\ proc[m] = "alive" THEN "dying" ELSE proc[m]]

(* The catch of launchRegisteredMatch: the process, if any, is told to     *)
(* stop and the port is free again at once.                                *)
StartFails(m) ==
    /\ To(m, "failed")
    /\ Kill({m})
    /\ Release({m})
    /\ UNCHANGED <<stopper, result, posted, entries, sweep, host, clocks, stored>>

EnvelopeFails(m) ==
    /\ Up /\ "envelope" \in Faults
    /\ pc[m] = "preparing"
    /\ StartFails(m)
    /\ UNCHANGED registered

Listens(m) ==
    /\ Up
    /\ pc[m] = "listening" /\ proc[m] = "alive"
    /\ To(m, "registering")
    /\ UNCHANGED <<proc, stopper, result, posted, entries, sweep, host, ports, clocks, control>>

(* The listen probe gives up, or the process exited first.                 *)
ListenFails(m) ==
    /\ Up
    /\ pc[m] = "listening"
    /\ "listen" \in Faults \/ proc[m] = "dead"
    /\ StartFails(m)
    /\ UNCHANGED registered

(* Mutant: the stop leaves the result to the timer.                        *)
FirstCallUnregister(m) == "unregistering"

(* tryRecordReplay makes a call only for a tape that is not stored yet.    *)
AfterSettling(m) ==
    IF "replay" \in result[m] \ posted[m] THEN "replaying" ELSE "unregistering"

(* The call #finalize makes first: a settlement, if the heartbeats had one.*)
FirstCall(m) == IF "settlement" \in result[m] THEN "settling" ELSE AfterSettling(m)

(* The synchronous part of #finalize, for each of ms.                      *)
StopAll(ms, who) ==
    /\ pc' = [m \in Matches |-> IF m \in ms THEN FirstCall(m) ELSE pc[m]]
    /\ stopper' = [m \in Matches |-> IF m \in ms THEN who ELSE stopper[m]]
    /\ Release(ms)

(* Renew the leases of some matches; the clocks of a stopped one are done. *)
Rewind(stopped, renewed) ==
    /\ age' = [m \in Matches |-> IF m \in stopped \cup renewed THEN 0 ELSE age[m]]
    /\ unseen' = [m \in Matches |-> unseen[m] /\ m \notin stopped \cup renewed]
    /\ quiet' = [m \in Matches |-> IF m \in stopped THEN 0 ELSE quiet[m]]

(* 201 from the control plane: the match enters the registry with a fresh  *)
(* lease; a process that exited meanwhile finalizes it in the same turn.   *)
Registers(m) ==
    /\ Up
    /\ pc[m] = "registering"
    /\ registered' = registered \cup {m}
    /\ entries' = Append(entries, m)
    /\ IF proc[m] = "dead"
       THEN StopAll({m}, "exit")
       ELSE To(m, "running") /\ UNCHANGED <<stopper, ports>>
    /\ UNCHANGED <<proc, result, posted, sweep, host, clocks, stored>>

(* The call is lost, or its answer is: then the session stays.             *)
RegisterFails(m) ==
    /\ Up /\ "register" \in Faults
    /\ pc[m] = "registering"
    /\ StartFails(m)
    /\ registered' \in {registered, registered \cup {m}}

-----------------------------------------------------------------------------
(* The game process.                                                       *)

(* A heartbeat that reports a new valid_input_tick.                        *)
PlayerActs(m) ==
    /\ pc[m] = "running" /\ proc[m] = "alive"
    /\ unseen' = [unseen EXCEPT ![m] = TRUE]
    /\ quiet' = [quiet EXCEPT ![m] = 0]
    /\ UNCHANGED <<pc, proc, stopper, result, posted, entries, sweep, host, ports, age, control>>

(* A heartbeat with the settlement gets to the host, or the tape of an     *)
(* official race is written.  Neither follows from the end of the match: a *)
(* heartbeat may be lost, and Bastion prints one then only at some ticks   *)
(* (module Settlement).                                                    *)
Finishes(m) ==
    /\ pc[m] = "running" /\ proc[m] = "alive"
    /\ \E kind \in {"settlement", "replay"} \ result[m] :
          /\ kind = "replay" => Plan[m] = "official"
          /\ result' = [result EXCEPT ![m] = @ \cup {kind}]
    /\ UNCHANGED <<pc, proc, stopper, posted, entries, sweep, host, ports, clocks, control>>

(* The process ends, on its own or as it was told; the exited callback     *)
(* finalizes a match that was running.                                     *)
Exits(m) ==
    /\ proc[m] \in {"alive", "dying"}
    /\ proc' = [proc EXCEPT ![m] = "dead"]
    /\ IF Up /\ pc[m] = "running"
       THEN StopAll({m}, "exit") /\ Rewind({m}, {})
       ELSE UNCHANGED <<pc, stopper, ports, clocks>>
    /\ UNCHANGED <<result, posted, entries, sweep, host, control>>

-----------------------------------------------------------------------------
(* Stopping a match.                                                       *)

StopNow(ms, who, renewed) == Kill(ms) /\ StopAll(ms, who) /\ Rewind(ms, renewed)

(* stop and #finalize do nothing for a match that is not running.          *)
CanStop(m) == pc[m] = "running"

(* DELETE /matches/:id.                                                    *)
RequestStop(m) ==
    /\ host \in {"up", "closing"}
    /\ CanStop(m)
    /\ StopNow({m}, "request", {})
    /\ UNCHANGED <<result, posted, entries, sweep, host, control>>

Calling(m, where) == Up /\ pc[m] = where

FinalUnchanged == UNCHANGED <<proc, stopper, result, entries, sweep, host, ports, clocks>>

(* The settlement of a stopped match: 201, or 409 when it was there.       *)
Settles(m) ==
    /\ Calling(m, "settling")
    /\ m \in registered
    /\ stored' = stored \cup {<<"settlement", m>>}
    /\ posted' = [posted EXCEPT ![m] = @ \cup {"settlement"}]
    /\ To(m, AfterSettling(m))
    /\ FinalUnchanged /\ UNCHANGED registered

(* Mutant: the error is caught and the stop goes on.                       *)
SettlementErrorSwallowed(m) ==
    /\ Calling(m, "settling")
    /\ "settlement" \in Faults \/ m \notin registered
    /\ To(m, AfterSettling(m))
    /\ FinalUnchanged /\ UNCHANGED <<posted, control>>

(* A settlement error leaves #finalize at once: no unregister follows.     *)
SettlementFails(m) ==
    /\ Calling(m, "settling")
    /\ "settlement" \in Faults \/ m \notin registered
    /\ stored' \in {stored, stored \cup {<<"settlement", x>> : x \in registered \cap {m}}}
    /\ To(m, "settle_error")
    /\ FinalUnchanged /\ UNCHANGED <<posted, registered>>

Replays(m) ==
    /\ Calling(m, "replaying")
    /\ m \in registered
    /\ stored' = stored \cup {<<"replay", m>>}
    /\ posted' = [posted EXCEPT ![m] = @ \cup {"replay"}]
    /\ To(m, "unregistering")
    /\ FinalUnchanged /\ UNCHANGED registered

(* A replay error is swallowed.                                            *)
ReplayFails(m) ==
    /\ Calling(m, "replaying")
    /\ "replay" \in Faults \/ m \notin registered
    /\ stored' \in {stored, stored \cup {<<"replay", x>> : x \in registered \cap {m}}}
    /\ To(m, "unregistering")
    /\ FinalUnchanged /\ UNCHANGED <<posted, registered>>

(* 200, or 404 when the control plane has no such session.                 *)
Unregisters(m) ==
    /\ Calling(m, "unregistering")
    /\ registered' = registered \ {m}
    /\ To(m, "ended")
    /\ FinalUnchanged /\ UNCHANGED <<posted, stored>>

UnregisterFails(m) ==
    /\ Calling(m, "unregistering")
    /\ "unregister" \in Faults
    /\ registered' \in {registered, registered \ {m}}
    /\ To(m, "unregister_error")
    /\ FinalUnchanged /\ UNCHANGED <<posted, stored>>

-----------------------------------------------------------------------------
(* The reclaim timer.  A new run starts whether or not the last one ended. *)

StartSweep(s) ==
    /\ host = "up"
    /\ sweep[s].pc = "idle"
    /\ sweep' = [sweep EXCEPT ![s] = [pc |-> "settlement", at |-> 0, todo |-> {}]]
    /\ UNCHANGED <<pc, proc, stopper, result, posted, entries, host, ports, clocks, control>>

(* The entries flushSettlements (flushReplays) would post something for.   *)
Flushable(kind) ==
    {i \in DOMAIN entries :
        LET m == entries[i] IN pc[m] = "running" /\ kind \in result[m] \ posted[m]}

NextPhase(kind) == IF kind = "settlement" THEN "replay" ELSE "reclaim"

(* The loop goes on to the next such entry, or the run to its next phase.  *)
GoOn(s, kind) ==
    LET ahead == {i \in Flushable(kind) : i > sweep[s].at} IN
    sweep' = [sweep EXCEPT ![s] =
        IF ahead = {} THEN [pc |-> NextPhase(kind), at |-> 0, todo |-> {}]
        ELSE [@ EXCEPT !.at = CHOOSE i \in ahead : \A j \in ahead : i <= j]]

FlushUnchanged == UNCHANGED <<pc, proc, stopper, result, entries, host, ports, clocks, registered>>

FlushStarts(s, kind) ==
    /\ Up
    /\ sweep[s].pc = kind /\ sweep[s].at = 0
    /\ GoOn(s, kind)
    /\ FlushUnchanged /\ UNCHANGED <<posted, stored>>

(* The POST for the entry in hand ends, however it ends.  A session that   *)
(* was unregistered in the meantime makes it a 404, which is skipped.      *)
FlushPosts(s, kind) ==
    /\ Up
    /\ sweep[s].pc = kind /\ sweep[s].at # 0
    /\ LET m == entries[sweep[s].at] IN
       \/ /\ m \in registered
          /\ stored' = stored \cup {<<kind, m>>}
          /\ posted' = [posted EXCEPT ![m] = @ \cup {kind}]
       \/ /\ m \notin registered \/ kind \in Faults
          /\ stored' \in {stored, stored \cup {<<kind, x>> : x \in registered \cap {m}}}
          /\ UNCHANGED posted
    /\ GoOn(s, kind)
    /\ FlushUnchanged

(* evaluateLease: whichever of the two limits is reached first.            *)
Expired(since) == since >= Lease \/ since >= Idle

(* renewFromValidInput, then the scan of reclaimExpired against the time   *)
(* it took at its start: both run in one turn up to the first stop.        *)
Renewed == {m \in Running : unseen[m]}

(* Mutant: leases are judged before they are renewed.                      *)
CondemnedDespiteInput == {m \in Running : Expired(age[m])}

Condemned == {m \in Running \ Renewed : Expired(age[m])}

(* A lease renewed after the run took its time is not expired for it.      *)
Spare(s, ms) == [x \in Sweeps |-> IF x = s THEN sweep[x] ELSE [sweep[x] EXCEPT !.todo = @ \ ms]]

(* Stop the next condemned match and wait for its #finalize, or be done.   *)
StopNext(s, todo, renewed) ==
    LET ahead == {i \in DOMAIN entries : /\ i > sweep[s].at
                                         /\ entries[i] \in todo
                                         /\ CanStop(entries[i])}
        next == CHOOSE i \in ahead : \A j \in ahead : i <= j
    IN  IF ahead = {}
        THEN /\ sweep' = [Spare(s, renewed) EXCEPT ![s] = [pc |-> "idle", at |-> 0, todo |-> {}]]
             /\ Rewind({}, renewed)
             /\ UNCHANGED <<pc, proc, stopper, ports>>
        ELSE /\ sweep' = [Spare(s, renewed) EXCEPT ![s].at = next, ![s].todo = todo]
             /\ StopNow({entries[next]}, "sweep", renewed)

SweepRenews(s) ==
    /\ Up
    /\ sweep[s].pc = "reclaim" /\ sweep[s].at = 0
    /\ StopNext(s, Condemned, Renewed)
    /\ UNCHANGED <<result, posted, entries, host, control>>

(* The #finalize it waited for ended; an unregister error is not one here. *)
SweepGoesOn(s) ==
    /\ Up
    /\ sweep[s].pc = "reclaim" /\ sweep[s].at # 0
    /\ pc[entries[sweep[s].at]] \in {"ended", "unregister_error"}
    /\ StopNext(s, sweep[s].todo, {})
    /\ UNCHANGED <<result, posted, entries, host, control>>

(* Mutant: the error is not caught and no later run comes.                 *)
SweepAbortsForGood(s) ==
    /\ Up
    /\ sweep[s].pc = "reclaim" /\ sweep[s].at # 0
    /\ pc[entries[sweep[s].at]] = "settle_error"
    /\ sweep' = [sweep EXCEPT ![s].todo = {}]
    /\ UNCHANGED <<pc, proc, stopper, result, posted, entries, host, ports, clocks, control>>

(* A settlement error is rethrown and ends the run.                        *)
SweepAborts(s) ==
    /\ Up
    /\ sweep[s].pc = "reclaim" /\ sweep[s].at # 0
    /\ pc[entries[sweep[s].at]] = "settle_error"
    /\ sweep' = [sweep EXCEPT ![s] = [pc |-> "idle", at |-> 0, todo |-> {}]]
    /\ UNCHANGED <<pc, proc, stopper, result, posted, entries, host, ports, clocks, control>>

(* POST /matches/:id/renew, for tests and operators.                       *)
Renew(m) ==
    /\ host \in {"up", "closing"} /\ "renew" \in Faults
    /\ pc[m] = "running"
    /\ age' = [age EXCEPT ![m] = 0]
    /\ sweep' = [s \in Sweeps |-> [sweep[s] EXCEPT !.todo = @ \ {m}]]
    /\ UNCHANGED <<pc, proc, stopper, result, posted, entries, host, ports, quiet, unseen, control>>

-----------------------------------------------------------------------------
(* SIGINT or SIGTERM: the timer is cleared and every running match is      *)
(* stopped; shutdown waits for those it stopped, server.close for the      *)
(* requests in flight whose client has not hung up, and then the host      *)
(* exits.                                                                  *)
Shutdown ==
    /\ host = "up" /\ "shutdown" \in Faults
    /\ host' = "closing"
    /\ StopNow(Running, "shutdown", {})
    /\ UNCHANGED <<result, posted, entries, sweep, control>>

AllEnded(who) == \A m \in Matches : stopper[m] = who => pc[m] \in Ended

CloseServer ==
    /\ host = "closing"
    /\ AllEnded("shutdown")
    /\ host' = "draining"
    /\ UNCHANGED <<pc, proc, stopper, result, posted, entries, sweep, ports, clocks, control>>

ExitHost ==
    /\ host = "draining"
    /\ \/ "hangup" \in Faults
       \/ AllEnded("request") /\ \A m \in Matches : pc[m] \notin Starting
    /\ host' = "exited"
    /\ UNCHANGED <<pc, proc, stopper, result, posted, entries, sweep, ports, clocks, control>>

Older(since) == IF since < MaxAge THEN since + 1 ELSE since

Tick ==
    /\ Up
    /\ age' = [m \in Matches |-> IF m \in Running THEN Older(age[m]) ELSE age[m]]
    /\ quiet' = [m \in Matches |-> IF m \in Running THEN Older(quiet[m]) ELSE quiet[m]]
    /\ UNCHANGED <<pc, proc, stopper, result, posted, entries, sweep, host, ports, unseen, control>>

-----------------------------------------------------------------------------
StartStep(m) ==
    \/ EnvelopeFetched(m)
    \/ EnvelopeFails(m)
    \/ Listens(m)
    \/ ListenFails(m)
    \/ Registers(m)
    \/ RegisterFails(m)

StopStep(m) ==
    \/ Settles(m)
    \/ SettlementFails(m)
    \/ Replays(m)
    \/ ReplayFails(m)
    \/ Unregisters(m)
    \/ UnregisterFails(m)

SweepStep(s) ==
    \/ \E kind \in {"settlement", "replay"} : FlushStarts(s, kind) \/ FlushPosts(s, kind)
    \/ SweepRenews(s)
    \/ SweepGoesOn(s)
    \/ SweepAborts(s)

HostNext ==
    \/ \E m \in Matches :
          \/ Post(m)
          \/ StartStep(m)
          \/ PlayerActs(m)
          \/ Finishes(m)
          \/ Exits(m)
          \/ RequestStop(m)
          \/ StopStep(m)
          \/ Renew(m)
    \/ \E s \in Sweeps : StartSweep(s) \/ SweepStep(s)
    \/ Shutdown
    \/ CloseServer
    \/ ExitHost
    \/ Tick

HostSpec == HostInit /\ [][HostNext]_vars

(* Fairness.  Time passes, the interval timer fires, every call to the     *)
(* control plane and the envelope store ends, if only by its timeout, and  *)
(* the post of a settlement the timer repeats forever succeeds some time.  *)
FairHostSpec ==
    /\ HostSpec
    /\ WF_vars(Tick)
    /\ \A m \in Matches : WF_vars(StartStep(m)) /\ WF_vars(StopStep(m))
    /\ \A s \in Sweeps :
          /\ WF_vars(StartSweep(s)) /\ WF_vars(SweepStep(s))
          /\ SF_vars(FlushPosts(s, "settlement") /\ posted' # posted)

-----------------------------------------------------------------------------
Holding == {m \in Matches : pc[m] \in Starting \cup {"running"}}

(* The allocator's books agree with the matches: the ports in use are      *)
(* exactly those of the matches that are starting or running, one each,    *)
(* and they are never more than the host may run.  A stop that was run     *)
(* twice, by two of DELETE, the timer, the exited callback and shutdown,   *)
(* would free the port of the match that got it next.                      *)
PortAccounting ==
    /\ inUse = {port[m] : m \in Holding}
    /\ \A m, n \in Holding : port[m] = port[n] => m = n
    /\ Cardinality(inUse) <= MaxMatches

(* No result is dropped on the way out: a match that was stopped with a    *)
(* settlement in its heartbeats and was unregistered has it recorded, and  *)
(* settlementPosted is never set without the row in the control plane,     *)
(* whoever stopped it and whatever calls failed.                           *)
SettledBeforeUnregistered ==
    \A m \in Matches :
        /\ (pc[m] \in {"replaying", "unregistering", "ended"} /\ "settlement" \in result[m])
               => <<"settlement", m>> \in stored
        /\ \A kind \in posted[m] : <<kind, m>> \in stored

(* The control plane lists no session for a match that failed to start or  *)
(* was taken down.  It holds while the calls succeed, however the exit of  *)
(* the process, the stop and the timer interleave.                         *)
EndedMeansUnregistered ==
    \A m \in Matches : pc[m] \in Ended \cup {"failed"} => m \notin registered

(* A match is condemned only if no player acted for the shorter of the two *)
(* limits: input a heartbeat has reported renews the lease before the same *)
(* run of the timer judges it.                                             *)
OnlyIdleMatchesAreCondemned ==
    [][\A s \in Sweeps :
          sweep[s].at = 0 => \A m \in sweep'[s].todo : Expired(quiet[m])]_vars

(* No game process outlives the host as an orphan.                         *)
NoOrphans == host = "exited" => \A m \in Matches : proc[m] # "alive"

(* A match nobody plays is eventually stopped or played again, also when   *)
(* calls for it or for another match fail: a settlement error ends the run *)
(* of the timer, and the next run goes on.                                 *)
AbandonedMatchIsReclaimed ==
    \A m \in Matches : (pc[m] = "running") ~> (pc[m] # "running" \/ quiet[m] = 0)

(* A result that a heartbeat brought to the host reaches the control       *)
(* plane: the timer repeats a post that failed, and the stop posts it      *)
(* once more.  Only when that last post fails as well is nobody left to    *)
(* repeat it.                                                              *)
ResultIsStored ==
    \A m \in Matches :
        ("settlement" \in result[m]) ~>
            (<<"settlement", m>> \in stored \/ pc[m] = "settle_error")
=============================================================================
