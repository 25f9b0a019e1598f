---------------------------- MODULE MatchLaunch ----------------------------
(***************************************************************************)
(* The launch of a match process in the match host, step by step           *)
(* (registry_start.ts, registry_launch.ts, listen_probe.ts, launcher.ts,   *)
(* content_envelope.ts): a port, the envelope file of a content match, the *)
(* child process, the TCP probe of the port, the registration, and what a  *)
(* failure or a stop takes down again.  MatchHost sees all of that as one  *)
(* "listening" and knows nothing of who listens on a port; here a child    *)
(* that was told to stop may still listen when its port is given away.     *)
(*                                                                         *)
(* A launch is known by its match id.  Its process has parts: the child    *)
(* boots, listens if nobody else does on its port, and exits at any time;  *)
(* the host learns of the exit later.                                      *)
(***************************************************************************)
EXTENDS Integers, FiniteSets

CONSTANTS
    LaunchIds,          \* randomUUID, never used twice
    ContentLaunches,    \* the launches of a published content
    FirstPort, LastPort

ASSUME LaunchAssumption ==
    /\ ContentLaunches \subseteq LaunchIds
    /\ FirstPort \in Nat \ {0}
    /\ LastPort \in Nat
    /\ FirstPort <= LastPort

VARIABLES
    stage,      \* launch -> where launchRegisteredMatch or the match is
    childPort,  \* launch -> its port, 0 before
    child,      \* launch -> "none", "booting", "bound" or "exited"
    told,       \* launches whose child was sent SIGTERM
    noticed,    \* launches whose exit event the host has seen
    probe,      \* launch -> "ready", "connecting" or "pausing"
    late,       \* launches whose listen deadline has passed
    reached,    \* launch -> the launch whose child accepted the probe
    held,       \* ports the allocator holds
    nextPort,   \* its cursor
    files       \* launches whose envelope file exists

launchVars == <<stage, childPort, child, told, noticed, probe, late, reached,
                held, nextPort, files>>

LaunchPorts == FirstPort .. LastPort
Launching == {"resolving", "probing", "registering"}

LaunchTypeOK ==
    /\ stage \in [LaunchIds -> {"none", "running", "failed", "stopped"} \cup Launching]
    /\ childPort \in [LaunchIds -> LaunchPorts \cup {0}]
    /\ child \in [LaunchIds -> {"none", "booting", "bound", "exited"}]
    /\ told \subseteq LaunchIds
    /\ noticed \subseteq LaunchIds
    /\ probe \in [LaunchIds -> {"ready", "connecting", "pausing"}]
    /\ late \subseteq LaunchIds
    /\ reached \in [LaunchIds -> LaunchIds]
    /\ held \subseteq LaunchPorts
    /\ nextPort \in LaunchPorts
    /\ files \subseteq LaunchIds

LaunchInit ==
    /\ stage = [l \in LaunchIds |-> "none"]
    /\ childPort = [l \in LaunchIds |-> 0]
    /\ child = [l \in LaunchIds |-> "none"]
    /\ told = {}
    /\ noticed = {}
    /\ probe = [l \in LaunchIds |-> "ready"]
    /\ late = {}
    /\ reached = [l \in LaunchIds |-> l]
    /\ held = {}
    /\ nextPort = FirstPort
    /\ files = {}

-----------------------------------------------------------------------------
(* The calls.                                                              *)

\* The first free port from the cursor on, then from the first port.
allocate ==
    LET free == LaunchPorts \ held
        ahead == {p \in free : p >= nextPort}
        from == IF ahead = {} THEN free ELSE ahead
    IN {p \in from : \A q \in from : p <= q}

release(l) == held' = held \ {childPort[l]}

\* spawn; the child of a failed spawn counts as one that exited.
launch(l) == child' = [child EXCEPT ![l] = "booting"]
spawnFails(l) == child' = [child EXCEPT ![l] = "exited"]

\* Without a child nothing is killed; an exited one takes no signal.
kill(l) == told' = told \cup {k \in {l} : child[k] \in {"booting", "bound"}}

writeMatchEnvelopeFile(l) == files' = files \cup {l}
removeMatchEnvelopeFile(l) == files' = files \ {l}

\* A catch that keeps the envelope: removeMatchEnvelopeFile forgotten.
failLaunchKeepsFile(l) ==
    /\ stage' = [stage EXCEPT ![l] = "failed"]
    /\ kill(l)
    /\ release(l)
    /\ UNCHANGED <<childPort, child, noticed, probe, late, reached, nextPort, files>>

\* A catch that leaves the process alone.
failLaunchKeepsChild(l) ==
    /\ stage' = [stage EXCEPT ![l] = "failed"]
    /\ release(l)
    /\ removeMatchEnvelopeFile(l)
    /\ UNCHANGED <<childPort, child, told, noticed, probe, late, reached, nextPort>>

\* The catch of launchRegisteredMatch.
failLaunch(l) ==
    /\ stage' = [stage EXCEPT ![l] = "failed"]
    /\ kill(l)
    /\ release(l)
    /\ removeMatchEnvelopeFile(l)
    /\ UNCHANGED <<childPort, child, noticed, probe, late, reached, nextPort>>

-----------------------------------------------------------------------------
(* The host.                                                               *)

\* Up to the first await: only a content match has something to wait for
\* before its process is spawned.
BeginLaunch(l) ==
    /\ stage[l] = "none"
    /\ \E p \in allocate :
         /\ childPort' = [childPort EXCEPT ![l] = p]
         /\ held' = held \cup {p}
         /\ nextPort' = IF p = LastPort THEN FirstPort ELSE p + 1
    /\ \/ /\ l \in ContentLaunches
          /\ stage' = [stage EXCEPT ![l] = "resolving"]
          /\ UNCHANGED child
       \/ /\ l \notin ContentLaunches
          /\ stage' = [stage EXCEPT ![l] = "probing"]
          /\ launch(l) \/ spawnFails(l)
    /\ UNCHANGED <<told, noticed, probe, late, reached, files>>

EnvelopeArrives(l) ==
    /\ stage[l] = "resolving"
    /\ writeMatchEnvelopeFile(l)
    /\ stage' = [stage EXCEPT ![l] = "probing"]
    /\ launch(l) \/ spawnFails(l)
    /\ UNCHANGED <<childPort, told, noticed, probe, late, reached, held, nextPort>>

EnvelopeRefused(l) ==
    /\ stage[l] = "resolving"
    /\ failLaunch(l)

\* The loop of waitUntilListening: connect unless the deadline has passed.
tryConnect(l) ==
    /\ stage[l] = "probing"
    /\ probe[l] = "ready"
    /\ l \notin late
    /\ probe' = [probe EXCEPT ![l] = "connecting"]
    /\ UNCHANGED <<stage, childPort, child, told, noticed, late, reached, held,
                   nextPort, files>>

\* Who accepts a connection on a port.
Listeners(p) == {k \in LaunchIds : child[k] = "bound" /\ childPort[k] = p}

Connected(l) ==
    /\ stage[l] = "probing"
    /\ probe[l] = "connecting"
    /\ \E k \in Listeners(childPort[l]) : reached' = [reached EXCEPT ![l] = k]
    /\ stage' = [stage EXCEPT ![l] = "registering"]
    /\ UNCHANGED <<childPort, child, told, noticed, probe, late, held, nextPort, files>>

\* A refused connection is followed by a pause, or by the end of the wait.
ConnectRefused(l) ==
    /\ stage[l] = "probing"
    /\ probe[l] = "connecting"
    /\ Listeners(childPort[l]) = {}
    /\ IF l \in late
         THEN failLaunch(l)
         ELSE /\ probe' = [probe EXCEPT ![l] = "pausing"]
              /\ UNCHANGED <<stage, childPort, child, told, noticed, late, reached,
                             held, nextPort, files>>

delayEnds(l) ==
    /\ stage[l] = "probing"
    /\ probe[l] = "pausing"
    /\ probe' = [probe EXCEPT ![l] = "ready"]
    /\ UNCHANGED <<stage, childPort, child, told, noticed, late, reached, held,
                   nextPort, files>>

DeadlinePasses(l) ==
    /\ stage[l] = "probing"
    /\ l \notin late
    /\ late' = late \cup {l}
    /\ UNCHANGED <<stage, childPort, child, told, noticed, probe, reached, held,
                   nextPort, files>>

TimesOut(l) ==
    /\ stage[l] = "probing"
    /\ probe[l] = "ready"
    /\ l \in late
    /\ failLaunch(l)

\* #finalize of a match whose process exited.
finalizeExited(l) ==
    /\ stage' = [stage EXCEPT ![l] = "stopped"]
    /\ release(l)
    /\ removeMatchEnvelopeFile(l)

\* The exit event: it ends the wait of a launch and finalizes a match that
\* runs; during the registration the host only remembers it.
ExitSeen(l) ==
    /\ child[l] = "exited"
    /\ l \notin noticed
    /\ noticed' = noticed \cup {l}
    /\ CASE stage[l] = "probing" ->
              /\ stage' = [stage EXCEPT ![l] = "failed"]
              /\ release(l)
              /\ removeMatchEnvelopeFile(l)
         [] stage[l] = "running" -> finalizeExited(l)
         [] OTHER -> UNCHANGED <<stage, held, files>>
    /\ UNCHANGED <<childPort, child, told, probe, late, reached, nextPort>>

\* The control plane has the session; a process known to be gone is finalized
\* in the same turn.
Registered(l) ==
    /\ stage[l] = "registering"
    /\ \/ /\ l \in noticed
          /\ finalizeExited(l)
       \/ /\ l \notin noticed
          /\ stage' = [stage EXCEPT ![l] = "running"]
          /\ UNCHANGED <<held, files>>
    /\ UNCHANGED <<childPort, child, told, noticed, probe, late, reached, nextPort>>

RegisterRefused(l) ==
    /\ stage[l] = "registering"
    /\ failLaunch(l)

\* stop: DELETE /matches/:id, the lease, or the shutdown.
StopMatch(l) ==
    /\ stage[l] = "running"
    /\ kill(l)
    /\ finalizeExited(l)
    /\ UNCHANGED <<childPort, child, noticed, probe, late, reached, nextPort>>

-----------------------------------------------------------------------------
(* The child (match_server.gd).                                            *)

CanBoot(l) == l \in ContentLaunches => l \in files

ChildBinds(l) ==
    /\ child[l] = "booting"
    /\ CanBoot(l)
    /\ Listeners(childPort[l]) = {}
    /\ child' = [child EXCEPT ![l] = "bound"]
    /\ UNCHANGED <<stage, childPort, told, noticed, probe, late, reached, held,
                   nextPort, files>>

\* It exits when the envelope is missing or the port taken, on SIGTERM, or by
\* a crash.
ChildExits(l) ==
    /\ child[l] \in {"booting", "bound"}
    /\ child' = [child EXCEPT ![l] = "exited"]
    /\ UNCHANGED <<stage, childPort, told, noticed, probe, late, reached, held,
                   nextPort, files>>

LaunchNext ==
    \E l \in LaunchIds :
      \/ BeginLaunch(l) \/ EnvelopeArrives(l) \/ EnvelopeRefused(l)
      \/ tryConnect(l) \/ Connected(l) \/ ConnectRefused(l) \/ delayEnds(l)
      \/ DeadlinePasses(l) \/ TimesOut(l) \/ ExitSeen(l)
      \/ Registered(l) \/ RegisterRefused(l) \/ StopMatch(l)
      \/ ChildBinds(l) \/ ChildExits(l)

LaunchSpec == LaunchInit /\ [][LaunchNext]_launchVars

-----------------------------------------------------------------------------

\* Whatever step a launch fails at and whenever it is stopped, nothing of it
\* stays: the ports held are those of the launches under way and of the
\* matches that run, each its own; an envelope file is there as long as its
\* process may have to read it and no longer; and the process of a launch that
\* is over has been told to stop or is gone.
LaunchLeavesNothing ==
    LET alive == {l \in LaunchIds : stage[l] \in Launching \cup {"running"}} IN
    /\ held = {childPort[l] : l \in alive}
    /\ \A k, l \in alive : childPort[k] = childPort[l] => k = l
    /\ files = {l \in ContentLaunches \cap alive : stage[l] # "resolving"}
    /\ \A l \in LaunchIds :
         stage[l] \in {"failed", "stopped"} =>
           l \in told \/ child[l] \in {"none", "exited"}
    /\ \A l \in LaunchIds : child[l] = "booting" /\ ~CanBoot(l) => l \in told

\* The probe of a port proves only that somebody listens there.  When it is
\* not the match's own process, it is one that was told to stop, and the own
\* process does not listen: players are never led into another match that
\* goes on (registry_start.ts frees the port before the process is gone).
ProbeReachesItsMatch ==
    \A l \in LaunchIds :
      stage[l] \in {"registering", "running"} /\ reached[l] # l =>
        /\ reached[l] \in told \/ child[reached[l]] = "exited"
        /\ childPort[reached[l]] = childPort[l]
        /\ child[l] = "bound" => child[reached[l]] = "exited"
=============================================================================
