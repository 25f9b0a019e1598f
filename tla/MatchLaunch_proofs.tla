------------------------- MODULE MatchLaunch_proofs -------------------------
(***************************************************************************)
(* What a launch leaves behind and whom its probe reaches, for any number  *)
(* of launches and any range of ports.                                     *)
(*                                                                         *)
(* The two properties are not inductive.  A probe that was answered by     *)
(* somebody else must know that the other listened and listens no more     *)
(* than one of them at a time (OneListener, ReachedListened); a child that *)
(* is launched must be the first of its launch (NoChildYet); and a stop    *)
(* that does not kill relies on the exit it was told of (ExitsHappened).   *)
(*                                                                         *)
(* The fifteen actions have eight shapes; a lemma per shape.               *)
(***************************************************************************)
EXTENDS MatchLaunch, TLAPS

Alive == {l \in LaunchIds : stage[l] \in Launching \cup {"running"}}

Books ==
    /\ held = {childPort[l] : l \in Alive}
    /\ \A k, l \in Alive : childPort[k] = childPort[l] => k = l

Files == files = {l \in ContentLaunches \cap Alive : stage[l] # "resolving"}

Told ==
    /\ \A l \in LaunchIds :
         stage[l] \in {"failed", "stopped"} =>
           l \in told \/ child[l] \in {"none", "exited"}
    /\ \A l \in LaunchIds : child[l] = "booting" /\ ~CanBoot(l) => l \in told

NoChildYet ==
    \A l \in LaunchIds :
      /\ stage[l] \in {"none", "resolving"} => child[l] = "none"
      /\ stage[l] = "resolving" => l \in ContentLaunches

ExitsHappened == \A l \in noticed : child[l] = "exited"

OneListener ==
    \A k, l \in LaunchIds :
      child[k] = "bound" /\ child[l] = "bound" /\ childPort[k] = childPort[l] => k = l

ReachedListened ==
    \A l \in LaunchIds :
      stage[l] \in {"registering", "running"} /\ reached[l] # l =>
        child[reached[l]] \in {"bound", "exited"}

Children == NoChildYet /\ ExitsHappened /\ OneListener /\ ReachedListened

LaunchInv == LaunchTypeOK /\ Books /\ Files /\ Told /\ Children /\ ProbeReachesItsMatch

-----------------------------------------------------------------------------
(* The shapes.                                                             *)

\* A launch or a match is over.
Over(l) ==
    /\ l \in Alive
    /\ \E s \in {"failed", "stopped"} : stage' = [stage EXCEPT ![l] = s]
    /\ held' = held \ {childPort[l]}
    /\ files' = files \ {l}
    /\ told \subseteq told' /\ told' \subseteq LaunchIds
    /\ child[l] \in {"booting", "bound"} => l \in told'
    /\ noticed' \subseteq LaunchIds
    /\ \A k \in noticed' : child[k] = "exited"
    /\ UNCHANGED <<childPort, child, probe, late, reached, nextPort>>

\* The host waits or takes note; nothing is moved.
Waits ==
    /\ probe' \in [LaunchIds -> {"ready", "connecting", "pausing"}]
    /\ late' \subseteq LaunchIds
    /\ noticed' \subseteq LaunchIds
    /\ \A k \in noticed' : child[k] = "exited"
    /\ UNCHANGED <<stage, childPort, child, told, reached, held, nextPort, files>>

\* The session is there and the process has not been seen to exit.
Runs(l) ==
    /\ stage[l] = "registering"
    /\ stage' = [stage EXCEPT ![l] = "running"]
    /\ UNCHANGED <<childPort, child, told, noticed, probe, late, reached, held,
                   nextPort, files>>

(* Any port allocate picks is free and one of the host's.                  *)
LEMMA AllocateIsFree ==
  ASSUME NEW p \in allocate
  PROVE  p \in LaunchPorts /\ p \notin held
BY DEF allocate

LEMMA OverKeeps ==
  ASSUME LaunchInv, NEW l \in LaunchIds, Over(l)
  PROVE  LaunchInv'
<1> USE DEF LaunchInv
<1>1. PICK s \in {"failed", "stopped"} : stage' = [stage EXCEPT ![l] = s]
  BY DEF Over
<1>2. Alive' = Alive \ {l}
  BY <1>1 DEF Alive, LaunchTypeOK, Launching
<1>3. LaunchTypeOK'
  BY <1>1 DEF Over, LaunchTypeOK
<1>4. Books'
  BY <1>2 DEF Over, Books, Alive
<1>5. Files'
  <2>1. \A k \in Alive' : stage'[k] = stage[k]
    BY <1>1, <1>2 DEF LaunchTypeOK, Alive
  <2> QED  BY <1>2, <2>1 DEF Over, Files
<1>6. Told'
  <2>1. ASSUME NEW k \in LaunchIds, stage'[k] \in {"failed", "stopped"}
        PROVE  k \in told' \/ child'[k] \in {"none", "exited"}
    BY <1>1, <2>1 DEF Over, Told, LaunchTypeOK
  <2>2. ASSUME NEW k \in LaunchIds, child'[k] = "booting", ~CanBoot(k)'
        PROVE  k \in told'
    BY <2>2 DEF Over, Told, CanBoot
  <2> QED  BY <2>1, <2>2 DEF Told
<1>7. Children'
  BY <1>1 DEF Over, Children, NoChildYet, ExitsHappened, OneListener,
              ReachedListened, LaunchTypeOK
<1>8. ProbeReachesItsMatch'
  BY <1>1 DEF Over, ProbeReachesItsMatch, LaunchTypeOK
<1> QED  BY <1>3, <1>4, <1>5, <1>6, <1>7, <1>8

LEMMA WaitsKeeps ==
  ASSUME LaunchInv, Waits
  PROVE  LaunchInv'
<1> USE DEF LaunchInv
<1>1. LaunchTypeOK'
  BY DEF Waits, LaunchTypeOK
<1>2. Alive' = Alive
  BY DEF Waits, Alive
<1>3. Books' /\ Files'
  BY <1>2 DEF Waits, Books, Files
<1>4. Told'
  BY DEF Waits, Told, CanBoot
<1>5. Children'
  BY DEF Waits, Children, NoChildYet, ExitsHappened, OneListener, ReachedListened
<1>6. ProbeReachesItsMatch'
  BY DEF Waits, ProbeReachesItsMatch
<1> QED  BY <1>1, <1>3, <1>4, <1>5, <1>6

LEMMA RunsKeeps ==
  ASSUME LaunchInv, NEW l \in LaunchIds, Runs(l)
  PROVE  LaunchInv'
<1> USE DEF LaunchInv
<1>1. LaunchTypeOK'
  BY DEF Runs, LaunchTypeOK
<1>2. Alive' = Alive
  BY DEF Runs, Alive, LaunchTypeOK, Launching
<1>3. Books'
  BY <1>2 DEF Runs, Books
<1>4. Files'
  <2>1. \A k \in LaunchIds : (stage'[k] # "resolving") <=> (stage[k] # "resolving")
    BY DEF Runs, LaunchTypeOK
  <2> QED  BY <1>2, <2>1 DEF Runs, Files, Alive
<1>5. Told'
  BY DEF Runs, Told, CanBoot, LaunchTypeOK
<1>6. Children'
  BY DEF Runs, Children, NoChildYet, ExitsHappened, OneListener, ReachedListened,
         LaunchTypeOK
<1>7. ProbeReachesItsMatch'
  BY DEF Runs, ProbeReachesItsMatch, LaunchTypeOK
<1> QED  BY <1>1, <1>3, <1>4, <1>5, <1>6, <1>7

(* A new launch: its port is new, its child is not there or just booting.  *)
LEMMA BeginKeeps ==
  ASSUME LaunchInv, NEW l \in LaunchIds, BeginLaunch(l)
  PROVE  LaunchInv'
<1> USE DEF LaunchInv
<1>1. PICK p \in allocate :
        /\ childPort' = [childPort EXCEPT ![l] = p]
        /\ held' = held \cup {p}
        /\ nextPort' = IF p = LastPort THEN FirstPort ELSE p + 1
  BY DEF BeginLaunch
<1>2. p \in LaunchPorts /\ p \notin held
  BY AllocateIsFree
<1>3. PICK s \in {"resolving", "probing"} :
        /\ stage' = [stage EXCEPT ![l] = s]
        /\ s = "resolving" => l \in ContentLaunches /\ child' = child
        /\ s = "probing" => l \notin ContentLaunches
  BY DEF BeginLaunch
<1>4. PICK c \in {"none", "booting", "exited"} :
        /\ child' = [child EXCEPT ![l] = c]
        /\ s = "resolving" => c = "none"
  BY <1>3 DEF BeginLaunch, launch, spawnFails, Children, NoChildYet, LaunchTypeOK
<1>5. /\ stage[l] = "none" /\ child[l] = "none" /\ l \notin Alive
      /\ UNCHANGED <<told, noticed, probe, late, reached, files>>
  BY DEF BeginLaunch, Children, NoChildYet, Alive, Launching
<1>6. Alive' = Alive \cup {l}
  BY <1>3, <1>5 DEF Alive, LaunchTypeOK, Launching
<1>7. LaunchTypeOK'
  <2>1. nextPort' \in LaunchPorts
    BY <1>1, <1>2, LaunchAssumption DEF LaunchPorts
  <2> QED  BY <1>1, <1>2, <1>3, <1>4, <1>5, <2>1 DEF LaunchTypeOK, Launching
<1>8. Books'
  <2>1. \A k \in Alive : childPort'[k] = childPort[k] /\ childPort[k] # p
    BY <1>1, <1>2, <1>5 DEF LaunchTypeOK, Books, Alive
  <2>2. childPort'[l] = p
    BY <1>1 DEF LaunchTypeOK
  <2> QED  BY <1>1, <1>6, <2>1, <2>2 DEF Books
<1>9. Files'
  <2>1. \A k \in Alive : stage'[k] = stage[k]
    BY <1>3, <1>5 DEF LaunchTypeOK, Alive
  <2>2. stage'[l] = s
    BY <1>3 DEF LaunchTypeOK
  <2> QED  BY <1>3, <1>5, <1>6, <2>1, <2>2 DEF Files
<1>10. Told'
  BY <1>3, <1>4, <1>5 DEF Told, CanBoot, LaunchTypeOK
<1>11. Children'
  <2>1. NoChildYet'
    BY <1>3, <1>4 DEF Children, NoChildYet, LaunchTypeOK
  <2>2. ExitsHappened'
    BY <1>4, <1>5 DEF Children, ExitsHappened, LaunchTypeOK
  <2>3. OneListener'
    BY <1>1, <1>4, <1>5 DEF Children, OneListener, LaunchTypeOK
  <2>4. ReachedListened'
    BY <1>3, <1>4, <1>5 DEF Children, ReachedListened, LaunchTypeOK
  <2> QED  BY <2>1, <2>2, <2>3, <2>4 DEF Children
<1>12. ProbeReachesItsMatch'
  <2> SUFFICES ASSUME NEW k \in LaunchIds, stage'[k] \in {"registering", "running"},
                      reached'[k] # k
               PROVE  /\ reached'[k] \in told' \/ child'[reached'[k]] = "exited"
                      /\ childPort'[reached'[k]] = childPort'[k]
                      /\ child'[k] = "bound" => child'[reached'[k]] = "exited"
    BY DEF ProbeReachesItsMatch
  <2>1. k # l /\ stage[k] \in {"registering", "running"}
    BY <1>3 DEF LaunchTypeOK
  <2>2. child[reached[k]] \in {"bound", "exited"} /\ reached[k] \in LaunchIds
    BY <1>5, <2>1 DEF Children, ReachedListened, LaunchTypeOK
  <2>3. reached[k] # l
    BY <1>5, <2>2
  <2> QED  BY <1>1, <1>4, <1>5, <2>1, <2>2, <2>3 DEF ProbeReachesItsMatch, LaunchTypeOK
<1> QED  BY <1>7, <1>8, <1>9, <1>10, <1>11, <1>12

(* The envelope is written before the process is there.                    *)
LEMMA EnvelopeKeeps ==
  ASSUME LaunchInv, NEW l \in LaunchIds, EnvelopeArrives(l)
  PROVE  LaunchInv'
<1> USE DEF LaunchInv
<1>1. PICK c \in {"booting", "exited"} : child' = [child EXCEPT ![l] = c]
  BY DEF EnvelopeArrives, launch, spawnFails
<1>2. /\ stage[l] = "resolving" /\ stage' = [stage EXCEPT ![l] = "probing"]
      /\ files' = files \cup {l}
      /\ UNCHANGED <<childPort, told, noticed, probe, late, reached, held, nextPort>>
  BY DEF EnvelopeArrives, writeMatchEnvelopeFile
<1>3. child[l] = "none" /\ l \in ContentLaunches
  BY <1>2 DEF Children, NoChildYet
<1>4. Alive' = Alive /\ l \in Alive
  BY <1>2 DEF Alive, LaunchTypeOK, Launching
<1>5. LaunchTypeOK'
  BY <1>1, <1>2 DEF LaunchTypeOK, Launching
<1>6. Books'
  BY <1>2, <1>4 DEF Books
<1>7. Files'
  <2>1. \A k \in LaunchIds \ {l} : stage'[k] = stage[k]
    BY <1>2 DEF LaunchTypeOK
  <2>2. stage'[l] = "probing"
    BY <1>2 DEF LaunchTypeOK
  <2> QED  BY <1>2, <1>3, <1>4, <2>1, <2>2 DEF Files, Alive
<1>8. Told'
  BY <1>1, <1>2 DEF Told, CanBoot, LaunchTypeOK
<1>9. Children'
  BY <1>1, <1>2, <1>3 DEF Children, NoChildYet, ExitsHappened, OneListener,
                          ReachedListened, LaunchTypeOK
<1>10. ProbeReachesItsMatch'
  BY <1>1, <1>2, <1>3 DEF ProbeReachesItsMatch, Children, ReachedListened, LaunchTypeOK
<1> QED  BY <1>5, <1>6, <1>7, <1>8, <1>9, <1>10

(* Somebody accepts the probe: the own child, or one whose port was given  *)
(* away, and that one is over.                                             *)
LEMMA ConnectedKeeps ==
  ASSUME LaunchInv, NEW l \in LaunchIds, Connected(l)
  PROVE  LaunchInv'
<1> USE DEF LaunchInv
<1>1. PICK k \in Listeners(childPort[l]) : reached' = [reached EXCEPT ![l] = k]
  BY DEF Connected
<1>2. k \in LaunchIds /\ child[k] = "bound" /\ childPort[k] = childPort[l]
  BY DEF Listeners
<1>3. /\ stage[l] = "probing" /\ stage' = [stage EXCEPT ![l] = "registering"]
      /\ UNCHANGED <<childPort, child, told, noticed, probe, late, held, nextPort, files>>
  BY DEF Connected
<1>4. Alive' = Alive /\ l \in Alive
  BY <1>3 DEF Alive, LaunchTypeOK, Launching
<1>5. k # l => k \in told /\ child[l] # "bound"
  <2> SUFFICES ASSUME k # l PROVE k \in told /\ child[l] # "bound"
    OBVIOUS
  <2>1. k \notin Alive
    BY <1>2, <1>4 DEF Books
  <2>2. stage[k] \in {"none", "failed", "stopped"}
    BY <1>2, <2>1 DEF Alive, LaunchTypeOK
  <2>3. stage[k] # "none"
    BY <1>2 DEF Children, NoChildYet
  <2>4. k \in told
    BY <1>2, <2>2, <2>3 DEF Told
  <2> QED  BY <1>2, <2>4 DEF Children, OneListener
<1>6. LaunchTypeOK'
  BY <1>1, <1>2, <1>3 DEF LaunchTypeOK, Launching
<1>7. Books'
  BY <1>3, <1>4 DEF Books
<1>8. Files'
  <2>1. \A j \in LaunchIds : (stage'[j] # "resolving") <=> (stage[j] # "resolving")
    BY <1>3 DEF LaunchTypeOK
  <2> QED  BY <1>3, <1>4, <2>1 DEF Files, Alive
<1>9. Told'
  BY <1>3 DEF Told, CanBoot, LaunchTypeOK
<1>10. Children'
  BY <1>1, <1>2, <1>3 DEF Children, NoChildYet, ExitsHappened, OneListener,
                          ReachedListened, LaunchTypeOK
<1>11. ProbeReachesItsMatch'
  BY <1>1, <1>2, <1>3, <1>5 DEF ProbeReachesItsMatch, LaunchTypeOK
<1> QED  BY <1>6, <1>7, <1>8, <1>9, <1>10, <1>11

LEMMA BindsKeeps ==
  ASSUME LaunchInv, NEW l \in LaunchIds, ChildBinds(l)
  PROVE  LaunchInv'
<1> USE DEF LaunchInv
<1>1. /\ child[l] = "booting" /\ child' = [child EXCEPT ![l] = "bound"]
      /\ \A k \in LaunchIds : childPort[k] = childPort[l] => child[k] # "bound"
      /\ UNCHANGED <<stage, childPort, told, noticed, probe, late, reached, held,
                     nextPort, files>>
  BY DEF ChildBinds, Listeners
<1>2. Alive' = Alive
  BY <1>1 DEF Alive
<1>3. LaunchTypeOK'
  BY <1>1 DEF LaunchTypeOK
<1>4. Books' /\ Files'
  BY <1>1, <1>2 DEF Books, Files
<1>5. Told'
  BY <1>1 DEF Told, CanBoot, LaunchTypeOK
<1>6. Children'
  BY <1>1 DEF Children, NoChildYet, ExitsHappened, OneListener, ReachedListened,
              LaunchTypeOK
<1>7. ProbeReachesItsMatch'
  BY <1>1 DEF ProbeReachesItsMatch, Children, ReachedListened, LaunchTypeOK
<1> QED  BY <1>3, <1>4, <1>5, <1>6, <1>7

LEMMA ExitsKeeps ==
  ASSUME LaunchInv, NEW l \in LaunchIds, ChildExits(l)
  PROVE  LaunchInv'
<1> USE DEF LaunchInv
<1>1. /\ child[l] \in {"booting", "bound"} /\ child' = [child EXCEPT ![l] = "exited"]
      /\ UNCHANGED <<stage, childPort, told, noticed, probe, late, reached, held,
                     nextPort, files>>
  BY DEF ChildExits
<1>2. Alive' = Alive
  BY <1>1 DEF Alive
<1>3. LaunchTypeOK'
  BY <1>1 DEF LaunchTypeOK
<1>4. Books' /\ Files'
  BY <1>1, <1>2 DEF Books, Files
<1>5. Told'
  BY <1>1 DEF Told, CanBoot, LaunchTypeOK
<1>6. Children'
  BY <1>1 DEF Children, NoChildYet, ExitsHappened, OneListener, ReachedListened,
              LaunchTypeOK
<1>7. ProbeReachesItsMatch'
  BY <1>1 DEF ProbeReachesItsMatch, LaunchTypeOK
<1> QED  BY <1>3, <1>4, <1>5, <1>6, <1>7

-----------------------------------------------------------------------------
(* The actions have these shapes.                                          *)

LEMMA FailureIsOver ==
  ASSUME LaunchInv, NEW l \in LaunchIds, l \in Alive, failLaunch(l)
  PROVE  Over(l)
BY DEF LaunchInv, LaunchTypeOK, Children, ExitsHappened, failLaunch, Over, kill,
       release, removeMatchEnvelopeFile

LEMMA FailuresKeep ==
  ASSUME LaunchInv, NEW l \in LaunchIds,
         EnvelopeRefused(l) \/ TimesOut(l) \/ RegisterRefused(l)
  PROVE  LaunchInv'
<1>1. l \in Alive /\ failLaunch(l)
  BY DEF EnvelopeRefused, TimesOut, RegisterRefused, Alive, Launching
<1> QED  BY <1>1, FailureIsOver, OverKeeps

LEMMA ProbeKeeps ==
  ASSUME LaunchInv, NEW l \in LaunchIds,
         tryConnect(l) \/ ConnectRefused(l) \/ delayEnds(l) \/ DeadlinePasses(l)
  PROVE  LaunchInv'
<1>1. CASE ConnectRefused(l) /\ l \in late
  <2>1. l \in Alive /\ failLaunch(l)
    BY <1>1 DEF ConnectRefused, Alive, Launching
  <2> QED  BY <2>1, FailureIsOver, OverKeeps
<1>2. CASE ~(ConnectRefused(l) /\ l \in late)
  <2>1. Waits
    BY <1>2 DEF tryConnect, ConnectRefused, delayEnds, DeadlinePasses, Waits,
                LaunchInv, LaunchTypeOK, Children, ExitsHappened
  <2> QED  BY <2>1, WaitsKeeps
<1> QED  BY <1>1, <1>2

LEMMA ExitSeenKeeps ==
  ASSUME LaunchInv, NEW l \in LaunchIds, ExitSeen(l)
  PROVE  LaunchInv'
<1>1. child[l] = "exited" /\ noticed' = noticed \cup {l}
  BY DEF ExitSeen
<1>2. noticed' \subseteq LaunchIds /\ \A k \in noticed' : child[k] = "exited"
  BY <1>1 DEF LaunchInv, LaunchTypeOK, Children, ExitsHappened
<1>3. CASE stage[l] \in {"probing", "running"}
  <2>1. Over(l)
    BY <1>1, <1>2, <1>3 DEF ExitSeen, Over, finalizeExited, release,
         removeMatchEnvelopeFile, Alive, Launching, LaunchInv, LaunchTypeOK
  <2> QED  BY <2>1, OverKeeps
<1>4. CASE stage[l] \notin {"probing", "running"}
  <2>1. Waits
    BY <1>2, <1>4 DEF ExitSeen, Waits, LaunchInv, LaunchTypeOK
  <2> QED  BY <2>1, WaitsKeeps
<1> QED  BY <1>3, <1>4

LEMMA RegisteredKeeps ==
  ASSUME LaunchInv, NEW l \in LaunchIds, Registered(l)
  PROVE  LaunchInv'
<1>1. CASE l \in noticed
  <2>1. Over(l)
    BY <1>1 DEF Registered, Over, finalizeExited, release, removeMatchEnvelopeFile,
         Alive, Launching, LaunchInv, LaunchTypeOK, Children, ExitsHappened
  <2> QED  BY <2>1, OverKeeps
<1>2. CASE l \notin noticed
  <2>1. Runs(l)
    BY <1>2 DEF Registered, Runs
  <2> QED  BY <2>1, RunsKeeps
<1> QED  BY <1>1, <1>2

LEMMA StopKeeps ==
  ASSUME LaunchInv, NEW l \in LaunchIds, StopMatch(l)
  PROVE  LaunchInv'
<1>1. Over(l)
  BY DEF StopMatch, Over, kill, finalizeExited, release, removeMatchEnvelopeFile,
         Alive, LaunchInv, LaunchTypeOK, Children, ExitsHappened
<1> QED  BY <1>1, OverKeeps

-----------------------------------------------------------------------------
LEMMA LaunchInitially ==
  LaunchInit => LaunchInv
<1> SUFFICES ASSUME LaunchInit PROVE LaunchInv
  OBVIOUS
<1>1. LaunchTypeOK
  BY LaunchAssumption DEF LaunchInit, LaunchTypeOK, LaunchPorts
<1>2. Alive = {}
  BY DEF LaunchInit, Alive, Launching
<1>3. Books /\ Files
  BY <1>2 DEF LaunchInit, Books, Files
<1>4. Told /\ Children /\ ProbeReachesItsMatch
  BY DEF LaunchInit, Told, Children, NoChildYet, ExitsHappened, OneListener,
         ReachedListened, ProbeReachesItsMatch
<1> QED  BY <1>1, <1>3, <1>4 DEF LaunchInv

LEMMA LaunchStutters ==
  ASSUME LaunchInv, UNCHANGED launchVars
  PROVE  LaunchInv'
<1>1. Waits
  BY DEF launchVars, Waits, LaunchInv, LaunchTypeOK, Children, ExitsHappened
<1> QED  BY <1>1, WaitsKeeps

LEMMA LaunchKeeps ==
  LaunchInv /\ [LaunchNext]_launchVars => LaunchInv'
<1> SUFFICES ASSUME LaunchInv, [LaunchNext]_launchVars PROVE LaunchInv'
  OBVIOUS
<1>1. CASE UNCHANGED launchVars
  BY <1>1, LaunchStutters
<1>2. CASE LaunchNext
  <2>1. PICK l \in LaunchIds :
          \/ BeginLaunch(l) \/ EnvelopeArrives(l) \/ EnvelopeRefused(l)
          \/ tryConnect(l) \/ Connected(l) \/ ConnectRefused(l) \/ delayEnds(l)
          \/ DeadlinePasses(l) \/ TimesOut(l) \/ ExitSeen(l)
          \/ Registered(l) \/ RegisterRefused(l) \/ StopMatch(l)
          \/ ChildBinds(l) \/ ChildExits(l)
    BY <1>2 DEF LaunchNext
  <2> QED  BY <2>1, BeginKeeps, EnvelopeKeeps, FailuresKeep, ProbeKeeps, ConnectedKeeps,
              ExitSeenKeeps, RegisteredKeeps, StopKeeps, BindsKeeps, ExitsKeeps
<1> QED  BY <1>1, <1>2

\* LaunchInv holds in every state of the launches, whatever fails and exits.
THEOREM LaunchInvariant == LaunchSpec => []LaunchInv
BY LaunchInitially, LaunchKeeps, PTL DEF LaunchSpec

\* Nothing of a launch stays behind: ports, envelope files and processes, at
\* whatever step it failed and however it was stopped (LaunchLeavesNothing).
THEOREM NothingIsLeft == LaunchSpec => []LaunchLeavesNothing
<1>1. LaunchInv => LaunchLeavesNothing
  BY DEF LaunchInv, Books, Files, Told, Alive, LaunchLeavesNothing
<1> QED  BY <1>1, LaunchInvariant, PTL

\* A probe answered by a foreign process was answered by one that is being
\* taken down, so no match leads into another (ProbeReachesItsMatch).
THEOREM ProbesReachTheirMatch == LaunchSpec => []ProbeReachesItsMatch
<1>1. LaunchInv => ProbeReachesItsMatch
  BY DEF LaunchInv
<1> QED  BY <1>1, LaunchInvariant, PTL
=============================================================================
