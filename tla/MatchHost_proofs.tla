-------------------------- MODULE MatchHost_proofs --------------------------
(***************************************************************************)
(* Theorems about the match host, for any number of matches, ports, limits *)
(* and faults, and for any number of runs of the reclaim timer that        *)
(* overlap.                                                                *)
(*                                                                         *)
(* The invariant has five parts, each about a few variables: types, the    *)
(* allocator's books, the results, the runs of the timer and the leases.   *)
(* For each part the actions fall into a few shapes.                       *)
(***************************************************************************)
EXTENDS MatchHost, FiniteSetTheorems, WellFoundedInduction, SequenceTheorems, TLAPS

SweepRun == [pc : {"idle", "settlement", "replay", "reclaim"},
             at : Nat, todo : SUBSET Matches]

\* What HostTypeOK says but for the runs of the timer and the clocks.
Types ==
    /\ pc \in [Matches -> {"none", "running", "failed"} \cup Starting \cup Stopping \cup Ended]
    /\ port \in [Matches -> Ports \cup {NoPort}]
    /\ proc \in [Matches -> {"none", "alive", "dying", "dead"}]
    /\ stopper \in [Matches -> {"none", "exit", "sweep", "request", "shutdown"}]
    /\ result \in [Matches -> SUBSET {"settlement", "replay"}]
    /\ posted \in [Matches -> SUBSET {"settlement", "replay"}]
    /\ inUse \subseteq Ports
    /\ cursor \in Ports
    /\ host \in {"up", "closing", "draining", "exited"}
    /\ registered \subseteq Matches
    /\ stored \subseteq {"settlement", "replay"} \X Matches

\* A run in hand points at an entry; one that points nowhere condemns nobody.
Runs ==
    /\ sweep \in [Sweeps -> SweepRun]
    /\ entries \in Seq(Matches)
    /\ \A s \in Sweeps : sweep[s].at \in {0} \cup DOMAIN entries
    /\ \A s \in Sweeps : sweep[s].at = 0 => sweep[s].todo = {}

\* The age of a lease is the time since the last input that renewed it; only
\* input the timer has not seen yet can be younger.
Leases ==
    /\ unseen \in [Matches -> BOOLEAN]
    /\ age \in [Matches -> 0 .. MaxAge]
    /\ quiet \in [Matches -> 0 .. MaxAge]
    /\ \A m \in Matches : ~unseen[m] => age[m] <= quiet[m]

HostInv == Types /\ PortAccounting /\ SettledBeforeUnregistered /\ Runs /\ Leases

-----------------------------------------------------------------------------
(* The smallest element of a set of positions.                             *)

LEMMA SmallestExists ==
  ASSUME NEW S, S \subseteq Nat, S # {}
  PROVE  \E n \in S : \A k \in S : n <= k
<1>1. PICK n \in S : \A k \in S : ~(<<k, n>> \in OpToRel(<, Nat))
  BY NatLessThanWellFounded, WFMin
<1>2. \A k \in S : ~(k < n)
  BY <1>1 DEF OpToRel
<1> QED  BY <1>2

LEMMA SmallestChosen ==
  ASSUME NEW S, S \subseteq Nat, S # {}
  PROVE  (CHOOSE n \in S : \A k \in S : n <= k) \in S
BY SmallestExists

-----------------------------------------------------------------------------
(* The books of the allocator.                                             *)

Held == Starting \cup {"running"}

\* The matches ms are told to stop or failed: their ports are free again.
Frees(ms) ==
    /\ ms \subseteq Holding
    /\ Holding' = Holding \ ms
    /\ Release(ms)

Keeps == Holding' = Holding /\ UNCHANGED <<port, inUse>>

LEMMA HoldingIsFinite ==
  ASSUME HostInv
  PROVE  IsFiniteSet(Holding) /\ IsFiniteSet(inUse)
<1>1. IsFiniteSet(Ports)
  BY FS_Interval, PortRange DEF Ports
<1>2. IsFiniteSet(inUse)
  BY <1>1, FS_Subset DEF HostInv, Types
<1> DEFINE f == [m \in Holding |-> port[m]]
<1>3. f \in Injection(Holding, inUse)
  BY DEF Injection, IsInjective, HostInv, PortAccounting
<1> QED  BY <1>2, <1>3, FS_Injection

\* A match is given a port nobody has.
LEMMA PostBooks ==
  ASSUME HostInv, NEW m \in Matches, Post(m)
  PROVE  PortAccounting'
<1>1. PICK p \in NextPort : port' = [port EXCEPT ![m] = p] /\ inUse' = inUse \cup {p}
  BY DEF Post
<1>2. p \notin inUse
  BY DEF NextPort
<1>3. Holding' = Holding \cup {m} /\ m \notin Holding
  BY DEF Post, To, Holding, Starting, HostInv, Types
<1>4. \A k \in Holding : port'[k] = port[k]
  BY <1>1, <1>3 DEF HostInv, Types, Holding
<1>5. port'[m] = p
  BY <1>1 DEF HostInv, Types
<1>6. inUse' = {port'[k] : k \in Holding'}
  BY <1>1, <1>3, <1>4, <1>5 DEF HostInv, PortAccounting
<1>7. \A k, l \in Holding' : port'[k] = port'[l] => k = l
  <2>1. \A k \in Holding : port'[k] # p
    BY <1>2, <1>4 DEF HostInv, PortAccounting
  <2> QED  BY <1>3, <1>4, <1>5, <2>1 DEF HostInv, PortAccounting
<1>8. Cardinality(inUse') <= MaxMatches
  <2>1. IsFiniteSet(Holding) /\ IsFiniteSet(inUse)
    BY HoldingIsFinite
  <2>2. Cardinality(inUse') = Cardinality(inUse) + 1
    BY <1>1, <1>2, <2>1, FS_AddElement
  <2> DEFINE f == [k \in Holding |-> port[k]]
  <2>3. f \in Surjection(Holding, inUse)
    BY DEF Surjection, HostInv, PortAccounting
  <2>4. Cardinality(inUse) <= Cardinality(Holding)
    BY <2>1, <2>3, FS_Surjection
  <2>5. Cardinality(Holding) < MaxMatches
    BY DEF Post, Occupied, Holding
  <2>6. Cardinality(inUse) \in Nat /\ Cardinality(Holding) \in Nat
    BY <2>1, FS_CardinalityType
  <2> QED  BY <2>2, <2>4, <2>5, <2>6, MaxMatchesType
<1> QED  BY <1>6, <1>7, <1>8 DEF PortAccounting

LEMMA FreesBooks ==
  ASSUME HostInv, NEW ms, Frees(ms)
  PROVE  PortAccounting'
<1>1. inUse' = inUse \ {port[m] : m \in ms} /\ port' = port
  BY DEF Frees, Release
<1>2. inUse' = {port'[k] : k \in Holding'}
  BY <1>1 DEF Frees, HostInv, PortAccounting
<1>3. \A k, l \in Holding' : port'[k] = port'[l] => k = l
  BY <1>1 DEF Frees, HostInv, PortAccounting
<1>4. Cardinality(inUse') <= MaxMatches
  <2>1. IsFiniteSet(inUse)
    BY HoldingIsFinite
  <2>2. inUse' \in SUBSET inUse
    BY <1>1
  <2>3. IsFiniteSet(inUse') /\ Cardinality(inUse') <= Cardinality(inUse)
    BY <2>1, <2>2, FS_Subset
  <2>4. Cardinality(inUse) \in Nat /\ Cardinality(inUse') \in Nat
    BY <2>1, <2>3, FS_CardinalityType
  <2> QED  BY <2>3, <2>4, MaxMatchesType DEF HostInv, PortAccounting
<1> QED  BY <1>2, <1>3, <1>4 DEF PortAccounting

LEMMA KeepsBooks ==
  ASSUME HostInv, Keeps
  PROVE  PortAccounting'
BY DEF Keeps, HostInv, PortAccounting

LEMMA FailureFrees ==
  ASSUME HostInv, NEW m \in Matches, pc[m] \in Starting, StartFails(m)
  PROVE  Frees({m})
BY DEF StartFails, Frees, To, Holding, Starting, HostInv, Types

LEMMA StopFrees ==
  ASSUME HostInv, NEW ms, NEW who, ms \subseteq Matches,
         \A m \in ms : pc[m] \in Starting \cup {"running"}, StopAll(ms, who)
  PROVE  Frees(ms)
<1>1. \A m \in ms : pc'[m] \in {"settling", "replaying", "unregistering"}
  BY DEF StopAll, FirstCall, AfterSettling
<1>2. \A m \in Matches \ ms : pc'[m] = pc[m]
  BY DEF StopAll
<1> QED  BY <1>1, <1>2 DEF StopAll, Frees, Holding, Starting

\* A step of one match that leaves it on the side of Holding it is on.
LEMMA MoveKeeps ==
  ASSUME HostInv, NEW m \in Matches, NEW where,
         To(m, where), UNCHANGED <<port, inUse>>,
         (pc[m] \in Held) <=> (where \in Held)
  PROVE  Keeps
BY DEF To, Keeps, Holding, Held, HostInv, Types

LEMMA StillKeeps ==
  ASSUME UNCHANGED <<pc, port, inUse>>
  PROVE  Keeps
BY DEF Keeps, Holding

LEMMA StartBooks ==
  ASSUME HostInv, NEW m \in Matches, StartStep(m)
  PROVE  PortAccounting'
<1>1. CASE EnvelopeFetched(m)
  <2>1. Keeps
    BY <1>1, MoveKeeps DEF EnvelopeFetched, ports, Held, Starting
  <2> QED  BY <2>1, KeepsBooks
<1>2. CASE Listens(m)
  <2>1. Keeps
    BY <1>2, MoveKeeps DEF Listens, ports, Held, Starting
  <2> QED  BY <2>1, KeepsBooks
<1>3. CASE EnvelopeFails(m) \/ ListenFails(m) \/ RegisterFails(m)
  <2>1. pc[m] \in Starting /\ StartFails(m)
    BY <1>3 DEF EnvelopeFails, ListenFails, RegisterFails, Starting
  <2> QED  BY <2>1, FailureFrees, FreesBooks
<1>4. CASE Registers(m)
  <2>1. CASE proc[m] = "dead"
    <3>1. pc[m] \in Starting /\ StopAll({m}, "exit")
      BY <1>4, <2>1 DEF Registers, Starting
    <3> QED  BY <3>1, StopFrees, FreesBooks
  <2>2. CASE proc[m] # "dead"
    <3>1. Keeps
      BY <1>4, <2>2, MoveKeeps DEF Registers, ports, Held, Starting
    <3> QED  BY <3>1, KeepsBooks
  <2> QED  BY <2>1, <2>2
<1> QED  BY <1>1, <1>2, <1>3, <1>4 DEF StartStep

LEMMA StopBooks ==
  ASSUME HostInv, NEW m \in Matches, StopStep(m)
  PROVE  PortAccounting'
<1>1. PICK where \in Stopping \cup Ended : To(m, where) /\ pc[m] \in Stopping
  BY DEF StopStep, Settles, SettlementFails, Replays, ReplayFails, Unregisters,
         UnregisterFails, Calling, AfterSettling, Stopping, Ended
<1>2. UNCHANGED <<port, inUse>>
  BY DEF StopStep, Settles, SettlementFails, Replays, ReplayFails, Unregisters,
         UnregisterFails, FinalUnchanged, ports
<1>3. Keeps
  BY <1>1, <1>2, MoveKeeps DEF Held, Starting, Stopping, Ended
<1> QED  BY <1>3, KeepsBooks

LEMMA ExitBooks ==
  ASSUME HostInv, NEW m \in Matches, Exits(m)
  PROVE  PortAccounting'
<1>1. CASE Up /\ pc[m] = "running"
  <2>1. StopAll({m}, "exit")
    BY <1>1 DEF Exits
  <2> QED  BY <1>1, <2>1, StopFrees, FreesBooks
<1>2. CASE ~(Up /\ pc[m] = "running")
  BY <1>2, StillKeeps, KeepsBooks DEF Exits, ports
<1> QED  BY <1>1, <1>2

\* A run of the timer stops the next match it condemned, or nobody.
LEMMA StopNextStops ==
  ASSUME HostInv, NEW s, NEW todo, NEW renewed, StopNext(s, todo, renewed)
  PROVE  \/ UNCHANGED <<pc, proc, stopper, ports>> /\ Rewind({}, renewed)
         \/ \E i \in DOMAIN entries :
              CanStop(entries[i]) /\ StopNow({entries[i]}, "sweep", renewed)
<1> DEFINE ahead == {i \in DOMAIN entries : /\ i > sweep[s].at
                                            /\ entries[i] \in todo
                                            /\ CanStop(entries[i])}
           next == CHOOSE i \in ahead : \A j \in ahead : i <= j
<1>1. CASE ahead = {}
  BY <1>1 DEF StopNext
<1>2. CASE ahead # {}
  <2>1. StopNow({entries[next]}, "sweep", renewed)
    BY <1>2 DEF StopNext
  <2>2. DOMAIN entries \subseteq Nat
    BY DEF HostInv, Runs
  <2>3. next \in ahead
    <3>1. ahead \subseteq Nat
      BY <2>2
    <3> HIDE DEF ahead
    <3> QED  BY <1>2, <3>1, SmallestChosen
  <2> QED  BY <2>1, <2>3
<1> QED  BY <1>1, <1>2

LEMMA SweepBooks ==
  ASSUME HostInv, NEW s, NEW todo, NEW renewed, StopNext(s, todo, renewed)
  PROVE  PortAccounting'
<1>1. CASE UNCHANGED <<pc, proc, stopper, ports>>
  BY <1>1, StillKeeps, KeepsBooks DEF ports
<1>2. ASSUME NEW i \in DOMAIN entries,
             CanStop(entries[i]), StopNow({entries[i]}, "sweep", renewed)
      PROVE  PortAccounting'
  <2>1. entries[i] \in Matches
    BY DEF HostInv, Runs
  <2>2. StopAll({entries[i]}, "sweep") /\ pc[entries[i]] = "running"
    BY <1>2 DEF StopNow, CanStop
  <2> QED  BY <2>1, <2>2, StopFrees, FreesBooks
<1> QED  BY <1>1, <1>2, StopNextStops

LEMMA BooksKept ==
  ASSUME HostInv, [HostNext]_vars
  PROVE  PortAccounting'
<1>1. CASE UNCHANGED vars
  BY <1>1, StillKeeps, KeepsBooks DEF vars, ports
<1>2. ASSUME NEW m \in Matches, Post(m) PROVE PortAccounting'
  BY <1>2, PostBooks
<1>3. ASSUME NEW m \in Matches, StartStep(m) PROVE PortAccounting'
  BY <1>3, StartBooks
<1>4. ASSUME NEW m \in Matches, PlayerActs(m) \/ Finishes(m) \/ Renew(m)
      PROVE  PortAccounting'
  BY <1>4, StillKeeps, KeepsBooks DEF PlayerActs, Finishes, Renew, ports
<1>5. ASSUME NEW m \in Matches, Exits(m) PROVE PortAccounting'
  BY <1>5, ExitBooks
<1>6. ASSUME NEW m \in Matches, RequestStop(m) PROVE PortAccounting'
  <2>1. StopAll({m}, "request") /\ pc[m] = "running"
    BY <1>6 DEF RequestStop, StopNow, CanStop
  <2> QED  BY <2>1, StopFrees, FreesBooks
<1>7. ASSUME NEW m \in Matches, StopStep(m) PROVE PortAccounting'
  BY <1>7, StopBooks
<1>8. ASSUME NEW s \in Sweeps, StartSweep(s) \/ SweepAborts(s)
      PROVE  PortAccounting'
  BY <1>8, StillKeeps, KeepsBooks DEF StartSweep, SweepAborts, ports
<1>9. ASSUME NEW s \in Sweeps, NEW kind, FlushStarts(s, kind) \/ FlushPosts(s, kind)
      PROVE  PortAccounting'
  BY <1>9, StillKeeps, KeepsBooks DEF FlushStarts, FlushPosts, FlushUnchanged, ports
<1>10. ASSUME NEW s \in Sweeps, SweepRenews(s) \/ SweepGoesOn(s)
       PROVE  PortAccounting'
  BY <1>10, SweepBooks DEF SweepRenews, SweepGoesOn
<1>11. CASE Shutdown
  <2>1. StopAll(Running, "shutdown") /\ \A m \in Running : pc[m] = "running"
    BY <1>11 DEF Shutdown, StopNow, Running
  <2>2. Running \subseteq Matches
    BY DEF Running
  <2> QED  BY <2>1, <2>2, StopFrees, FreesBooks
<1>12. CASE CloseServer \/ ExitHost \/ Tick
  BY <1>12, StillKeeps, KeepsBooks DEF CloseServer, ExitHost, Tick, ports
<1> QED  BY <1>1, <1>2, <1>3, <1>4, <1>5, <1>6, <1>7, <1>8, <1>9, <1>10, <1>11, <1>12
         DEF HostNext, SweepStep

-----------------------------------------------------------------------------
(* Results.                                                                *)

\* A match past its settlement call, by a stop that does not go back on it.
Past == {"replaying", "unregistering", "ended"}

\* Nothing is unsaid: rows are only added, a kind is posted when its row is
\* there, and whoever gets past the settlement has no result or a row.
Honest ==
    /\ stored \subseteq stored'
    /\ \A m \in Matches : \A kind \in posted'[m] : kind \in posted[m] \/ <<kind, m>> \in stored'
    /\ \A m \in Matches :
         pc'[m] \in Past /\ "settlement" \in result'[m] =>
            \/ pc[m] \in Past /\ "settlement" \in result[m]
            \/ <<"settlement", m>> \in stored'

LEMMA HonestSettled ==
  ASSUME HostInv, Honest
  PROVE  SettledBeforeUnregistered'
<1> SUFFICES ASSUME NEW m \in Matches
             PROVE  /\ pc'[m] \in Past /\ "settlement" \in result'[m]
                         => <<"settlement", m>> \in stored'
                    /\ \A kind \in posted'[m] : <<kind, m>> \in stored'
  BY DEF SettledBeforeUnregistered, Past
<1> QED  BY DEF Honest, HostInv, SettledBeforeUnregistered, Past

\* The books are as they were and no match gets past its settlement.
LEMMA UnmovedHonest ==
  ASSUME UNCHANGED <<posted, stored, result>>,
         \A m \in Matches : pc'[m] \in Past => pc[m] \in Past \/ "settlement" \notin result[m]
  PROVE  Honest
BY DEF Honest

LEMMA StopHonest ==
  ASSUME NEW ms, NEW who, StopAll(ms, who), UNCHANGED <<posted, stored, result>>
  PROVE  Honest
<1>1. \A m \in Matches : pc'[m] \in Past => pc[m] \in Past \/ "settlement" \notin result[m]
  BY DEF StopAll, FirstCall, AfterSettling, Past
<1> QED  BY <1>1, UnmovedHonest

LEMMA ToHonest ==
  ASSUME HostInv, NEW m \in Matches, NEW where, where \notin Past, To(m, where),
         UNCHANGED <<posted, stored, result>>
  PROVE  Honest
<1>1. \A k \in Matches : pc'[k] \in Past => pc[k] \in Past \/ "settlement" \notin result[k]
  BY DEF To, HostInv, Types
<1> QED  BY <1>1, UnmovedHonest

LEMMA StartHonest ==
  ASSUME HostInv, NEW m \in Matches, StartStep(m)
  PROVE  Honest
<1>1. CASE EnvelopeFetched(m) \/ Listens(m)
  BY <1>1, ToHonest DEF EnvelopeFetched, Listens, control, Past
<1>2. CASE EnvelopeFails(m) \/ ListenFails(m) \/ RegisterFails(m)
  <2>1. StartFails(m)
    BY <1>2 DEF EnvelopeFails, ListenFails, RegisterFails
  <2> QED  BY <2>1, ToHonest DEF StartFails, Past
<1>3. CASE Registers(m)
  <2>1. UNCHANGED <<posted, stored, result>>
    BY <1>3 DEF Registers
  <2>2. StopAll({m}, "exit") \/ To(m, "running")
    BY <1>3 DEF Registers
  <2> QED  BY <2>1, <2>2, StopHonest, ToHonest DEF Past
<1> QED  BY <1>1, <1>2, <1>3 DEF StartStep

LEMMA StopStepHonest ==
  ASSUME HostInv, NEW m \in Matches, StopStep(m)
  PROVE  Honest
<1>1. result' = result
  BY DEF StopStep, Settles, SettlementFails, Replays, ReplayFails, Unregisters,
         UnregisterFails, FinalUnchanged
<1>2. stored \subseteq stored'
  BY DEF StopStep, Settles, SettlementFails, Replays, ReplayFails, Unregisters,
         UnregisterFails, control
<1>3. ASSUME NEW k \in Matches, NEW kind \in posted'[k]
      PROVE  kind \in posted[k] \/ <<kind, k>> \in stored'
  <2>1. CASE Settles(m)
    BY <1>3, <2>1 DEF Settles, HostInv, Types
  <2>2. CASE Replays(m)
    BY <1>3, <2>2 DEF Replays, HostInv, Types
  <2>3. CASE SettlementFails(m) \/ ReplayFails(m) \/ Unregisters(m) \/ UnregisterFails(m)
    BY <1>3, <2>3 DEF SettlementFails, ReplayFails, Unregisters, UnregisterFails
  <2> QED  BY <2>1, <2>2, <2>3 DEF StopStep
<1>4. ASSUME NEW k \in Matches, pc'[k] \in Past
      PROVE  pc[k] \in Past \/ <<"settlement", k>> \in stored'
  <2>1. CASE Settles(m)
    BY <1>4, <2>1 DEF Settles, To, HostInv, Types
  <2>2. CASE Replays(m) \/ ReplayFails(m) \/ Unregisters(m) \/ UnregisterFails(m)
    BY <1>4, <2>2 DEF Replays, ReplayFails, Unregisters, UnregisterFails, Calling, To,
                      Past, HostInv, Types
  <2>3. CASE SettlementFails(m)
    BY <1>4, <2>3 DEF SettlementFails, To, Past, HostInv, Types
  <2> QED  BY <2>1, <2>2, <2>3 DEF StopStep
<1> QED  BY <1>1, <1>2, <1>3, <1>4 DEF Honest

\* The entry a run of the timer has in hand is a match.
LEMMA InHand ==
  ASSUME HostInv, NEW s \in Sweeps, sweep[s].at # 0
  PROVE  entries[sweep[s].at] \in Matches
BY DEF HostInv, Runs

LEMMA FlushHonest ==
  ASSUME HostInv, NEW s \in Sweeps, NEW kind, FlushPosts(s, kind)
  PROVE  Honest
<1> DEFINE m == entries[sweep[s].at]
<1>1. m \in Matches
  BY InHand DEF FlushPosts
<1>2. UNCHANGED <<pc, result>>
  BY DEF FlushPosts, FlushUnchanged
<1>3. \/ stored' = stored \cup {<<kind, m>>} /\ posted' = [posted EXCEPT ![m] = @ \cup {kind}]
      \/ stored \subseteq stored' /\ posted' = posted
  BY DEF FlushPosts
<1> HIDE DEF m
<1>4. stored \subseteq stored'
  BY <1>3
<1>5. \A k \in Matches : \A x \in posted'[k] : x \in posted[k] \/ <<x, k>> \in stored'
  BY <1>1, <1>3 DEF HostInv, Types
<1> QED  BY <1>2, <1>4, <1>5 DEF Honest

LEMMA SweepHonest ==
  ASSUME HostInv, NEW s, NEW todo, NEW renewed, StopNext(s, todo, renewed),
         UNCHANGED <<posted, stored, result>>
  PROVE  Honest
<1>1. CASE UNCHANGED pc
  BY <1>1, UnmovedHonest
<1>2. CASE \E ms : StopAll(ms, "sweep")
  BY <1>2, StopHonest
<1> QED  BY <1>1, <1>2, StopNextStops DEF StopNow

LEMMA ResultsKept ==
  ASSUME HostInv, [HostNext]_vars
  PROVE  Honest
<1>1. CASE UNCHANGED vars
  BY <1>1, UnmovedHonest DEF vars, control
<1>2. ASSUME NEW m \in Matches, Post(m) PROVE Honest
  <2>1. To(m, "preparing") \/ To(m, "listening")
    BY <1>2 DEF Post
  <2> QED  BY <1>2, <2>1, ToHonest DEF Post, control, Past
<1>3. ASSUME NEW m \in Matches, StartStep(m) PROVE Honest
  BY <1>3, StartHonest
<1>4. ASSUME NEW m \in Matches, PlayerActs(m) \/ Renew(m) PROVE Honest
  BY <1>4, UnmovedHonest DEF PlayerActs, Renew, control
<1>5. ASSUME NEW m \in Matches, Finishes(m) PROVE Honest
  <2>1. pc[m] \notin Past
    BY <1>5 DEF Finishes, Past
  <2> QED  BY <1>5, <2>1 DEF Finishes, control, Honest, HostInv, Types
<1>6. ASSUME NEW m \in Matches, Exits(m) PROVE Honest
  <2>1. CASE StopAll({m}, "exit")
    BY <1>6, <2>1, StopHonest DEF Exits, control
  <2>2. CASE UNCHANGED pc
    BY <1>6, <2>2, UnmovedHonest DEF Exits, control
  <2> QED  BY <1>6, <2>1, <2>2 DEF Exits
<1>7. ASSUME NEW m \in Matches, RequestStop(m) PROVE Honest
  BY <1>7, StopHonest DEF RequestStop, StopNow, control
<1>8. ASSUME NEW m \in Matches, StopStep(m) PROVE Honest
  BY <1>8, StopStepHonest
<1>9. ASSUME NEW s \in Sweeps, StartSweep(s) \/ SweepAborts(s) PROVE Honest
  BY <1>9, UnmovedHonest DEF StartSweep, SweepAborts, control
<1>10. ASSUME NEW s \in Sweeps, NEW kind, FlushStarts(s, kind) PROVE Honest
  BY <1>10, UnmovedHonest DEF FlushStarts, FlushUnchanged
<1>11. ASSUME NEW s \in Sweeps, NEW kind, FlushPosts(s, kind) PROVE Honest
  BY <1>11, FlushHonest
<1>12. ASSUME NEW s \in Sweeps, SweepRenews(s) \/ SweepGoesOn(s) PROVE Honest
  BY <1>12, SweepHonest DEF SweepRenews, SweepGoesOn, control
<1>13. CASE Shutdown
  BY <1>13, StopHonest DEF Shutdown, StopNow, control
<1>14. CASE CloseServer \/ ExitHost \/ Tick
  BY <1>14, UnmovedHonest DEF CloseServer, ExitHost, Tick, control
<1> QED  BY <1>1, <1>2, <1>3, <1>4, <1>5, <1>6, <1>7, <1>8, <1>9, <1>10, <1>11, <1>12,
            <1>13, <1>14 DEF HostNext, SweepStep

-----------------------------------------------------------------------------
(* The runs of the timer.                                                  *)

LEMMA TodoOf ==
  ASSUME NEW r \in SweepRun, NEW t \in SUBSET Matches
  PROVE  /\ [r EXCEPT !.todo = t] \in SweepRun
         /\ [r EXCEPT !.todo = t].at = r.at
         /\ [r EXCEPT !.todo = t].todo = t
BY DEF SweepRun

LEMMA AtOf ==
  ASSUME NEW r \in SweepRun, NEW i \in Nat
  PROVE  /\ [r EXCEPT !.at = i] \in SweepRun
         /\ [r EXCEPT !.at = i].at = i
         /\ [r EXCEPT !.at = i].todo = r.todo
BY DEF SweepRun

\* The runs go on: each is reset, or stays in hand and condemns nobody anew.
Calm ==
    /\ sweep' \in [Sweeps -> SweepRun]
    /\ entries' \in Seq(Matches) /\ DOMAIN entries \subseteq DOMAIN entries'
    /\ \A s \in Sweeps :
         /\ sweep'[s].at \in {0} \cup DOMAIN entries
         /\ sweep'[s].at = 0 => sweep'[s].todo = {}
         /\ sweep'[s].todo \subseteq sweep[s].todo

LEMMA CalmRuns ==
  ASSUME HostInv, Calm
  PROVE  Runs'
BY DEF Calm, Runs

LEMMA StillCalm ==
  ASSUME HostInv, UNCHANGED <<sweep, entries>>
  PROVE  Calm
BY DEF Calm, HostInv, Runs

\* Run s starts again, ends, or goes on to its next phase.
LEMMA ResetCalm ==
  ASSUME HostInv, NEW s \in Sweeps,
         NEW p \in {"idle", "settlement", "replay", "reclaim"},
         sweep' = [sweep EXCEPT ![s] = [pc |-> p, at |-> 0, todo |-> {}]],
         entries' = entries
  PROVE  Calm
<1> DEFINE r == [pc |-> p, at |-> 0, todo |-> {}]
<1>1. r \in SweepRun /\ r.at = 0 /\ r.todo = {}
  BY DEF SweepRun
<1>2. sweep' = [sweep EXCEPT ![s] = r]
  OBVIOUS
<1> HIDE DEF r
<1> QED  BY <1>1, <1>2 DEF Calm, HostInv, Runs

LEMMA GoOnCalm ==
  ASSUME HostInv, NEW s \in Sweeps, NEW kind, GoOn(s, kind), entries' = entries
  PROVE  Calm
<1> DEFINE ahead == {i \in Flushable(kind) : i > sweep[s].at}
           next == CHOOSE i \in ahead : \A j \in ahead : i <= j
<1>1. CASE ahead = {}
  <2>1. sweep' = [sweep EXCEPT ![s] = [pc |-> NextPhase(kind), at |-> 0, todo |-> {}]]
    BY <1>1 DEF GoOn
  <2>2. NextPhase(kind) \in {"replay", "reclaim"}
    BY DEF NextPhase
  <2> QED  BY <2>1, <2>2, ResetCalm
<1>2. CASE ahead # {}
  <2>1. sweep' = [sweep EXCEPT ![s] = [sweep[s] EXCEPT !.at = next]]
    BY <1>2 DEF GoOn
  <2>2. next \in DOMAIN entries /\ next \in Nat \ {0}
    <3>1. ahead \subseteq DOMAIN entries
      BY DEF Flushable
    <3>2. DOMAIN entries \subseteq Nat \ {0}
      BY DEF HostInv, Runs
    <3> HIDE DEF ahead
    <3> QED  BY <1>2, <3>1, <3>2, SmallestChosen
  <2> HIDE DEF next
  <2>3. PICK r : r = [sweep[s] EXCEPT !.at = next]
    OBVIOUS
  <2>4. r \in SweepRun /\ r.at = next /\ r.todo = sweep[s].todo
    BY <2>2, <2>3, AtOf DEF HostInv, Runs
  <2>5. sweep' = [sweep EXCEPT ![s] = r]
    BY <2>1, <2>3
  <2> QED  BY <2>2, <2>4, <2>5 DEF Calm, HostInv, Runs
<1> QED  BY <1>1, <1>2

LEMMA SpareFacts ==
  ASSUME HostInv, NEW s \in Sweeps, NEW ms, NEW x \in Sweeps
  PROVE  /\ Spare(s, ms)[x] \in SweepRun
         /\ Spare(s, ms)[x].at = sweep[x].at
         /\ Spare(s, ms)[x].todo \subseteq sweep[x].todo
         /\ x = s => Spare(s, ms)[x] = sweep[x]
<1>1. CASE x = s
  BY <1>1 DEF Spare, HostInv, Runs
<1>2. CASE x # s
  <2>1. Spare(s, ms)[x] = [sweep[x] EXCEPT !.todo = sweep[x].todo \ ms]
    BY <1>2, Zenon DEF Spare
  <2>2. sweep[x] \in SweepRun /\ sweep[x].todo \ ms \in SUBSET Matches
    BY DEF HostInv, Runs, SweepRun
  <2>3. PICK t : t = sweep[x].todo \ ms
    OBVIOUS
  <2> QED  BY <1>2, <2>1, <2>2, <2>3, TodoOf
<1> QED  BY <1>1, <1>2

\* What the next stop of run s makes of the runs.
LEMMA StopNextRuns ==
  ASSUME HostInv, NEW s \in Sweeps, NEW todo \in SUBSET Matches, NEW renewed,
         StopNext(s, todo, renewed), entries' = entries
  PROVE  /\ sweep' \in [Sweeps -> SweepRun]
         /\ \A x \in Sweeps :
              /\ sweep'[x].at \in {0} \cup DOMAIN entries
              /\ sweep'[x].at = 0 => sweep'[x].todo = {}
              /\ sweep'[x].todo \subseteq sweep[x].todo \cup (IF x = s THEN todo ELSE {})
<1> DEFINE ahead == {i \in DOMAIN entries : /\ i > sweep[s].at
                                            /\ entries[i] \in todo
                                            /\ CanStop(entries[i])}
           next == CHOOSE i \in ahead : \A j \in ahead : i <= j
<1>1. PICK sp : sp = Spare(s, renewed)
  OBVIOUS
<1>2. sp \in [Sweeps -> SweepRun]
  <2>1. sp = [x \in Sweeps |-> sp[x]]
    BY <1>1, Zenon DEF Spare
  <2>2. \A x \in Sweeps : sp[x] \in SweepRun
    BY <1>1, SpareFacts
  <2> QED  BY <2>1, <2>2
<1>3. \A x \in Sweeps : sp[x].at = sweep[x].at /\ sp[x].todo \subseteq sweep[x].todo
  BY <1>1, SpareFacts
<1>4. PICK r \in SweepRun :
        /\ sweep' = [sp EXCEPT ![s] = r]
        /\ r.at \in {0} \cup DOMAIN entries
        /\ r.at = 0 => r.todo = {}
        /\ r.todo \subseteq todo
  <2>1. CASE ahead = {}
    <3> DEFINE q == [pc |-> "idle", at |-> 0, todo |-> {}]
    <3>1. sweep' = [sp EXCEPT ![s] = q]
      BY <1>1, <2>1 DEF StopNext
    <3>2. q \in SweepRun /\ q.at = 0 /\ q.todo = {}
      BY DEF SweepRun
    <3> HIDE DEF q
    <3> QED  BY <3>1, <3>2
  <2>2. CASE ahead # {}
    <3>1. sweep' = [sp EXCEPT ![s].at = next, ![s].todo = todo]
      BY <1>1, <2>2 DEF StopNext
    <3>2. next \in DOMAIN entries /\ next \in Nat \ {0}
      <4>1. ahead \subseteq DOMAIN entries
        OBVIOUS
      <4>2. DOMAIN entries \subseteq Nat \ {0}
        BY DEF HostInv, Runs
      <4> HIDE DEF ahead
      <4> QED  BY <2>2, <4>1, <4>2, SmallestChosen
    <3> HIDE DEF next
    <3>3. PICK q : q = [sp[s] EXCEPT !.at = next]
      OBVIOUS
    <3>4. q \in SweepRun /\ q.at = next
      BY <1>2, <3>2, <3>3, AtOf
    <3>5. PICK r : r = [q EXCEPT !.todo = todo]
      OBVIOUS
    <3>6. r \in SweepRun /\ r.at = next /\ r.todo = todo
      BY <3>4, <3>5, TodoOf
    <3>7. sweep' = [sp EXCEPT ![s] = r]
      BY <1>2, <3>1, <3>3, <3>5
    <3> QED  BY <3>2, <3>6, <3>7
  <2> QED  BY <2>1, <2>2
<1> QED  BY <1>2, <1>3, <1>4 DEF HostInv, Runs

\* The timer judges leases only in the turn that starts a run's last phase.
RunsStep ==
    /\ Runs'
    /\ \A s \in Sweeps :
         sweep'[s].todo \subseteq
            sweep[s].todo \cup (IF sweep[s].at = 0 THEN Condemned ELSE {})

LEMMA CalmSteps ==
  ASSUME HostInv, Calm
  PROVE  RunsStep
BY CalmRuns DEF Calm, RunsStep

LEMMA RegistersCalm ==
  ASSUME HostInv, NEW m \in Matches, sweep' = sweep, entries' = Append(entries, m)
  PROVE  Calm
<1>1. entries \in Seq(Matches) /\ entries' \in Seq(Matches)
  BY DEF HostInv, Runs
<1>2. DOMAIN entries = 1 .. Len(entries) /\ DOMAIN entries' = 1 .. Len(entries) + 1
  BY <1>1
<1>3. Len(entries) \in Nat
  BY <1>1
<1> QED  BY <1>1, <1>2, <1>3 DEF Calm, HostInv, Runs

LEMMA RenewCalm ==
  ASSUME HostInv, NEW m \in Matches, Renew(m)
  PROVE  Calm
<1>1. sweep' = [s \in Sweeps |-> [sweep[s] EXCEPT !.todo = sweep[s].todo \ {m}]]
  BY DEF Renew
<1>2. ASSUME NEW s \in Sweeps
      PROVE  /\ sweep'[s] \in SweepRun
             /\ sweep'[s].at = sweep[s].at
             /\ sweep'[s].todo = sweep[s].todo \ {m}
  <2>1. sweep[s] \in SweepRun /\ sweep[s].todo \ {m} \in SUBSET Matches
    BY DEF HostInv, Runs, SweepRun
  <2>2. PICK t : t = sweep[s].todo \ {m}
    OBVIOUS
  <2>3. sweep'[s] = [sweep[s] EXCEPT !.todo = t]
    BY <1>1, <2>2, Zenon
  <2> QED  BY <2>1, <2>2, <2>3, TodoOf
<1>3. sweep' = [s \in Sweeps |-> sweep'[s]]
  BY <1>1, Zenon
<1>4. entries' = entries
  BY DEF Renew
<1> QED  BY <1>2, <1>3, <1>4 DEF Calm, HostInv, Runs

LEMMA SweepRuns ==
  ASSUME HostInv, NEW s \in Sweeps, SweepRenews(s) \/ SweepGoesOn(s)
  PROVE  RunsStep
<1>1. entries' = entries
  BY DEF SweepRenews, SweepGoesOn
<1>2. PICK todo, renewed :
        /\ todo \in SUBSET Matches
        /\ StopNext(s, todo, renewed)
        /\ todo \subseteq sweep[s].todo \cup (IF sweep[s].at = 0 THEN Condemned ELSE {})
  <2>1. CASE SweepRenews(s)
    <3>1. Condemned \in SUBSET Matches
      BY DEF Condemned, Running
    <3> QED  BY <2>1, <3>1 DEF SweepRenews
  <2>2. CASE SweepGoesOn(s)
    <3>1. sweep[s].todo \in SUBSET Matches
      BY DEF HostInv, Runs, SweepRun
    <3> QED  BY <2>2, <3>1 DEF SweepGoesOn
  <2> QED  BY <2>1, <2>2
<1>3. /\ sweep' \in [Sweeps -> SweepRun]
      /\ \A x \in Sweeps :
           /\ sweep'[x].at \in {0} \cup DOMAIN entries
           /\ sweep'[x].at = 0 => sweep'[x].todo = {}
           /\ sweep'[x].todo \subseteq sweep[x].todo \cup (IF x = s THEN todo ELSE {})
  BY <1>1, <1>2, StopNextRuns
<1> QED  BY <1>1, <1>2, <1>3 DEF RunsStep, HostInv, Runs

LEMMA RunsKept ==
  ASSUME HostInv, [HostNext]_vars
  PROVE  RunsStep
<1>1. CASE UNCHANGED vars
  BY <1>1, StillCalm, CalmSteps DEF vars
<1>2. ASSUME NEW m \in Matches, Post(m) PROVE RunsStep
  BY <1>2, StillCalm, CalmSteps DEF Post
<1>3. ASSUME NEW m \in Matches, StartStep(m) PROVE RunsStep
  <2>1. CASE Registers(m)
    BY <2>1, RegistersCalm, CalmSteps DEF Registers
  <2>2. CASE ~Registers(m)
    BY <1>3, <2>2, StillCalm, CalmSteps
       DEF StartStep, EnvelopeFetched, EnvelopeFails, Listens, ListenFails, RegisterFails,
           StartFails
  <2> QED  BY <2>1, <2>2
<1>4. ASSUME NEW m \in Matches, PlayerActs(m) \/ Finishes(m) \/ Exits(m) \/ RequestStop(m)
      PROVE  RunsStep
  BY <1>4, StillCalm, CalmSteps DEF PlayerActs, Finishes, Exits, RequestStop
<1>5. ASSUME NEW m \in Matches, StopStep(m) PROVE RunsStep
  BY <1>5, StillCalm, CalmSteps
     DEF StopStep, Settles, SettlementFails, Replays, ReplayFails, Unregisters,
         UnregisterFails, FinalUnchanged
<1>6. ASSUME NEW m \in Matches, Renew(m) PROVE RunsStep
  BY <1>6, RenewCalm, CalmSteps
<1>7. ASSUME NEW s \in Sweeps, StartSweep(s) PROVE RunsStep
  BY <1>7, ResetCalm, CalmSteps DEF StartSweep
<1>8. ASSUME NEW s \in Sweeps, SweepAborts(s) PROVE RunsStep
  BY <1>8, ResetCalm, CalmSteps DEF SweepAborts
<1>9. ASSUME NEW s \in Sweeps, NEW kind, FlushStarts(s, kind) \/ FlushPosts(s, kind)
      PROVE  RunsStep
  BY <1>9, GoOnCalm, CalmSteps DEF FlushStarts, FlushPosts, FlushUnchanged
<1>10. ASSUME NEW s \in Sweeps, SweepRenews(s) \/ SweepGoesOn(s) PROVE RunsStep
  BY <1>10, SweepRuns
<1>11. CASE Shutdown \/ CloseServer \/ ExitHost \/ Tick
  BY <1>11, StillCalm, CalmSteps DEF Shutdown, CloseServer, ExitHost, Tick
<1> QED  BY <1>1, <1>2, <1>3, <1>4, <1>5, <1>6, <1>7, <1>8, <1>9, <1>10, <1>11
         DEF HostNext, SweepStep

-----------------------------------------------------------------------------
(* The leases.                                                             *)

LEMMA MaxAgeType == MaxAge \in Nat \ {0} /\ Lease <= MaxAge /\ Idle <= MaxAge
BY LeaseTypes DEF MaxAge

LEMMA OlderType ==
  ASSUME NEW t \in 0 .. MaxAge
  PROVE  Older(t) \in 0 .. MaxAge
BY MaxAgeType DEF Older

LEMMA OlderOrder ==
  ASSUME NEW t \in 0 .. MaxAge, NEW u \in 0 .. MaxAge, t <= u
  PROVE  Older(t) <= Older(u)
BY MaxAgeType DEF Older

LEMMA StillLeases ==
  ASSUME HostInv, UNCHANGED clocks
  PROVE  Leases'
BY DEF clocks, HostInv, Leases

LEMMA RewindLeases ==
  ASSUME HostInv, NEW stopped, NEW renewed, Rewind(stopped, renewed)
  PROVE  Leases'
<1>1. 0 \in 0 .. MaxAge
  BY MaxAgeType
<1>2. age' \in [Matches -> 0 .. MaxAge]
  BY <1>1 DEF Rewind, HostInv, Leases
<1>3. quiet' \in [Matches -> 0 .. MaxAge]
  BY <1>1 DEF Rewind, HostInv, Leases
<1>4. unseen' \in [Matches -> BOOLEAN]
  BY DEF Rewind, HostInv, Leases
<1>5. ASSUME NEW m \in Matches, ~unseen'[m] PROVE age'[m] <= quiet'[m]
  <2>1. CASE m \in stopped \cup renewed
    BY <1>3, <2>1 DEF Rewind
  <2>2. CASE m \notin stopped \cup renewed
    <3>1. age'[m] = age[m] /\ quiet'[m] = quiet[m] /\ ~unseen[m]
      BY <1>5, <2>2 DEF Rewind
    <3> QED  BY <3>1 DEF HostInv, Leases
  <2> QED  BY <2>1, <2>2
<1> QED  BY <1>2, <1>3, <1>4, <1>5 DEF Leases

LEMMA SweepLeases ==
  ASSUME HostInv, NEW s, NEW todo, NEW renewed, StopNext(s, todo, renewed)
  PROVE  Leases'
<1>1. \E stopped, again : Rewind(stopped, again)
  BY StopNextStops DEF StopNow
<1> QED  BY <1>1, RewindLeases

LEMMA PlayerLeases ==
  ASSUME HostInv, NEW m \in Matches, PlayerActs(m)
  PROVE  Leases'
<1>1. 0 \in 0 .. MaxAge
  BY MaxAgeType
<1>2. /\ unseen' = [unseen EXCEPT ![m] = TRUE]
      /\ quiet' = [quiet EXCEPT ![m] = 0]
      /\ age' = age
  BY DEF PlayerActs
<1>3. \A k \in Matches : ~unseen'[k] => k # m
  BY <1>2 DEF HostInv, Leases
<1> QED  BY <1>1, <1>2, <1>3 DEF HostInv, Leases

LEMMA RenewLeases ==
  ASSUME HostInv, NEW m \in Matches, Renew(m)
  PROVE  Leases'
<1>1. 0 \in 0 .. MaxAge
  BY MaxAgeType
<1>2. age' = [age EXCEPT ![m] = 0] /\ UNCHANGED <<quiet, unseen>>
  BY DEF Renew
<1>3. \A k \in Matches : quiet[k] \in 0 .. MaxAge
  BY DEF HostInv, Leases
<1> QED  BY <1>1, <1>2, <1>3 DEF HostInv, Leases

LEMMA TickLeases ==
  ASSUME HostInv, Tick
  PROVE  Leases'
<1>1. /\ age' = [m \in Matches |-> IF m \in Running THEN Older(age[m]) ELSE age[m]]
      /\ quiet' = [m \in Matches |-> IF m \in Running THEN Older(quiet[m]) ELSE quiet[m]]
      /\ unseen' = unseen
  BY DEF Tick
<1>2. age' \in [Matches -> 0 .. MaxAge]
  BY <1>1, OlderType DEF HostInv, Leases
<1>3. quiet' \in [Matches -> 0 .. MaxAge]
  BY <1>1, OlderType DEF HostInv, Leases
<1>4. ASSUME NEW m \in Matches, ~unseen'[m] PROVE age'[m] <= quiet'[m]
  <2>1. /\ age[m] <= quiet[m]
        /\ age[m] \in 0 .. MaxAge /\ quiet[m] \in 0 .. MaxAge
    BY <1>1, <1>4 DEF HostInv, Leases
  <2> QED  BY <1>1, <2>1, OlderOrder
<1> QED  BY <1>1, <1>2, <1>3, <1>4 DEF HostInv, Leases

LEMMA LeasesKept ==
  ASSUME HostInv, [HostNext]_vars
  PROVE  Leases'
<1>1. CASE UNCHANGED vars
  BY <1>1, StillLeases DEF vars
<1>2. ASSUME NEW m \in Matches, Post(m) PROVE Leases'
  BY <1>2, StillLeases DEF Post
<1>3. ASSUME NEW m \in Matches, StartStep(m) PROVE Leases'
  BY <1>3, StillLeases
     DEF StartStep, EnvelopeFetched, EnvelopeFails, Listens, ListenFails, Registers,
         RegisterFails, StartFails
<1>4. ASSUME NEW m \in Matches, PlayerActs(m) PROVE Leases'
  BY <1>4, PlayerLeases
<1>5. ASSUME NEW m \in Matches, Finishes(m) PROVE Leases'
  BY <1>5, StillLeases DEF Finishes
<1>6. ASSUME NEW m \in Matches, Exits(m) \/ RequestStop(m) PROVE Leases'
  BY <1>6, StillLeases, RewindLeases DEF Exits, RequestStop, StopNow
<1>7. ASSUME NEW m \in Matches, StopStep(m) PROVE Leases'
  BY <1>7, StillLeases
     DEF StopStep, Settles, SettlementFails, Replays, ReplayFails, Unregisters,
         UnregisterFails, FinalUnchanged
<1>8. ASSUME NEW m \in Matches, Renew(m) PROVE Leases'
  BY <1>8, RenewLeases
<1>9. ASSUME NEW s \in Sweeps, StartSweep(s) \/ SweepAborts(s) PROVE Leases'
  BY <1>9, StillLeases DEF StartSweep, SweepAborts
<1>10. ASSUME NEW s \in Sweeps, NEW kind, FlushStarts(s, kind) \/ FlushPosts(s, kind)
       PROVE  Leases'
  BY <1>10, StillLeases DEF FlushStarts, FlushPosts, FlushUnchanged
<1>11. ASSUME NEW s \in Sweeps, SweepRenews(s) \/ SweepGoesOn(s) PROVE Leases'
  BY <1>11, SweepLeases DEF SweepRenews, SweepGoesOn
<1>12. CASE Shutdown
  BY <1>12, RewindLeases DEF Shutdown, StopNow
<1>13. CASE CloseServer \/ ExitHost
  BY <1>13, StillLeases DEF CloseServer, ExitHost
<1>14. CASE Tick
  BY <1>14, TickLeases
<1> QED  BY <1>1, <1>2, <1>3, <1>4, <1>5, <1>6, <1>7, <1>8, <1>9, <1>10, <1>11, <1>12,
            <1>13, <1>14 DEF HostNext, SweepStep

-----------------------------------------------------------------------------
(* Types.                                                                  *)

PcType == {"none", "running", "failed"} \cup Starting \cup Stopping \cup Ended

\* The types of what most steps leave alone: all but pc, proc and stopper.
OtherTypes ==
    /\ port \in [Matches -> Ports \cup {NoPort}]
    /\ result \in [Matches -> SUBSET {"settlement", "replay"}]
    /\ posted \in [Matches -> SUBSET {"settlement", "replay"}]
    /\ inUse \subseteq Ports
    /\ cursor \in Ports
    /\ host \in {"up", "closing", "draining", "exited"}
    /\ registered \subseteq Matches
    /\ stored \subseteq {"settlement", "replay"} \X Matches

MoveTypes ==
    /\ pc \in [Matches -> PcType]
    /\ proc \in [Matches -> {"none", "alive", "dying", "dead"}]
    /\ stopper \in [Matches -> {"none", "exit", "sweep", "request", "shutdown"}]

LEMMA TypesSplit == Types <=> OtherTypes /\ MoveTypes
BY DEF Types, OtherTypes, MoveTypes, PcType

LEMMA StillMoves ==
  ASSUME HostInv, UNCHANGED <<pc, proc, stopper>>
  PROVE  MoveTypes'
BY DEF MoveTypes, HostInv, Types, PcType

LEMMA ToMoves ==
  ASSUME HostInv, NEW m, NEW where \in PcType, To(m, where),
         UNCHANGED stopper, UNCHANGED proc \/ proc' = [proc EXCEPT ![m] = "alive"]
  PROVE  MoveTypes'
<1>1. pc' \in [Matches -> PcType]
  BY DEF To, HostInv, Types, PcType
<1>2. proc' \in [Matches -> {"none", "alive", "dying", "dead"}]
  BY DEF HostInv, Types
<1> QED  BY <1>1, <1>2 DEF MoveTypes, HostInv, Types

LEMMA KillTypes ==
  ASSUME HostInv, NEW ms, Kill(ms)
  PROVE  proc' \in [Matches -> {"none", "alive", "dying", "dead"}]
BY DEF Kill, HostInv, Types

LEMMA StopAllTypes ==
  ASSUME HostInv, NEW ms, NEW who \in {"exit", "sweep", "request", "shutdown"},
         StopAll(ms, who)
  PROVE  /\ pc' \in [Matches -> PcType]
         /\ stopper' \in [Matches -> {"none", "exit", "sweep", "request", "shutdown"}]
<1>1. \A m \in Matches : FirstCall(m) \in PcType
  BY DEF FirstCall, AfterSettling, PcType, Stopping
<1>2. pc' \in [Matches -> PcType]
  BY <1>1 DEF StopAll, HostInv, Types, PcType
<1>3. stopper' \in [Matches -> {"none", "exit", "sweep", "request", "shutdown"}]
  BY DEF StopAll, HostInv, Types
<1> QED  BY <1>2, <1>3

LEMMA StopNowMoves ==
  ASSUME HostInv, NEW ms, NEW who \in {"exit", "sweep", "request", "shutdown"},
         NEW renewed, StopNow(ms, who, renewed)
  PROVE  MoveTypes'
BY KillTypes, StopAllTypes DEF StopNow, MoveTypes

LEMMA FailureMoves ==
  ASSUME HostInv, NEW m, StartFails(m)
  PROVE  MoveTypes'
<1>1. pc' \in [Matches -> PcType]
  BY DEF StartFails, To, HostInv, Types, PcType
<1>2. proc' \in [Matches -> {"none", "alive", "dying", "dead"}]
  BY KillTypes DEF StartFails
<1> QED  BY <1>1, <1>2 DEF StartFails, MoveTypes, HostInv, Types

LEMMA MovesKept ==
  ASSUME HostInv, [HostNext]_vars
  PROVE  MoveTypes'
<1>1. CASE UNCHANGED vars
  BY <1>1, StillMoves DEF vars
<1>2. ASSUME NEW m \in Matches, Post(m) PROVE MoveTypes'
  <2>1. PICK where \in {"preparing", "listening"} :
          /\ To(m, where)
          /\ UNCHANGED proc \/ proc' = [proc EXCEPT ![m] = "alive"]
    BY <1>2 DEF Post
  <2> QED  BY <1>2, <2>1, ToMoves DEF Post, PcType, Starting
<1>3. ASSUME NEW m \in Matches, EnvelopeFetched(m) \/ Listens(m) PROVE MoveTypes'
  <2>1. PICK where \in {"listening", "registering"} :
          /\ To(m, where)
          /\ UNCHANGED proc \/ proc' = [proc EXCEPT ![m] = "alive"]
          /\ UNCHANGED stopper
    BY <1>3 DEF EnvelopeFetched, Listens
  <2> QED  BY <2>1, ToMoves DEF PcType, Starting
<1>4. ASSUME NEW m \in Matches, EnvelopeFails(m) \/ ListenFails(m) \/ RegisterFails(m)
      PROVE  MoveTypes'
  BY <1>4, FailureMoves DEF EnvelopeFails, ListenFails, RegisterFails
<1>5. ASSUME NEW m \in Matches, Registers(m) PROVE MoveTypes'
  <2>1. CASE StopAll({m}, "exit")
    BY <1>5, <2>1, StopAllTypes DEF Registers, MoveTypes, HostInv, Types
  <2>2. CASE To(m, "running") /\ UNCHANGED stopper
    BY <1>5, <2>2, ToMoves DEF Registers, PcType
  <2> QED  BY <1>5, <2>1, <2>2 DEF Registers
<1>6. ASSUME NEW m \in Matches, PlayerActs(m) \/ Finishes(m) \/ Renew(m) PROVE MoveTypes'
  BY <1>6, StillMoves DEF PlayerActs, Finishes, Renew
<1>7. ASSUME NEW m \in Matches, Exits(m) PROVE MoveTypes'
  <2>1. proc' \in [Matches -> {"none", "alive", "dying", "dead"}]
    BY <1>7 DEF Exits, HostInv, Types
  <2>2. /\ pc' \in [Matches -> PcType]
        /\ stopper' \in [Matches -> {"none", "exit", "sweep", "request", "shutdown"}]
    <3>1. CASE StopAll({m}, "exit")
      BY <3>1, StopAllTypes
    <3>2. CASE UNCHANGED <<pc, stopper>>
      BY <3>2 DEF HostInv, Types, PcType
    <3> QED  BY <1>7, <3>1, <3>2 DEF Exits
  <2> QED  BY <2>1, <2>2 DEF MoveTypes
<1>8. ASSUME NEW m \in Matches, RequestStop(m) PROVE MoveTypes'
  BY <1>8, StopNowMoves DEF RequestStop
<1>9. ASSUME NEW m \in Matches, StopStep(m) PROVE MoveTypes'
  <2>1. PICK where \in Stopping \cup Ended : To(m, where)
    BY <1>9 DEF StopStep, Settles, SettlementFails, Replays, ReplayFails, Unregisters,
                UnregisterFails, AfterSettling, Stopping, Ended
  <2>2. UNCHANGED <<proc, stopper>>
    BY <1>9 DEF StopStep, Settles, SettlementFails, Replays, ReplayFails, Unregisters,
                UnregisterFails, FinalUnchanged
  <2> QED  BY <2>1, <2>2, ToMoves DEF PcType
<1>10. ASSUME NEW s \in Sweeps, StartSweep(s) \/ SweepAborts(s) PROVE MoveTypes'
  BY <1>10, StillMoves DEF StartSweep, SweepAborts
<1>11. ASSUME NEW s \in Sweeps, NEW kind, FlushStarts(s, kind) \/ FlushPosts(s, kind)
       PROVE  MoveTypes'
  BY <1>11, StillMoves DEF FlushStarts, FlushPosts, FlushUnchanged
<1>12. ASSUME NEW s \in Sweeps, SweepRenews(s) \/ SweepGoesOn(s) PROVE MoveTypes'
  <2>1. PICK todo, renewed : StopNext(s, todo, renewed)
    BY <1>12 DEF SweepRenews, SweepGoesOn
  <2> QED  BY <2>1, StopNextStops, StillMoves, StopNowMoves
<1>13. CASE Shutdown
  BY <1>13, StopNowMoves DEF Shutdown
<1>14. CASE CloseServer \/ ExitHost \/ Tick
  BY <1>14, StillMoves DEF CloseServer, ExitHost, Tick
<1> QED  BY <1>1, <1>2, <1>3, <1>4, <1>5, <1>6, <1>7, <1>8, <1>9, <1>10, <1>11, <1>12,
            <1>13, <1>14 DEF HostNext, StartStep, SweepStep

Others == <<port, result, posted, inUse, cursor, host, registered, stored>>

LEMMA StillOthers ==
  ASSUME HostInv, UNCHANGED Others
  PROVE  OtherTypes'
BY DEF Others, OtherTypes, HostInv, Types

LEMMA FreeOthers ==
  ASSUME HostInv, NEW ms, Release(ms), host' \in {host, "closing"},
         registered' \in SUBSET Matches,
         UNCHANGED <<result, posted, stored>>
  PROVE  OtherTypes'
BY DEF Release, OtherTypes, HostInv, Types

LEMMA PostOthers ==
  ASSUME HostInv, NEW m \in Matches, Post(m)
  PROVE  OtherTypes'
<1>1. PICK p \in NextPort :
        /\ port' = [port EXCEPT ![m] = p]
        /\ inUse' = inUse \cup {p}
        /\ cursor' = After(p)
  BY DEF Post
<1>2. p \in Ports
  BY DEF NextPort
<1>3. After(p) \in Ports
  BY <1>2, PortRange DEF After, Ports
<1>4. UNCHANGED <<result, posted, host, registered, stored>>
  BY DEF Post, control
<1> QED  BY <1>1, <1>2, <1>3, <1>4 DEF OtherTypes, HostInv, Types

LEMMA StartOthers ==
  ASSUME HostInv, NEW m \in Matches, StartStep(m)
  PROVE  OtherTypes'
<1>1. CASE EnvelopeFetched(m) \/ Listens(m)
  BY <1>1, StillOthers DEF EnvelopeFetched, Listens, Others, ports, control
<1>2. CASE EnvelopeFails(m) \/ ListenFails(m) \/ RegisterFails(m)
  <2>1. registered' \in SUBSET Matches
    BY <1>2 DEF EnvelopeFails, ListenFails, RegisterFails, HostInv, Types
  <2> QED  BY <1>2, <2>1, FreeOthers
           DEF EnvelopeFails, ListenFails, RegisterFails, StartFails
<1>3. CASE Registers(m)
  <2>1. registered' \in SUBSET Matches
    BY <1>3 DEF Registers, HostInv, Types
  <2>2. UNCHANGED <<result, posted, stored, host>>
    BY <1>3 DEF Registers
  <2>3. CASE StopAll({m}, "exit")
    BY <2>1, <2>2, <2>3, FreeOthers DEF StopAll
  <2>4. CASE UNCHANGED ports
    BY <2>1, <2>2, <2>4 DEF ports, OtherTypes, HostInv, Types
  <2> QED  BY <1>3, <2>3, <2>4 DEF Registers
<1> QED  BY <1>1, <1>2, <1>3 DEF StartStep

\* What a call of the stop or of the timer may add to the books.
LEMMA PostedOthers ==
  ASSUME HostInv, NEW m \in Matches, NEW kind \in {"settlement", "replay"},
         posted' \in {posted, [posted EXCEPT ![m] = @ \cup {kind}]},
         stored' \subseteq stored \cup {<<kind, m>>},
         registered' \subseteq registered,
         UNCHANGED <<port, result, inUse, cursor, host>>
  PROVE  OtherTypes'
<1>1. posted' \in [Matches -> SUBSET {"settlement", "replay"}]
  BY DEF HostInv, Types
<1>2. stored' \subseteq {"settlement", "replay"} \X Matches
  BY DEF HostInv, Types
<1> QED  BY <1>1, <1>2 DEF OtherTypes, HostInv, Types

LEMMA StopOthers ==
  ASSUME HostInv, NEW m \in Matches, StopStep(m)
  PROVE  OtherTypes'
<1>1. UNCHANGED <<port, result, inUse, cursor, host>>
  BY DEF StopStep, Settles, SettlementFails, Replays, ReplayFails, Unregisters,
         UnregisterFails, FinalUnchanged, ports
<1>2. PICK kind \in {"settlement", "replay"} :
        /\ posted' \in {posted, [posted EXCEPT ![m] = @ \cup {kind}]}
        /\ stored' \subseteq stored \cup {<<kind, m>>}
        /\ registered' \subseteq registered
  BY DEF StopStep, Settles, SettlementFails, Replays, ReplayFails, Unregisters,
         UnregisterFails
<1> QED  BY <1>1, <1>2, PostedOthers

LEMMA FlushOthers ==
  ASSUME HostInv, NEW s \in Sweeps, NEW kind \in {"settlement", "replay"},
         FlushPosts(s, kind)
  PROVE  OtherTypes'
<1>1. entries[sweep[s].at] \in Matches
  BY InHand DEF FlushPosts
<1>2. PICK m \in Matches : m = entries[sweep[s].at]
  BY <1>1
<1>3. /\ posted' \in {posted, [posted EXCEPT ![m] = @ \cup {kind}]}
      /\ stored' \subseteq stored \cup {<<kind, m>>}
  BY <1>2 DEF FlushPosts
<1>4. UNCHANGED <<port, result, inUse, cursor, host, registered>>
  BY DEF FlushPosts, FlushUnchanged, ports
<1> QED  BY <1>3, <1>4, PostedOthers

LEMMA OthersKept ==
  ASSUME HostInv, [HostNext]_vars
  PROVE  OtherTypes'
<1>1. CASE UNCHANGED vars
  BY <1>1, StillOthers DEF vars, Others, ports, control
<1>2. ASSUME NEW m \in Matches, Post(m) PROVE OtherTypes'
  BY <1>2, PostOthers
<1>3. ASSUME NEW m \in Matches, StartStep(m) PROVE OtherTypes'
  BY <1>3, StartOthers
<1>4. ASSUME NEW m \in Matches, PlayerActs(m) \/ Renew(m) PROVE OtherTypes'
  BY <1>4, StillOthers DEF PlayerActs, Renew, Others, ports, control
<1>5. ASSUME NEW m \in Matches, Finishes(m) PROVE OtherTypes'
  BY <1>5 DEF Finishes, ports, control, OtherTypes, HostInv, Types
<1>6. ASSUME NEW m \in Matches, Exits(m) PROVE OtherTypes'
  <2>1. CASE StopAll({m}, "exit")
    BY <1>6, <2>1, FreeOthers DEF Exits, StopAll, control, HostInv, Types
  <2>2. CASE UNCHANGED ports
    BY <1>6, <2>2, StillOthers DEF Exits, Others, ports, control
  <2> QED  BY <1>6, <2>1, <2>2 DEF Exits
<1>7. ASSUME NEW m \in Matches, RequestStop(m) PROVE OtherTypes'
  BY <1>7, FreeOthers DEF RequestStop, StopNow, StopAll, control, HostInv, Types
<1>8. ASSUME NEW m \in Matches, StopStep(m) PROVE OtherTypes'
  BY <1>8, StopOthers
<1>9. ASSUME NEW s \in Sweeps, StartSweep(s) \/ SweepAborts(s) PROVE OtherTypes'
  BY <1>9, StillOthers DEF StartSweep, SweepAborts, Others, ports, control
<1>10. ASSUME NEW s \in Sweeps, NEW kind, FlushStarts(s, kind) PROVE OtherTypes'
  BY <1>10, StillOthers DEF FlushStarts, FlushUnchanged, Others, ports
<1>11. ASSUME NEW s \in Sweeps, NEW kind \in {"settlement", "replay"}, FlushPosts(s, kind)
       PROVE  OtherTypes'
  BY <1>11, FlushOthers
<1>12. ASSUME NEW s \in Sweeps, SweepRenews(s) \/ SweepGoesOn(s) PROVE OtherTypes'
  <2>1. PICK todo, renewed : StopNext(s, todo, renewed)
    BY <1>12 DEF SweepRenews, SweepGoesOn
  <2>2. UNCHANGED <<result, posted, host, control>>
    BY <1>12 DEF SweepRenews, SweepGoesOn
  <2>3. CASE UNCHANGED ports
    BY <2>2, <2>3, StillOthers DEF Others, ports, control
  <2>4. CASE \E ms : Release(ms)
    BY <2>2, <2>4, FreeOthers DEF control, HostInv, Types
  <2> QED  BY <2>1, <2>3, <2>4, StopNextStops DEF StopNow, StopAll
<1>13. CASE Shutdown
  BY <1>13, FreeOthers DEF Shutdown, StopNow, StopAll, control, HostInv, Types
<1>14. CASE CloseServer \/ ExitHost \/ Tick
  BY <1>14 DEF CloseServer, ExitHost, Tick, ports, control, OtherTypes, HostInv, Types
<1> QED  BY <1>1, <1>2, <1>3, <1>4, <1>5, <1>6, <1>7, <1>8, <1>9, <1>10, <1>11, <1>12,
            <1>13, <1>14 DEF HostNext, SweepStep

-----------------------------------------------------------------------------
(* The invariant and what follows from it.                                 *)

LEMMA InitInv ==
  ASSUME HostInit
  PROVE  HostInv
<1>1. Types
  BY PortRange DEF HostInit, Types, Ports, control
<1>2. PortAccounting
  <2>1. Holding = {}
    BY DEF HostInit, Holding, Starting
  <2>2. inUse = {}
    BY DEF HostInit
  <2> QED  BY <2>1, <2>2, FS_EmptySet, MaxMatchesType DEF PortAccounting
<1>3. SettledBeforeUnregistered
  BY DEF HostInit, SettledBeforeUnregistered
<1>4. Runs
  <2>1. PICK r : r = [pc |-> "idle", at |-> 0, todo |-> {}]
    OBVIOUS
  <2>2. r \in SweepRun /\ r.at = 0 /\ r.todo = {}
    BY <2>1 DEF SweepRun
  <2>3. sweep = [s \in Sweeps |-> r] /\ entries = << >>
    BY <2>1 DEF HostInit
  <2> QED  BY <2>2, <2>3 DEF Runs
<1>5. Leases
  BY MaxAgeType DEF HostInit, Leases
<1> QED  BY <1>1, <1>2, <1>3, <1>4, <1>5 DEF HostInv

\* No step of the host leaves the invariant, whatever fails.
THEOREM HostInvariant == HostSpec => []HostInv
<1>1. HostInv /\ [HostNext]_vars => HostInv'
  <2> SUFFICES ASSUME HostInv, [HostNext]_vars PROVE HostInv'
    OBVIOUS
  <2>1. Types'
    BY MovesKept, OthersKept DEF Types, OtherTypes, MoveTypes, PcType
  <2>2. PortAccounting'
    BY BooksKept
  <2>3. SettledBeforeUnregistered'
    BY ResultsKept, HonestSettled
  <2>4. Runs'
    BY RunsKept DEF RunsStep
  <2>5. Leases'
    BY LeasesKept
  <2> QED  BY <2>1, <2>2, <2>3, <2>4, <2>5 DEF HostInv
<1> QED  BY InitInv, <1>1, PTL DEF HostSpec

\* Every variable of the registry, the allocator, the timer and the control
\* plane keeps its type in every run of the host.
THEOREM HostTypes == HostSpec => []HostTypeOK
<1>1. HostInv => HostTypeOK
  BY DEF HostInv, Types, Runs, Leases, SweepRun, HostTypeOK
<1> QED  BY HostInvariant, <1>1, PTL

\* Whoever stops a match first (DELETE, the timer, the exited callback, the
\* shutdown) is the only one to free its port: the allocator's books agree
\* with the matches, and never more ports are taken than matches may run.
THEOREM BooksAgree == HostSpec => []PortAccounting
<1>1. HostInv => PortAccounting
  BY DEF HostInv
<1> QED  BY HostInvariant, <1>1, PTL

\* #finalize and the flushes of the timer never lose a result on the way out:
\* no match is unregistered with a settlement that is not recorded.
THEOREM SettledFirst == HostSpec => []SettledBeforeUnregistered
<1>1. HostInv => SettledBeforeUnregistered
  BY DEF HostInv
<1> QED  BY HostInvariant, <1>1, PTL

\* reclaimExpired condemns a match only after it has renewed the leases of
\* those whose players acted, however many runs of the timer overlap.
THEOREM OnlyIdle == HostSpec => OnlyIdleMatchesAreCondemned
<1>1. HostInv /\ [HostNext]_vars
        => [\A s \in Sweeps :
              sweep[s].at = 0 => \A m \in sweep'[s].todo : Expired(quiet[m])]_vars
  <2> SUFFICES ASSUME HostInv, [HostNext]_vars, NEW s \in Sweeps, sweep[s].at = 0,
                      NEW m \in sweep'[s].todo
               PROVE  Expired(quiet[m])
    OBVIOUS
  <2>1. m \in Condemned
    <3>1. sweep[s].todo = {}
      BY DEF HostInv, Runs
    <3>2. RunsStep
      BY RunsKept
    <3> QED  BY <3>1, <3>2 DEF RunsStep
  <2>2. m \in Matches /\ ~unseen[m] /\ Expired(age[m])
    BY <2>1 DEF Condemned, Renewed, Running
  <2>3. age[m] <= quiet[m] /\ age[m] \in Nat /\ quiet[m] \in Nat
    BY <2>2, MaxAgeType DEF HostInv, Leases
  <2> QED  BY <2>2, <2>3, LeaseTypes DEF Expired
<1> QED  BY HostInvariant, <1>1, PTL DEF HostSpec, OnlyIdleMatchesAreCondemned

-----------------------------------------------------------------------------
(* Sessions of matches that are gone.                                      *)

\* Only a match that runs or is being stopped has a session.
NoStray == \A m \in Matches : m \in registered => pc[m] \in {"running"} \cup Stopping

CallsSucceed == {"register", "settlement", "unregister"} \cap Faults = {}

LEMMA StrayStill ==
  ASSUME NoStray, registered' = registered,
         \A m \in Matches : pc'[m] = pc[m] \/ m \notin registered
                            \/ pc'[m] \in {"running"} \cup Stopping
  PROVE  NoStray'
BY DEF NoStray

LEMMA StrayStop ==
  ASSUME NoStray, NEW ms, NEW who, StopAll(ms, who), registered' = registered
  PROVE  NoStray'
<1>1. \A m \in Matches : pc'[m] = pc[m] \/ pc'[m] \in Stopping
  BY DEF StopAll, FirstCall, AfterSettling, Stopping
<1> QED  BY <1>1, StrayStill

\* A step of a match without a session.
LEMMA StrayMove ==
  ASSUME HostInv, NoStray, NEW m \in Matches, NEW where, To(m, where),
         pc[m] \notin {"running"} \cup Stopping, registered' = registered
  PROVE  NoStray'
BY DEF To, NoStray, HostInv, Types

LEMMA StrayKept ==
  ASSUME CallsSucceed, HostInv, NoStray, [HostNext]_vars
  PROVE  NoStray'
<1>1. CASE UNCHANGED vars
  BY <1>1, StrayStill DEF vars, control
<1>2. ASSUME NEW m \in Matches, Post(m) PROVE NoStray'
  <2>1. PICK where : To(m, where)
    BY <1>2 DEF Post
  <2> QED  BY <1>2, <2>1, StrayMove DEF Post, control, Stopping
<1>3. ASSUME NEW m \in Matches, EnvelopeFetched(m) \/ Listens(m) \/ EnvelopeFails(m)
                                \/ ListenFails(m)
      PROVE  NoStray'
  <2>1. PICK where : To(m, where)
    BY <1>3 DEF EnvelopeFetched, Listens, EnvelopeFails, ListenFails, StartFails
  <2>2. pc[m] \notin {"running"} \cup Stopping
    BY <1>3 DEF EnvelopeFetched, Listens, EnvelopeFails, ListenFails, Stopping
  <2>3. registered' = registered
    BY <1>3 DEF EnvelopeFetched, Listens, EnvelopeFails, ListenFails, control
  <2> QED  BY <2>1, <2>2, <2>3, StrayMove
<1>4. ASSUME NEW m \in Matches, Registers(m) PROVE NoStray'
  <2>1. registered' = registered \cup {m}
    BY <1>4 DEF Registers
  <2>2. pc'[m] \in {"running"} \cup Stopping
    BY <1>4 DEF Registers, StopAll, FirstCall, AfterSettling, To, Stopping, HostInv, Types
  <2>3. \A k \in Matches : k # m => pc'[k] = pc[k]
    BY <1>4 DEF Registers, StopAll, To, HostInv, Types
  <2> QED  BY <2>1, <2>2, <2>3 DEF NoStray
<1>5. ASSUME NEW m \in Matches, PlayerActs(m) \/ Finishes(m) \/ Renew(m) PROVE NoStray'
  BY <1>5, StrayStill DEF PlayerActs, Finishes, Renew, control
<1>6. ASSUME NEW m \in Matches, Exits(m) \/ RequestStop(m) PROVE NoStray'
  BY <1>6, StrayStill, StrayStop DEF Exits, RequestStop, StopNow, control
<1>7. ASSUME NEW m \in Matches, StopStep(m) PROVE NoStray'
  <2>1. CASE Settles(m) \/ Replays(m) \/ ReplayFails(m)
    <3>1. registered' = registered
      BY <2>1 DEF Settles, Replays, ReplayFails
    <3>2. \A k \in Matches : pc'[k] = pc[k] \/ pc'[k] \in Stopping
      BY <2>1 DEF Settles, Replays, ReplayFails, AfterSettling, To, Stopping, HostInv, Types
    <3> QED  BY <3>1, <3>2, StrayStill
  <2>2. CASE SettlementFails(m)
    <3>1. m \notin registered /\ registered' = registered
      BY <2>2 DEF SettlementFails, CallsSucceed
    <3>2. \A k \in Matches : k # m => pc'[k] = pc[k]
      BY <2>2 DEF SettlementFails, To, HostInv, Types
    <3> QED  BY <3>1, <3>2, StrayStill
  <2>3. CASE Unregisters(m)
    <3>1. registered' = registered \ {m} /\ \A k \in Matches : k # m => pc'[k] = pc[k]
      BY <2>3 DEF Unregisters, To, HostInv, Types
    <3> QED  BY <3>1 DEF NoStray
  <2>4. ~UnregisterFails(m)
    BY DEF UnregisterFails, CallsSucceed
  <2> QED  BY <1>7, <2>1, <2>2, <2>3, <2>4 DEF StopStep
<1>8. ASSUME NEW s \in Sweeps, StartSweep(s) \/ SweepAborts(s) PROVE NoStray'
  BY <1>8, StrayStill DEF StartSweep, SweepAborts, control
<1>9. ASSUME NEW s \in Sweeps, NEW kind, FlushStarts(s, kind) \/ FlushPosts(s, kind)
      PROVE  NoStray'
  BY <1>9, StrayStill DEF FlushStarts, FlushPosts, FlushUnchanged
<1>10. ASSUME NEW s \in Sweeps, SweepRenews(s) \/ SweepGoesOn(s) PROVE NoStray'
  <2>1. PICK todo, renewed : StopNext(s, todo, renewed)
    BY <1>10 DEF SweepRenews, SweepGoesOn
  <2>2. registered' = registered
    BY <1>10 DEF SweepRenews, SweepGoesOn, control
  <2> QED  BY <2>1, <2>2, StopNextStops, StrayStill, StrayStop DEF StopNow
<1>11. CASE Shutdown
  BY <1>11, StrayStop DEF Shutdown, StopNow, control
<1>12. CASE CloseServer \/ ExitHost \/ Tick
  BY <1>12, StrayStill DEF CloseServer, ExitHost, Tick, control
<1>13. \A m \in Matches : ~RegisterFails(m)
  BY DEF RegisterFails, CallsSucceed
<1> QED  BY <1>1, <1>2, <1>3, <1>4, <1>5, <1>6, <1>7, <1>8, <1>9, <1>10, <1>11, <1>12,
            <1>13 DEF HostNext, StartStep, SweepStep

\* While the calls to the control plane succeed, a match that failed to start
\* or was taken down has no session left there, however its exit, its stops
\* and the timer interleave and whatever else fails.
THEOREM NothingStays ==
  ASSUME CallsSucceed
  PROVE  HostSpec => []EndedMeansUnregistered
<1>1. HostInit => NoStray
  BY DEF HostInit, NoStray
<1>2. NoStray => EndedMeansUnregistered
  BY DEF NoStray, EndedMeansUnregistered, Ended, Stopping
<1>3. HostInv /\ NoStray /\ [HostNext]_vars => NoStray'
  BY StrayKept
<1> QED  BY <1>1, <1>2, <1>3, HostInvariant, PTL DEF HostSpec
=============================================================================
