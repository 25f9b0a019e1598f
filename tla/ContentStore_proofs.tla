-------------------------- MODULE ContentStore_proofs --------------------------
(***************************************************************************)
(* Theorems about published content, for any number of contents, versions, *)
(* patches, plays and ratings.  The invariant has a part for each table:   *)
(* what its rows are and how they refer to the others.                     *)
(***************************************************************************)
EXTENDS ContentStore, FiniteSetTheorems, WellFoundedInduction, TLAPS

VersionRow == [id : Ids, version : 1 .. (MaxVersions + 1), content : Contents,
               signature : [id : Ids, version : Nat, content : Contents]]

PatchRow == [id : Ids, base : 1 .. MaxVersions, seq : 1 .. MaxPatches,
             level : {"p0", "p1"}, ops : SUBSET PatchOps]

ListingRow == [version : Nat, content : Contents,
               tags : SUBSET {p[1] : p \in TagBags},
               gameplay : {"traprush", "bastion"},
               playCount : Nat, ratingSum : Nat, ratingCount : Nat, verified : BOOLEAN]

\* The versions of a content are numbered without a gap and signed.
VersionsOK ==
    /\ versions \subseteq VersionRow
    /\ \A r, s \in versions : r.id = s.id /\ r.version = s.version => r = s
    /\ \A r \in versions : \A v \in 1 .. r.version :
         \E s \in versions : s.id = r.id /\ s.version = v
    /\ \A r \in versions : r.signature = signContentMessage(r.id, r.version, r.content)

\* A content's latest version exists; one that has an owner has a latest one.
LatestOK ==
    /\ latest \in [Ids -> Nat]
    /\ \A id \in Ids : latest[id] # 0 =>
         \E r \in versions : r.id = id /\ r.version = latest[id]

OwnersOK ==
    /\ \A o \in owners : o.id \in Ids \ ReservedIds /\ latest[o.id] # 0
    /\ \A o, p \in owners : o.id = p.id => o = p

\* The patches of a version are numbered without a gap; the version exists.
PatchesOK ==
    /\ patches \subseteq PatchRow
    /\ \A p, q \in patches : p.id = q.id /\ p.base = q.base /\ p.seq = q.seq => p = q
    /\ \A p \in patches : \A n \in 1 .. p.seq :
         \E q \in patches : q.id = p.id /\ q.base = p.base /\ q.seq = n
    /\ \A p \in patches : \E r \in versions : r.id = p.id /\ r.version = p.base

PlazaOK ==
    /\ plaza \in [{id \in Ids : latest[id] # 0} -> ListingRow]
    /\ \A id \in Ids : latest[id] # 0 =>
         \E r \in versions :
           /\ r.id = id /\ r.version = latest[id]
           /\ plaza[id].version = r.version
           /\ plaza[id].content = r.content
           /\ plaza[id].tags = plazaTagsFromBundle(r.content)
           /\ plaza[id].gameplay = plazaGameplayFromBundle(r.content)

\* A content that is not listed has no plays and no ratings.
CountsOK ==
    /\ IsFiniteSet(plays) /\ IsFiniteSet(ratings)
    /\ \A p \in plays : p.id \in DOMAIN plaza
    /\ \A r \in ratings : r.id \in DOMAIN plaza
    /\ CountsMatchRows

ContentInv ==
    /\ VersionsOK /\ LatestOK /\ OwnersOK /\ PatchesOK
    /\ PlazaOK /\ CountsOK /\ PatchesTouchOnlyLiveFields

-----------------------------------------------------------------------------
(* The next number of a table without gaps.                                *)

LEMMA LargestExists ==
  ASSUME NEW N \in Nat, NEW S, S \subseteq 0 .. N, S # {}
  PROVE  \E n \in S : \A m \in S : m <= n
<1> DEFINE T == {N - n : n \in S}
<1>1. T \subseteq Nat /\ T # {}
  <2>1. \A n \in S : N - n \in Nat
    OBVIOUS
  <2>2. T # {}
    OBVIOUS
  <2> QED  BY <2>1, <2>2
<1> HIDE DEF T
<1>2. PICK x \in T : \A y \in T : ~(<<y, x>> \in OpToRel(<, Nat))
  BY <1>1, NatLessThanWellFounded, WFMin
<1>3. \A y \in T : ~(y < x)
  BY <1>1, <1>2 DEF OpToRel
<1> USE DEF T
<1>4. PICK n \in S : x = N - n
  OBVIOUS
<1>5. ASSUME NEW m \in S PROVE m <= n
  <2>1. N - m \in T
    OBVIOUS
  <2>2. ~(N - m < N - n)
    BY <1>3, <1>4, <2>1
  <2>3. m \in Nat /\ n \in Nat
    OBVIOUS
  <2> QED  BY <2>2, <2>3
<1> QED  BY <1>5

LEMMA MaxOfIs ==
  ASSUME NEW N \in Nat, NEW S, S \subseteq 0 .. N
  PROVE  /\ S = {} => MaxOf(S) = 0
         /\ S # {} => MaxOf(S) \in S
<1>1. CASE S = {}
  BY <1>1 DEF MaxOf
<1>2. CASE S # {}
  <2>1. \E n \in S : \A m \in S : m <= n
    BY <1>2, LargestExists
  <2> QED  BY <1>2, <2>1 DEF MaxOf
<1> QED  BY <1>1, <1>2

\* One more than the largest number of a table is new to it, and every smaller
\* one is at most the largest.
LEMMA NextNumber ==
  ASSUME NEW N \in Nat, NEW S \in SUBSET (0 .. N)
  PROVE  /\ MaxOf(S) + 1 \notin S
         /\ \A n \in 1 .. (MaxOf(S) + 1) :
              n # MaxOf(S) + 1 => \E m \in S : n \in 1 .. m
<1> DEFINE next == MaxOf(S) + 1
<1>1. CASE S = {}
  <2>1. next = 1
    BY <1>1, MaxOfIs
  <2> QED  BY <1>1, <2>1
<1>2. CASE S # {}
  <2>1. PICK m \in S : \A k \in S : k <= m
    BY <1>2, LargestExists
  <2>2. PICK x : x = MaxOf(S)
    OBVIOUS
  <2>3. x \in S /\ \A k \in S : k <= x
    BY <2>1, <2>2 DEF MaxOf
  <2>4. x \in Nat /\ next = x + 1
    BY <2>2, <2>3
  <2>5. next \notin S
    BY <2>3, <2>4
  <2>6. \A n \in 1 .. next : n # next => n \in 1 .. x
    BY <2>4
  <2> QED  BY <2>3, <2>5, <2>6
<1> QED  BY <1>1, <1>2

\* publishContentVersion: what the transaction finds and does.
LEMMA PublishEffect ==
  ASSUME ContentInv, NEW id \in Ids, NEW version \in 1 .. (MaxVersions + 1),
         NEW content \in Contents, NEW signature,
         signature = signContentMessage(id, version, content),
         publish(id, version, content, signature)
  PROVE  \E r \in VersionRow :
           /\ r.id = id /\ r.version = version /\ r.content = content
           /\ r.signature = signature
           /\ versions' = versions \cup {r}
           /\ \A s \in versions : s.id = id => s.version # version
           /\ \A v \in 1 .. version : v # version =>
                \E s \in versions : s.id = id /\ s.version = v
<1>1. PICK r : r = [id |-> id, version |-> version, content |-> content,
                    signature |-> signature]
  OBVIOUS
<1>2. /\ r \in VersionRow /\ r.id = id /\ r.version = version /\ r.content = content
      /\ r.signature = signature
  BY <1>1 DEF VersionRow, signContentMessage
<1>3. versions' = versions \cup {r}
  BY <1>1 DEF publish, InsertVersion
<1>4. \A s \in versions : s.id = id => s.version # version
  BY DEF publish, getVersion
<1>5. ASSUME NEW v \in 1 .. version, v # version
      PROVE  \E s \in versions : s.id = id /\ s.version = v
  <2>1. version = MaxOf(VersionsOf(id)) + 1
    BY DEF publish, NextVersion
  <2>2. VersionsOf(id) \subseteq 0 .. (MaxVersions + 1) /\ MaxVersions + 1 \in Nat
    BY ContentAssumption DEF VersionsOf, ContentInv, VersionsOK, VersionRow
  <2>3. /\ VersionsOf(id) = {} => MaxOf(VersionsOf(id)) = 0
        /\ VersionsOf(id) # {} => MaxOf(VersionsOf(id)) \in VersionsOf(id)
    BY <2>2, MaxOfIs
  <2>4. PICK n : n = MaxOf(VersionsOf(id))
    OBVIOUS
  <2>5. version \in Nat /\ v \in Nat /\ 1 <= v /\ v < version
    BY <1>5, ContentAssumption
  <2>6. n \in VersionsOf(id) /\ v \in 1 .. n
    BY <2>1, <2>2, <2>3, <2>4, <2>5
  <2>7. PICK s \in versions : s.id = id /\ s.version = n
    BY <2>6 DEF VersionsOf
  <2> QED  BY <2>6, <2>7 DEF ContentInv, VersionsOK
<1> QED  BY <1>2, <1>3, <1>4, <1>5

-----------------------------------------------------------------------------
(* Listings.                                                               *)

\* What a listing shows of version and content.
Shows(row, version, content) ==
    /\ row \in ListingRow
    /\ row.version = version
    /\ row.content = content
    /\ row.tags = plazaTagsFromBundle(content)
    /\ row.gameplay = plazaGameplayFromBundle(content)

LEMMA BundleTypes ==
  ASSUME NEW content
  PROVE  /\ plazaTagsFromBundle(content) \in SUBSET {p[1] : p \in TagBags}
         /\ plazaGameplayFromBundle(content) \in {"traprush", "bastion"}
BY DEF plazaTagsFromBundle, plazaGameplayFromBundle

LEMMA ListingShows ==
  ASSUME NEW version \in Nat, NEW content \in Contents
  PROVE  /\ Shows(Listing(version, content), version, content)
         /\ Listing(version, content).playCount = 0
         /\ Listing(version, content).ratingSum = 0
         /\ Listing(version, content).ratingCount = 0
         /\ Listing(version, content).verified = FALSE
<1>1. PICK tags : tags = plazaTagsFromBundle(content)
  OBVIOUS
<1>2. PICK play : play = plazaGameplayFromBundle(content)
  OBVIOUS
<1>3. tags \in SUBSET {p[1] : p \in TagBags} /\ play \in {"traprush", "bastion"}
  BY <1>1, <1>2, BundleTypes
<1> HIDE <1>1, <1>2
<1>4. PICK row : row = [version |-> version, content |-> content, tags |-> tags,
                        gameplay |-> play, playCount |-> 0, ratingSum |-> 0,
                        ratingCount |-> 0, verified |-> FALSE]
  OBVIOUS
<1>5. /\ row \in ListingRow /\ row.version = version /\ row.content = content
      /\ row.tags = tags /\ row.gameplay = play
      /\ row.playCount = 0 /\ row.ratingSum = 0 /\ row.ratingCount = 0
      /\ row.verified = FALSE
  BY <1>3, <1>4 DEF ListingRow
<1>6. row = Listing(version, content)
  BY <1>1, <1>2, <1>4 DEF Listing
<1> QED  BY <1>1, <1>2, <1>5, <1>6 DEF Shows

SameCounts(row, was) ==
    /\ row.playCount = was.playCount
    /\ row.ratingSum = was.ratingSum
    /\ row.ratingCount = was.ratingCount
    /\ row.verified = was.verified

LEMMA RelistedShows ==
  ASSUME NEW was \in ListingRow, NEW version \in Nat, NEW content \in Contents
  PROVE  /\ Shows(Relisted(was, version, content), version, content)
         /\ SameCounts(Relisted(was, version, content), was)
<1>1. PICK tags : tags = plazaTagsFromBundle(content)
  OBVIOUS
<1>2. PICK play : play = plazaGameplayFromBundle(content)
  OBVIOUS
<1>3. tags \in SUBSET {p[1] : p \in TagBags} /\ play \in {"traprush", "bastion"}
  BY <1>1, <1>2, BundleTypes
<1>4. PICK row : row = [was EXCEPT !.version = version, !.content = content,
                                   !.tags = tags, !.gameplay = play]
  OBVIOUS
<1>5. /\ row \in ListingRow /\ row.version = version /\ row.content = content
      /\ row.tags = tags /\ row.gameplay = play
      /\ row.playCount = was.playCount /\ row.ratingSum = was.ratingSum
      /\ row.ratingCount = was.ratingCount /\ row.verified = was.verified
  BY <1>3, <1>4 DEF ListingRow
<1>6. row = Relisted(was, version, content)
  BY <1>1, <1>2, <1>4 DEF Relisted
<1> QED  BY <1>1, <1>2, <1>5, <1>6 DEF Shows, SameCounts

\* The listing of id is rewritten for the version that is now its latest, and
\* its counts are kept; a first one starts at nothing.
PlazaMoves(id, version, content) ==
    /\ DOMAIN plaza' = DOMAIN plaza \cup {id}
    /\ plaza' = [i \in DOMAIN plaza' |-> plaza'[i]]
    /\ \A i \in DOMAIN plaza : i # id => plaza'[i] = plaza[i]
    /\ Shows(plaza'[id], version, content)
    /\ IF id \in DOMAIN plaza THEN SameCounts(plaza'[id], plaza[id])
       ELSE /\ plaza'[id].playCount = 0 /\ plaza'[id].ratingSum = 0
            /\ plaza'[id].ratingCount = 0 /\ plaza'[id].verified = FALSE

LEMMA UpsertMoves ==
  ASSUME ContentInv, NEW id \in Ids, NEW version \in Nat, NEW content \in Contents,
         upsertPlazaListing(id, version, content)
  PROVE  PlazaMoves(id, version, content)
<1>1. plaza' = [i \in DOMAIN plaza \cup {id} |->
                  IF i # id THEN plaza[i]
                  ELSE IF id \in DOMAIN plaza THEN Relisted(plaza[id], version, content)
                  ELSE Listing(version, content)]
  BY DEF upsertPlazaListing, Listed
<1>2. CASE id \in DOMAIN plaza
  <2>1. plaza[id] \in ListingRow
    BY <1>2 DEF ContentInv, PlazaOK
  <2>2. plaza'[id] = Relisted(plaza[id], version, content)
    BY <1>1, <1>2
  <2> QED  BY <1>1, <1>2, <2>1, <2>2, RelistedShows DEF PlazaMoves
<1>3. CASE id \notin DOMAIN plaza
  <2>1. plaza'[id] = Listing(version, content)
    BY <1>1, <1>3
  <2> QED  BY <1>1, <1>3, <2>1, ListingShows DEF PlazaMoves
<1> QED  BY <1>2, <1>3

LEMMA SyncMoves ==
  ASSUME ContentInv, NEW id \in DOMAIN plaza, NEW version \in Nat, NEW content \in Contents,
         syncPlazaLatest(id, version, content)
  PROVE  PlazaMoves(id, version, content)
<1>1. plaza[id] \in ListingRow
  BY DEF ContentInv, PlazaOK
<1>2. plaza' = [i \in DOMAIN plaza |->
                  IF i = id THEN Relisted(plaza[i], version, content) ELSE plaza[i]]
  BY DEF syncPlazaLatest
<1>3. plaza'[id] = Relisted(plaza[id], version, content)
  BY <1>2
<1> QED  BY <1>1, <1>2, <1>3, RelistedShows DEF PlazaMoves

\* The plaza follows where the latest version goes.
LEMMA PlazaFollows ==
  ASSUME ContentInv, NEW id \in Ids, NEW version \in Nat \ {0}, NEW content,
         PlazaMoves(id, version, content),
         latest' = [latest EXCEPT ![id] = version],
         versions \subseteq versions',
         \E r \in versions' : r.id = id /\ r.version = version /\ r.content = content
  PROVE  PlazaOK'
<1>1. DOMAIN plaza = {i \in Ids : latest[i] # 0}
  BY DEF ContentInv, PlazaOK
<1>2. {i \in Ids : latest'[i] # 0} = DOMAIN plaza \cup {id}
  BY <1>1 DEF ContentInv, LatestOK
<1>3. plaza' \in [{i \in Ids : latest'[i] # 0} -> ListingRow]
  <2>1. \A i \in DOMAIN plaza' : plaza'[i] \in ListingRow
    BY DEF PlazaMoves, Shows, ContentInv, PlazaOK
  <2>2. DOMAIN plaza' = {i \in Ids : latest'[i] # 0}
    BY <1>2 DEF PlazaMoves
  <2>3. plaza' = [i \in DOMAIN plaza' |-> plaza'[i]]
    BY DEF PlazaMoves
  <2> QED  BY <2>1, <2>2, <2>3
<1>4. ASSUME NEW i \in Ids, latest'[i] # 0
      PROVE  \E r \in versions' :
               /\ r.id = i /\ r.version = latest'[i]
               /\ plaza'[i].version = r.version
               /\ plaza'[i].content = r.content
               /\ plaza'[i].tags = plazaTagsFromBundle(r.content)
               /\ plaza'[i].gameplay = plazaGameplayFromBundle(r.content)
  <2>1. CASE i = id
    <3>1. latest'[id] = version
      BY DEF ContentInv, LatestOK
    <3> QED  BY <2>1, <3>1 DEF PlazaMoves, Shows
  <2>2. CASE i # id
    <3>1. latest'[i] = latest[i] /\ i \in DOMAIN plaza
      BY <1>1, <1>4, <2>2 DEF ContentInv, LatestOK
    <3>2. plaza'[i] = plaza[i]
      BY <2>2, <3>1 DEF PlazaMoves
    <3> QED  BY <1>4, <3>1, <3>2 DEF ContentInv, PlazaOK
  <2> QED  BY <2>1, <2>2
<1> QED  BY <1>3, <1>4 DEF PlazaOK

\* The counts are kept with it.
LEMMA CountsStay ==
  ASSUME ContentInv, NEW id, NEW version, NEW content,
         PlazaMoves(id, version, content), UNCHANGED <<plays, ratings>>
  PROVE  CountsOK'
<1>1. IsFiniteSet(plays) /\ IsFiniteSet(ratings)
  BY DEF ContentInv, CountsOK
<1>2. DOMAIN plaza \subseteq DOMAIN plaza'
  BY DEF PlazaMoves
<1>3. ASSUME NEW i \in DOMAIN plaza'
      PROVE  LET row == plaza'[i] IN
               /\ row.playCount = Cardinality({p \in plays : p.id = i})
               /\ row.verified <=> row.playCount > 0
               /\ row.ratingCount = Cardinality({r \in ratings : r.id = i})
               /\ row.ratingSum \in row.ratingCount .. 5 * row.ratingCount
  <2>1. CASE i \in DOMAIN plaza
    <3>1. SameCounts(plaza'[i], plaza[i])
      BY <2>1 DEF PlazaMoves, SameCounts
    <3> QED  BY <2>1, <3>1 DEF SameCounts, ContentInv, CountsOK, CountsMatchRows
  <2>2. CASE i \notin DOMAIN plaza
    <3>1. {p \in plays : p.id = i} = {} /\ {r \in ratings : r.id = i} = {}
      BY <2>2 DEF ContentInv, CountsOK
    <3>2. i = id
      BY <1>3, <2>2 DEF PlazaMoves
    <3>3. /\ plaza'[i].playCount = 0 /\ plaza'[i].ratingSum = 0
          /\ plaza'[i].ratingCount = 0 /\ plaza'[i].verified = FALSE
      BY <2>2, <3>2 DEF PlazaMoves
    <3>4. ~(0 > 0) /\ 0 \in 0 .. 5 * 0
      OBVIOUS
    <3> QED  BY <3>1, <3>3, <3>4, FS_EmptySet, Zenon
  <2> QED  BY <2>1, <2>2
<1>4. CountsMatchRows'
  BY <1>3 DEF CountsMatchRows
<1> QED  BY <1>1, <1>2, <1>4 DEF ContentInv, CountsOK

-----------------------------------------------------------------------------
(* A new version: POST /content and /content/submit.                       *)

OwnerAdded(id) ==
    \/ owners' = owners
    \/ /\ id \notin ReservedIds
       /\ getLatest(id) = {}
       /\ \E o : o.id = id /\ owners' = owners \cup {o}

LEMMA PublishKeeps ==
  ASSUME ContentInv, NEW id \in Ids, NEW version \in 1 .. (MaxVersions + 1),
         NEW content \in Contents, NEW signature,
         signature = signContentMessage(id, version, content),
         publish(id, version, content, signature), OwnerAdded(id)
  PROVE  ContentInv'
<1>1. PICK r \in VersionRow :
        /\ r.id = id /\ r.version = version /\ r.content = content
        /\ r.signature = signature
        /\ versions' = versions \cup {r}
        /\ \A s \in versions : s.id = id => s.version # version
        /\ \A v \in 1 .. version : v # version =>
             \E s \in versions : s.id = id /\ s.version = v
  BY PublishEffect
<1>2. /\ latest' = [latest EXCEPT ![id] = version]
      /\ upsertPlazaListing(id, version, content)
      /\ UNCHANGED <<patches, plays, ratings>>
  BY DEF publish
<1>3. version \in Nat \ {0} /\ version \in Nat
  BY ContentAssumption
<1>4. VersionsOK'
  <2>1. \A s, t \in versions' : s.id = t.id /\ s.version = t.version => s = t
    BY <1>1 DEF ContentInv, VersionsOK
  <2>2. ASSUME NEW t \in versions', NEW v \in 1 .. t.version
        PROVE  \E s \in versions' : s.id = t.id /\ s.version = v
    BY <1>1, <2>2 DEF ContentInv, VersionsOK
  <2>3. \A t \in versions' : t.signature = signContentMessage(t.id, t.version, t.content)
    BY <1>1 DEF ContentInv, VersionsOK
  <2>4. versions' \subseteq VersionRow
    BY <1>1 DEF ContentInv, VersionsOK
  <2> QED  BY <2>1, <2>2, <2>3, <2>4 DEF VersionsOK
<1>5. \A i \in Ids : latest'[i] = IF i = id THEN version ELSE latest[i]
  BY <1>2 DEF ContentInv, LatestOK
<1>6. LatestOK'
  <2>1. latest' \in [Ids -> Nat]
    BY <1>2, <1>3 DEF ContentInv, LatestOK
  <2>2. ASSUME NEW i \in Ids, latest'[i] # 0
        PROVE  \E s \in versions' : s.id = i /\ s.version = latest'[i]
    <3>1. CASE i = id
      BY <1>1, <1>5, <3>1
    <3>2. CASE i # id
      BY <1>1, <1>5, <2>2, <3>2 DEF ContentInv, LatestOK
    <3> QED  BY <3>1, <3>2
  <2> QED  BY <2>1, <2>2 DEF LatestOK
<1>7. OwnersOK'
  <2>1. \A i \in Ids : latest[i] # 0 => latest'[i] # 0
    BY <1>3, <1>5
  <2>2. CASE owners' = owners
    BY <2>1, <2>2 DEF ContentInv, OwnersOK
  <2>3. CASE /\ id \notin ReservedIds
             /\ getLatest(id) = {}
             /\ \E o : o.id = id /\ owners' = owners \cup {o}
    <3>1. PICK o : o.id = id /\ owners' = owners \cup {o}
      BY <2>3
    <3>2. latest[id] = 0
      BY <2>3 DEF getLatest, getVersion, ContentInv, LatestOK
    <3>3. \A p \in owners : p.id # id
      BY <3>2 DEF ContentInv, OwnersOK
    <3>4. latest'[id] # 0
      BY <1>3, <1>5
    <3>5. \A p \in owners' : p.id \in Ids \ ReservedIds /\ latest'[p.id] # 0
      BY <2>1, <2>3, <3>1, <3>4 DEF ContentInv, OwnersOK
    <3>6. \A p, q \in owners' : p.id = q.id => p = q
      BY <3>1, <3>3 DEF ContentInv, OwnersOK
    <3> QED  BY <3>5, <3>6 DEF OwnersOK
  <2> QED  BY <2>2, <2>3 DEF OwnerAdded
<1>8. PatchesOK'
  BY <1>1, <1>2 DEF ContentInv, PatchesOK
<1>9. PlazaMoves(id, version, content)
  BY <1>2, <1>3, UpsertMoves
<1>10. PlazaOK'
  <2>1. versions \subseteq versions'
    BY <1>1
  <2>2. \E s \in versions' : s.id = id /\ s.version = version /\ s.content = content
    BY <1>1
  <2> QED  BY <1>2, <1>3, <1>9, <2>1, <2>2, PlazaFollows
<1>11. CountsOK'
  BY <1>2, <1>9, CountsStay
<1>12. PatchesTouchOnlyLiveFields'
  BY <1>2 DEF ContentInv, PatchesTouchOnlyLiveFields
<1> QED  BY <1>4, <1>6, <1>7, <1>8, <1>10, <1>11, <1>12 DEF ContentInv

\* Moving the latest version back: POST /content/:id/rollback.
LEMMA RollbackKeeps ==
  ASSUME ContentInv, NEW id \in Ids, NEW target \in 1 .. MaxVersions,
         Rollback(id, target)
  PROVE  ContentInv'
<1>1. PICK row \in getVersion(id, target) :
        /\ latest' = [latest EXCEPT ![id] = target]
        /\ syncPlazaLatest(id, target, row.content)
  BY DEF Rollback, rollbackLatest
<1>2. row \in versions /\ row.id = id /\ row.version = target /\ row.content \in Contents
  BY <1>1 DEF getVersion, ContentInv, VersionsOK, VersionRow
<1>3. UNCHANGED <<versions, owners, patches, plays, ratings>>
  BY DEF Rollback
<1>4. target \in Nat \ {0} /\ target \in Nat
  BY ContentAssumption
<1>5. id \in DOMAIN plaza
  BY DEF Rollback, rollbackLatest, ContentInv, PlazaOK
<1>6. PlazaMoves(id, target, row.content)
  BY <1>1, <1>2, <1>4, <1>5, SyncMoves
<1>7. \A i \in Ids : latest'[i] = IF i = id THEN target ELSE latest[i]
  BY <1>1 DEF ContentInv, LatestOK
<1>8. LatestOK'
  <2>1. latest' \in [Ids -> Nat]
    BY <1>1, <1>4 DEF ContentInv, LatestOK
  <2>2. \A i \in Ids : latest'[i] # 0 => \E s \in versions' : s.id = i /\ s.version = latest'[i]
    BY <1>2, <1>3, <1>7 DEF ContentInv, LatestOK
  <2> QED  BY <2>1, <2>2 DEF LatestOK
<1>9. OwnersOK'
  BY <1>3, <1>4, <1>7 DEF ContentInv, OwnersOK
<1>10. PlazaOK'
  <2>1. versions \subseteq versions'
    BY <1>3
  <2>2. \E r \in versions' : r.id = id /\ r.version = target /\ r.content = row.content
    BY <1>2, <1>3
  <2> QED  BY <1>1, <1>4, <1>6, <2>1, <2>2, PlazaFollows
<1>11. CountsOK'
  BY <1>3, <1>6, CountsStay
<1>12. VersionsOK' /\ PatchesOK' /\ PatchesTouchOnlyLiveFields'
  BY <1>3 DEF ContentInv, VersionsOK, PatchesOK, PatchesTouchOnlyLiveFields
<1> QED  BY <1>8, <1>9, <1>10, <1>11, <1>12 DEF ContentInv

-----------------------------------------------------------------------------
(* Patches, plays and ratings.                                             *)

\* A list that is live has only live fields, and is p0 only as its effects are.
LEMMA LiveOps ==
  ASSUME NEW ops \in SUBSET PatchOps, livePatchAllowed(classifyPatchOps(ops)),
         NEW level \in {"p0", "p1"},
         patchRank(level) >= patchRank(classifyPatchOps(ops))
  PROVE  /\ ops \cap {"frozen", "blank"} = {}
         /\ level = "p0" => ops = {"fx_revision"}
<1> DEFINE levels == {classifyPatchOp(op) : op \in ops}
<1>1. /\ classifyPatchOp("fx_revision") = "p0"
      /\ classifyPatchOp("durability") = "p1"
      /\ classifyPatchOp("cooldown_ticks") = "p1"
      /\ classifyPatchOp("frozen") = "p2"
      /\ classifyPatchOp("blank") = "invalid"
  BY DEF classifyPatchOp
<1>2. patchRank("p0") = 0 /\ patchRank("p1") = 1 /\ patchRank("p2") = 2
  BY DEF patchRank
<1>3. classifyPatchOps(ops) \in {"p0", "p1"}
  BY DEF livePatchAllowed
<1>4. ops # {} /\ "invalid" \notin levels
  BY <1>3 DEF classifyPatchOps
<1>5. \A op \in ops : op \in {"fx_revision", "durability", "cooldown_ticks", "frozen"}
  BY <1>1, <1>4, ContentAssumption
<1>6. levels \subseteq {"p0", "p1", "p2"} /\ levels # {}
  BY <1>1, <1>4, <1>5
<1>7. \E l \in levels : \A k \in levels : patchRank(k) <= patchRank(l)
  <2>1. CASE "p2" \in levels
    BY <1>2, <1>6, <2>1
  <2>2. CASE "p2" \notin levels /\ "p1" \in levels
    BY <1>2, <1>6, <2>2
  <2>3. CASE levels = {"p0"}
    BY <1>2, <2>3
  <2> QED  BY <1>6, <2>1, <2>2, <2>3
<1>8. PICK l : l = classifyPatchOps(ops)
  OBVIOUS
<1>9. l = CHOOSE x \in levels : \A k \in levels : patchRank(k) <= patchRank(x)
  BY <1>4, <1>8 DEF classifyPatchOps
<1>10. \A k \in levels : patchRank(k) <= patchRank(l)
  BY <1>7, <1>9
<1>12. "p2" \notin levels
  <2> HIDE DEF levels
  <2> QED  BY <1>2, <1>3, <1>8, <1>10
<1>13. \A op \in ops : op \in {"fx_revision", "durability", "cooldown_ticks"}
  BY <1>1, <1>5, <1>12
<1>14. ASSUME level = "p0" PROVE ops = {"fx_revision"}
  <2>1. l = "p0"
    BY <1>2, <1>3, <1>8, <1>14
  <2>2. "p1" \notin levels
    <3> HIDE DEF levels
    <3> QED  BY <1>2, <1>10, <2>1
  <2> QED  BY <1>1, <1>4, <1>13, <2>2
<1> QED  BY <1>13, <1>14

\* POST /content/:id/patch.
LEMMA PatchKeeps ==
  ASSUME ContentInv, NEW id \in Ids, NEW base \in 1 .. MaxVersions,
         NEW seq \in 1 .. MaxPatches, NEW level \in {"p0", "p1"},
         NEW ops \in SUBSET PatchOps, NEW signature,
         Patch(id, base, seq, level, ops, signature)
  PROVE  ContentInv'
<1>1. PICK p : p = [id |-> id, base |-> base, seq |-> seq, level |-> level, ops |-> ops]
  OBVIOUS
<1>2. /\ p \in PatchRow /\ p.id = id /\ p.base = base /\ p.seq = seq
      /\ p.level = level /\ p.ops = ops
  BY <1>1 DEF PatchRow
<1>3. patches' = patches \cup {p}
  BY <1>1 DEF Patch, publishPatch
<1>4. UNCHANGED <<versions, latest, owners, plaza, plays, ratings>>
  BY DEF Patch
<1>5. \E r \in versions : r.id = id /\ r.version = base
  BY DEF Patch, publishPatch, getVersion
<1> DEFINE seqs == {q.seq : q \in {r \in patches : r.id = id /\ r.base = base}}
<1>6. seq = MaxOf(seqs) + 1
  BY DEF Patch, publishPatch, NextSeq
<1>7. /\ seq \notin seqs
      /\ \A n \in 1 .. seq : n # seq => \E m \in seqs : n \in 1 .. m
  <2>1. seqs \subseteq 0 .. MaxPatches /\ MaxPatches \in Nat
    BY ContentAssumption DEF ContentInv, PatchesOK, PatchRow
  <2>2. PICK S : S = seqs
    OBVIOUS
  <2>3. S \subseteq 0 .. MaxPatches /\ seq = MaxOf(S) + 1
    BY <1>6, <2>1, <2>2
  <2>4. seq \notin S /\ \A n \in 1 .. seq : n # seq => \E m \in S : n \in 1 .. m
    <3> HIDE DEF seqs
    <3>1. S \in SUBSET (0 .. MaxPatches) /\ seq \in Nat
      BY <2>1, <2>3
    <3>2. /\ MaxOf(S) + 1 \notin S
          /\ \A n \in 1 .. (MaxOf(S) + 1) :
               n # MaxOf(S) + 1 => \E m \in S : n \in 1 .. m
      BY <2>1, <3>1, NextNumber
    <3> QED  BY <2>3, <3>2, Zenon
  <2> QED  BY <2>2, <2>4
<1>8. ASSUME NEW n \in 1 .. seq, n # seq
      PROVE  \E q \in patches : q.id = id /\ q.base = base /\ q.seq = n
  <2>1. PICK m \in seqs : n \in 1 .. m
    BY <1>7, <1>8
  <2>2. PICK q \in patches : q.id = id /\ q.base = base /\ q.seq = m
    BY <2>1
  <2> QED  BY <2>1, <2>2 DEF ContentInv, PatchesOK
<1>9. \A q \in patches : q.id = id /\ q.base = base => q.seq # seq
  BY <1>7
<1>10. PatchesOK'
  <2>1. patches' \subseteq PatchRow
    BY <1>2, <1>3 DEF ContentInv, PatchesOK
  <2>2. \A q, r \in patches' : q.id = r.id /\ q.base = r.base /\ q.seq = r.seq => q = r
    BY <1>2, <1>3, <1>9 DEF ContentInv, PatchesOK
  <2>3. ASSUME NEW q \in patches', NEW n \in 1 .. q.seq
        PROVE  \E r \in patches' : r.id = q.id /\ r.base = q.base /\ r.seq = n
    BY <1>2, <1>3, <1>8, <2>3 DEF ContentInv, PatchesOK
  <2>4. \A q \in patches' : \E r \in versions' : r.id = q.id /\ r.version = q.base
    BY <1>2, <1>3, <1>4, <1>5 DEF ContentInv, PatchesOK
  <2> QED  BY <2>1, <2>2, <2>3, <2>4 DEF PatchesOK
<1>11. PatchesTouchOnlyLiveFields'
  <2>1. /\ livePatchAllowed(classifyPatchOps(ops))
        /\ patchRank(level) >= patchRank(classifyPatchOps(ops))
    BY DEF Patch
  <2>2. ops \cap {"frozen", "blank"} = {} /\ (level = "p0" => ops = {"fx_revision"})
    BY <2>1, LiveOps
  <2> QED  BY <1>2, <1>3, <2>2 DEF ContentInv, PatchesTouchOnlyLiveFields
<1>12. VersionsOK' /\ LatestOK' /\ OwnersOK'
  BY <1>4 DEF ContentInv, VersionsOK, LatestOK, OwnersOK
<1>13. PlazaOK'
  BY <1>4 DEF ContentInv, PlazaOK
<1>14. CountsOK'
  BY <1>4 DEF ContentInv, CountsOK, CountsMatchRows
<1> QED  BY <1>10, <1>11, <1>12, <1>13, <1>14 DEF ContentInv

LEMMA RecordPlayKeeps ==
  ASSUME ContentInv, NEW id \in Ids, NEW match, RecordPlay(id, match)
  PROVE  ContentInv'
<1>1. PICK p : p = [id |-> id, match |-> match]
  OBVIOUS
<1>2. p.id = id /\ p \notin plays /\ plays' = plays \cup {p} /\ id \in DOMAIN plaza
  BY <1>1 DEF RecordPlay, recordPlay, Listed
<1>3. UNCHANGED <<versions, latest, owners, patches, ratings>>
  BY DEF RecordPlay
<1>4. plaza \in [DOMAIN plaza -> ListingRow]
  BY DEF ContentInv, PlazaOK
<1>5. PICK was : was = plaza[id]
  OBVIOUS
<1>6. PICK row : row = [was EXCEPT !.playCount = was.playCount + 1, !.verified = TRUE]
  OBVIOUS
<1>7. was \in ListingRow /\ was.playCount \in Nat
  BY <1>2, <1>4, <1>5 DEF ListingRow
<1>8. row \in ListingRow
  <2>1. was.playCount + 1 \in Nat
    BY <1>7
  <2> QED  BY <1>6, <1>7, <2>1, Zenon DEF ListingRow
<1>9. /\ row.version = was.version /\ row.content = was.content
      /\ row.tags = was.tags /\ row.gameplay = was.gameplay
      /\ row.ratingSum = was.ratingSum /\ row.ratingCount = was.ratingCount
      /\ row.playCount = was.playCount + 1 /\ row.verified = TRUE
  BY <1>6, <1>7 DEF ListingRow
<1>10. plaza' = [plaza EXCEPT ![id] = row]
  <2>1. plaza' = [plaza EXCEPT ![id].playCount = @ + 1, ![id].verified = TRUE]
    BY DEF RecordPlay, recordPlay
  <2> QED  BY <1>2, <1>4, <1>5, <1>6, <2>1
<1>11. /\ DOMAIN plaza' = DOMAIN plaza
       /\ \A i \in DOMAIN plaza : plaza'[i] = IF i = id THEN row ELSE plaza[i]
  BY <1>2, <1>4, <1>10
<1>12. VersionsOK' /\ LatestOK' /\ OwnersOK' /\ PatchesOK' /\ PatchesTouchOnlyLiveFields'
  BY <1>3 DEF ContentInv, VersionsOK, LatestOK, OwnersOK, PatchesOK,
              PatchesTouchOnlyLiveFields
<1>13. PlazaOK'
  <2>1. plaza' \in [{i \in Ids : latest'[i] # 0} -> ListingRow]
    BY <1>3, <1>8, <1>10 DEF ContentInv, PlazaOK
  <2>2. ASSUME NEW i \in Ids, latest'[i] # 0
        PROVE  /\ i \in DOMAIN plaza
               /\ plaza'[i].version = plaza[i].version
               /\ plaza'[i].content = plaza[i].content
               /\ plaza'[i].tags = plaza[i].tags
               /\ plaza'[i].gameplay = plaza[i].gameplay
    <3>1. i \in DOMAIN plaza
      BY <1>3, <2>2 DEF ContentInv, PlazaOK
    <3> QED  BY <1>5, <1>9, <1>11, <3>1
  <2>3. ASSUME NEW i \in Ids, latest'[i] # 0
        PROVE  \E r \in versions' :
                 /\ r.id = i /\ r.version = latest'[i]
                 /\ plaza'[i].version = r.version
                 /\ plaza'[i].content = r.content
                 /\ plaza'[i].tags = plazaTagsFromBundle(r.content)
                 /\ plaza'[i].gameplay = plazaGameplayFromBundle(r.content)
    <3>1. latest[i] # 0 /\ latest'[i] = latest[i] /\ versions' = versions
      BY <1>3, <2>3
    <3>2. PICK r \in versions :
            /\ r.id = i /\ r.version = latest[i]
            /\ plaza[i].version = r.version
            /\ plaza[i].content = r.content
            /\ plaza[i].tags = plazaTagsFromBundle(r.content)
            /\ plaza[i].gameplay = plazaGameplayFromBundle(r.content)
      BY <3>1 DEF ContentInv, PlazaOK
    <3> QED  BY <2>2, <2>3, <3>1, <3>2
  <2> QED  BY <2>1, <2>3 DEF PlazaOK
<1>14. CountsOK'
  <2>1. IsFiniteSet(plays) /\ IsFiniteSet(ratings)
    BY DEF ContentInv, CountsOK
  <2>2. IsFiniteSet(plays') /\ IsFiniteSet(ratings')
    BY <1>2, <1>3, <2>1, FS_AddElement
  <2>3. ASSUME NEW i \in DOMAIN plaza'
        PROVE  LET x == plaza'[i] IN
                 /\ x.playCount = Cardinality({q \in plays' : q.id = i})
                 /\ x.verified <=> x.playCount > 0
                 /\ x.ratingCount = Cardinality({r \in ratings' : r.id = i})
                 /\ x.ratingSum \in x.ratingCount .. 5 * x.ratingCount
    <3>1. /\ plaza[i].playCount = Cardinality({q \in plays : q.id = i})
          /\ plaza[i].verified <=> plaza[i].playCount > 0
          /\ plaza[i].ratingCount = Cardinality({r \in ratings : r.id = i})
          /\ plaza[i].ratingSum \in plaza[i].ratingCount .. 5 * plaza[i].ratingCount
      BY <1>11 DEF ContentInv, CountsOK, CountsMatchRows
    <3>2. {r \in ratings' : r.id = i} = {r \in ratings : r.id = i}
      BY <1>3
    <3>3. CASE i # id
      <4>1. plaza'[i] = plaza[i]
        BY <1>11, <3>3
      <4>2. {q \in plays' : q.id = i} = {q \in plays : q.id = i}
        BY <1>2, <3>3
      <4> QED  BY <3>1, <3>2, <4>1, <4>2
    <3>4. CASE i = id
      <4>1. plaza'[i] = row /\ plaza[i] = was
        BY <1>5, <1>11, <3>4
      <4>2. {q \in plays' : q.id = i} = {q \in plays : q.id = i} \cup {p}
        BY <1>2, <3>4
      <4>3. IsFiniteSet({q \in plays : q.id = i}) /\ p \notin {q \in plays : q.id = i}
        BY <1>2, <2>1, FS_Subset
      <4>4. Cardinality({q \in plays' : q.id = i})
              = Cardinality({q \in plays : q.id = i}) + 1
        BY <4>2, <4>3, FS_AddElement
      <4>5. row.playCount > 0
        BY <1>7, <1>9
      <4>6. row.playCount = Cardinality({q \in plays' : q.id = i})
        BY <1>9, <3>1, <4>1, <4>4
      <4>7. /\ row.ratingCount = Cardinality({r \in ratings' : r.id = i})
            /\ row.ratingSum \in row.ratingCount .. 5 * row.ratingCount
        BY <1>9, <3>1, <3>2, <4>1
      <4> QED  BY <1>9, <4>1, <4>5, <4>6, <4>7
    <3> QED  BY <3>3, <3>4
  <2>4. CountsMatchRows'
    BY <2>3 DEF CountsMatchRows
  <2>5. /\ \A q \in plays' : q.id \in DOMAIN plaza'
        /\ \A r \in ratings' : r.id \in DOMAIN plaza'
    BY <1>2, <1>3, <1>11 DEF ContentInv, CountsOK
  <2> QED  BY <2>2, <2>4, <2>5 DEF CountsOK
<1> QED  BY <1>12, <1>13, <1>14 DEF ContentInv

LEMMA RateKeeps ==
  ASSUME ContentInv, NEW id \in Ids, NEW rater, NEW stars \in Stars, NEW list,
         Rate(id, rater, stars, list)
  PROVE  ContentInv'
<1>1. PICK tags : rate(id, rater, stars, tags)
  BY DEF Rate
<1>2. PICK s : s = [id |-> id, rater |-> rater, stars |-> stars, tags |-> tags]
  OBVIOUS
<1>3. /\ s.id = id /\ s \notin ratings /\ ratings' = ratings \cup {s}
      /\ id \in DOMAIN plaza
  BY <1>1, <1>2 DEF rate, Listed
<1>4. stars \in Nat /\ 1 <= stars /\ stars <= 5
  BY ContentAssumption DEF Rate, isPlazaStars
<1>5. UNCHANGED <<versions, latest, owners, patches, plays>>
  BY DEF Rate
<1>6. plaza \in [DOMAIN plaza -> ListingRow]
  BY DEF ContentInv, PlazaOK
<1>7. PICK was : was = plaza[id]
  OBVIOUS
<1>8. PICK row : row = [was EXCEPT !.ratingSum = was.ratingSum + stars,
                                   !.ratingCount = was.ratingCount + 1]
  OBVIOUS
<1>9. was \in ListingRow /\ was.ratingSum \in Nat /\ was.ratingCount \in Nat
  BY <1>3, <1>6, <1>7 DEF ListingRow
<1>10. row \in ListingRow
  <2>1. was.ratingSum + stars \in Nat /\ was.ratingCount + 1 \in Nat
    BY <1>4, <1>9
  <2> QED  BY <1>8, <1>9, <2>1, Zenon DEF ListingRow
<1>11. /\ row.version = was.version /\ row.content = was.content
       /\ row.tags = was.tags /\ row.gameplay = was.gameplay
       /\ row.playCount = was.playCount /\ row.verified = was.verified
       /\ row.ratingSum = was.ratingSum + stars
       /\ row.ratingCount = was.ratingCount + 1
  BY <1>8, <1>9 DEF ListingRow
<1>12. plaza' = [plaza EXCEPT ![id] = row]
  <2>1. plaza' = [plaza EXCEPT ![id].ratingSum = @ + stars, ![id].ratingCount = @ + 1]
    BY <1>1 DEF rate
  <2> QED  BY <1>3, <1>6, <1>7, <1>8, <2>1
<1>13. /\ DOMAIN plaza' = DOMAIN plaza
       /\ \A i \in DOMAIN plaza : plaza'[i] = IF i = id THEN row ELSE plaza[i]
  BY <1>3, <1>6, <1>12
<1>14. VersionsOK' /\ LatestOK' /\ OwnersOK' /\ PatchesOK' /\ PatchesTouchOnlyLiveFields'
  BY <1>5 DEF ContentInv, VersionsOK, LatestOK, OwnersOK, PatchesOK,
              PatchesTouchOnlyLiveFields
<1>15. PlazaOK'
  <2>1. plaza' \in [{i \in Ids : latest'[i] # 0} -> ListingRow]
    BY <1>5, <1>10, <1>12 DEF ContentInv, PlazaOK
  <2>2. ASSUME NEW i \in Ids, latest'[i] # 0
        PROVE  /\ i \in DOMAIN plaza
               /\ plaza'[i].version = plaza[i].version
               /\ plaza'[i].content = plaza[i].content
               /\ plaza'[i].tags = plaza[i].tags
               /\ plaza'[i].gameplay = plaza[i].gameplay
    <3>1. i \in DOMAIN plaza
      BY <1>5, <2>2 DEF ContentInv, PlazaOK
    <3> QED  BY <1>7, <1>11, <1>13, <3>1
  <2>3. ASSUME NEW i \in Ids, latest'[i] # 0
        PROVE  \E r \in versions' :
                 /\ r.id = i /\ r.version = latest'[i]
                 /\ plaza'[i].version = r.version
                 /\ plaza'[i].content = r.content
                 /\ plaza'[i].tags = plazaTagsFromBundle(r.content)
                 /\ plaza'[i].gameplay = plazaGameplayFromBundle(r.content)
    <3>1. latest[i] # 0 /\ latest'[i] = latest[i] /\ versions' = versions
      BY <1>5, <2>3
    <3>2. PICK r \in versions :
            /\ r.id = i /\ r.version = latest[i]
            /\ plaza[i].version = r.version
            /\ plaza[i].content = r.content
            /\ plaza[i].tags = plazaTagsFromBundle(r.content)
            /\ plaza[i].gameplay = plazaGameplayFromBundle(r.content)
      BY <3>1 DEF ContentInv, PlazaOK
    <3> QED  BY <2>2, <2>3, <3>1, <3>2
  <2> QED  BY <2>1, <2>3 DEF PlazaOK
<1>16. CountsOK'
  <2>1. IsFiniteSet(plays) /\ IsFiniteSet(ratings)
    BY DEF ContentInv, CountsOK
  <2>2. IsFiniteSet(plays') /\ IsFiniteSet(ratings')
    BY <1>3, <1>5, <2>1, FS_AddElement
  <2>3. ASSUME NEW i \in DOMAIN plaza'
        PROVE  LET x == plaza'[i] IN
                 /\ x.playCount = Cardinality({q \in plays' : q.id = i})
                 /\ x.verified <=> x.playCount > 0
                 /\ x.ratingCount = Cardinality({r \in ratings' : r.id = i})
                 /\ x.ratingSum \in x.ratingCount .. 5 * x.ratingCount
    <3>1. /\ plaza[i].playCount = Cardinality({q \in plays : q.id = i})
          /\ plaza[i].verified <=> plaza[i].playCount > 0
          /\ plaza[i].ratingCount = Cardinality({r \in ratings : r.id = i})
          /\ plaza[i].ratingSum \in plaza[i].ratingCount .. 5 * plaza[i].ratingCount
      BY <1>13 DEF ContentInv, CountsOK, CountsMatchRows
    <3>2. {q \in plays' : q.id = i} = {q \in plays : q.id = i}
      BY <1>5
    <3>3. CASE i # id
      <4>1. plaza'[i] = plaza[i]
        BY <1>13, <3>3
      <4>2. {r \in ratings' : r.id = i} = {r \in ratings : r.id = i}
        BY <1>3, <3>3
      <4> QED  BY <3>1, <3>2, <4>1, <4>2
    <3>4. CASE i = id
      <4>1. plaza'[i] = row /\ plaza[i] = was
        BY <1>7, <1>13, <3>4
      <4>2. {r \in ratings' : r.id = i} = {r \in ratings : r.id = i} \cup {s}
        BY <1>3, <3>4
      <4>3. IsFiniteSet({r \in ratings : r.id = i}) /\ s \notin {r \in ratings : r.id = i}
        BY <1>3, <2>1, FS_Subset
      <4>4. Cardinality({r \in ratings' : r.id = i})
              = Cardinality({r \in ratings : r.id = i}) + 1
        BY <4>2, <4>3, FS_AddElement
      <4>5. row.ratingCount = Cardinality({r \in ratings' : r.id = i})
        BY <1>11, <3>1, <4>1, <4>4
      <4>6. row.ratingSum \in row.ratingCount .. 5 * row.ratingCount
        <5>1. was.ratingSum \in was.ratingCount .. 5 * was.ratingCount
          BY <3>1, <4>1
        <5> QED  BY <1>4, <1>9, <1>11, <5>1
      <4>7. /\ row.playCount = Cardinality({q \in plays' : q.id = i})
            /\ row.verified <=> row.playCount > 0
        BY <1>11, <3>1, <3>2, <4>1
      <4> QED  BY <4>1, <4>5, <4>6, <4>7
    <3> QED  BY <3>3, <3>4
  <2>4. CountsMatchRows'
    BY <2>3 DEF CountsMatchRows
  <2>5. /\ \A q \in plays' : q.id \in DOMAIN plaza'
        /\ \A r \in ratings' : r.id \in DOMAIN plaza'
    BY <1>3, <1>5, <1>13 DEF ContentInv, CountsOK
  <2> QED  BY <2>2, <2>4, <2>5 DEF CountsOK
<1> QED  BY <1>14, <1>15, <1>16 DEF ContentInv

-----------------------------------------------------------------------------
(* The invariant.                                                          *)

LEMMA ContentInitInv == ContentInit => ContentInv
<1> SUFFICES ASSUME ContentInit PROVE ContentInv
  OBVIOUS
<1>1. VersionsOK /\ LatestOK /\ OwnersOK /\ PatchesOK /\ PatchesTouchOnlyLiveFields
  BY DEF ContentInit, VersionsOK, LatestOK, OwnersOK, PatchesOK, PatchesTouchOnlyLiveFields
<1>2. \A id \in Ids : latest[id] = 0
  BY DEF ContentInit
<1>3. PlazaOK
  <2>1. {id \in Ids : latest[id] # 0} = {}
    BY <1>2
  <2>2. plaza \in [{} -> ListingRow]
    BY DEF ContentInit
  <2> QED  BY <1>2, <2>1, <2>2 DEF PlazaOK
<1>4. CountsOK
  BY FS_EmptySet DEF ContentInit, CountsOK, CountsMatchRows
<1> QED  BY <1>1, <1>3, <1>4 DEF ContentInv

LEMMA ContentStep ==
  ASSUME ContentInv, [ContentNext]_contentVars
  PROVE  ContentInv'
<1>1. ASSUME NEW b \in PublishBodies, Publish(b.id, b.version, b.content, b.signature)
      PROVE  ContentInv'
  <2>1. /\ b.id \in Ids /\ b.version \in 1 .. (MaxVersions + 1) /\ b.content \in Contents
    BY ContentAssumption DEF PublishBodies
  <2>2. /\ b.signature = signContentMessage(b.id, b.version, b.content)
        /\ publish(b.id, b.version, b.content, b.signature)
        /\ OwnerAdded(b.id)
    BY <1>1 DEF Publish, verifyContentEnvelope, OwnerAdded
  <2> QED  BY <2>1, <2>2, PublishKeeps
<1>2. ASSUME NEW owner \in ContentOwners, NEW content \in Contents, Submit(owner, content)
      PROVE  ContentInv'
  <2>1. PICK id \in mintPlayerContentId :
          /\ publish(id, 1, content, signContentMessage(id, 1, content))
          /\ owners' = owners \cup {[id |-> id, owner |-> owner]}
    BY <1>2 DEF Submit
  <2>2. id \in Ids /\ OwnerAdded(id)
    BY <2>1 DEF mintPlayerContentId, OwnerAdded
  <2>3. 1 \in 1 .. (MaxVersions + 1)
    BY ContentAssumption
  <2> QED  BY <2>1, <2>2, <2>3, PublishKeeps
<1>3. ASSUME NEW b \in PatchBodies, Patch(b.id, b.base, b.seq, b.level, b.ops, b.signature)
      PROVE  ContentInv'
  <2>1. /\ b.id \in Ids /\ b.base \in 1 .. MaxVersions /\ b.seq \in 1 .. MaxPatches
        /\ b.level \in {"p0", "p1"} /\ b.ops \in SUBSET PatchOps
    BY DEF PatchBodies
  <2> QED  BY <1>3, <2>1, PatchKeeps
<1>4. ASSUME NEW id \in Ids, NEW b \in RollbackBodies, Rollback(id, b.target)
      PROVE  ContentInv'
  BY <1>4, RollbackKeeps DEF RollbackBodies
<1>5. ASSUME NEW id \in Ids, NEW b \in PlayBodies, RecordPlay(id, b.match)
      PROVE  ContentInv'
  BY <1>5, RecordPlayKeeps
<1>6. ASSUME NEW id \in Ids, NEW b \in RatingBodies, Rate(id, b.rater, b.stars, b.tags)
      PROVE  ContentInv'
  BY <1>6, RateKeeps DEF RatingBodies
<1>7. CASE UNCHANGED contentVars
  <2>1. UNCHANGED <<versions, latest, owners, patches, plaza, plays, ratings>>
    BY <1>7 DEF contentVars
  <2>2. VersionsOK' /\ LatestOK' /\ OwnersOK'
    BY <2>1 DEF ContentInv, VersionsOK, LatestOK, OwnersOK
  <2>3. PatchesOK' /\ PatchesTouchOnlyLiveFields'
    BY <2>1 DEF ContentInv, PatchesOK, PatchesTouchOnlyLiveFields
  <2>4. PlazaOK'
    BY <2>1 DEF ContentInv, PlazaOK
  <2>5. CountsOK'
    BY <2>1 DEF ContentInv, CountsOK, CountsMatchRows
  <2> QED  BY <2>2, <2>3, <2>4, <2>5 DEF ContentInv
<1> QED  BY <1>1, <1>2, <1>3, <1>4, <1>5, <1>6, <1>7 DEF ContentNext

\* The tables of published content are as described above, in every state.
THEOREM ContentInvariant == ContentSpec => []ContentInv
BY ContentInitInv, ContentStep, PTL DEF ContentSpec

-----------------------------------------------------------------------------
(* The theorems.                                                           *)

LEMMA OneEnvelope ==
  ASSUME ContentInv, NEW s \in versions
  PROVE  fetchEnvelope(s.id, s.version) = {viewOf(s)}
<1>1. s.version >= 1
  BY ContentAssumption DEF ContentInv, VersionsOK, VersionRow
<1>2. getVersion(s.id, s.version) = {s}
  BY DEF getVersion, ContentInv, VersionsOK
<1>3. VersionView(s.id, s.version) = {viewOf(s)}
  BY <1>1, <1>2 DEF VersionView, isContentVersion
<1>4. viewOf(s).id = s.id /\ viewOf(s).version = s.version
  BY DEF viewOf
<1> QED  BY <1>3, <1>4 DEF fetchEnvelope

LEMMA OnePatch ==
  ASSUME ContentInv, NEW p \in patches
  PROVE  {q \in PatchesView(p.id, p.base) : q.seq = p.seq} = {patchViewOf(p)}
<1>1. isContentVersion(p.base) /\ getVersion(p.id, p.base) # {}
  BY ContentAssumption
  DEF ContentInv, PatchesOK, PatchRow, isContentVersion, getVersion
<1>2. PatchesView(p.id, p.base) = {patchViewOf(q) : q \in listPatches(p.id, p.base)}
  BY <1>1 DEF PatchesView
<1>3. p \in listPatches(p.id, p.base)
  BY DEF listPatches
<1>4. \A q \in listPatches(p.id, p.base) : q.seq = p.seq => q = p
  BY DEF listPatches, ContentInv, PatchesOK
<1>5. \A q : patchViewOf(q).seq = q.seq
  BY DEF patchViewOf
<1> QED  BY <1>2, <1>3, <1>4, <1>5

LEMMA HistoryFollows == ContentInv => HistoryHasNoGaps
<1> SUFFICES ASSUME ContentInv PROVE HistoryHasNoGaps
  OBVIOUS
<1>1. ASSUME NEW r \in versions, NEW v \in 1 .. r.version
      PROVE  /\ Cardinality(fetchEnvelope(r.id, v)) = 1
             /\ \A e \in fetchEnvelope(r.id, v) :
                  verifyContentEnvelope(r.id, v, e.content, e.signature)
  <2>1. PICK s \in versions : s.id = r.id /\ s.version = v
    BY DEF ContentInv, VersionsOK
  <2>2. fetchEnvelope(r.id, v) = {viewOf(s)}
    BY <2>1, OneEnvelope
  <2>3. viewOf(s).content = s.content /\ viewOf(s).signature = s.signature
    BY DEF viewOf
  <2>4. s.signature = signContentMessage(r.id, v, s.content) /\ v >= 1
    BY <2>1 DEF ContentInv, VersionsOK
  <2>5. verifyContentEnvelope(r.id, v, s.content, s.signature)
    BY <2>4 DEF verifyContentEnvelope
  <2>6. Cardinality({viewOf(s)}) = 1
    BY FS_Singleton
  <2> QED  BY <2>2, <2>3, <2>5, <2>6
<1>2. ASSUME NEW p \in patches, NEW n \in 1 .. p.seq
      PROVE  Cardinality({q \in PatchesView(p.id, p.base) : q.seq = n}) = 1
  <2>1. PICK q \in patches : q.id = p.id /\ q.base = p.base /\ q.seq = n
    BY DEF ContentInv, PatchesOK
  <2>2. {x \in PatchesView(p.id, p.base) : x.seq = n} = {patchViewOf(q)}
    BY <2>1, OnePatch
  <2> QED  BY <2>2, FS_Singleton
<1>3. ASSUME NEW o \in owners
      PROVE  getOwner(o.id) = {o} /\ getLatest(o.id) # {} /\ o.id \notin ReservedIds
  BY DEF getOwner, getLatest, getVersion, ContentInv, OwnersOK, LatestOK
<1> QED  BY <1>1, <1>2, <1>3 DEF HistoryHasNoGaps

\* The versions of a content and the patches of a version are numbered without
\* a gap and served under their numbers with a signature that verifies, and a
\* submitted content has one owner (HistoryHasNoGaps), however many there are.
THEOREM History == ContentSpec => []HistoryHasNoGaps
BY ContentInvariant, HistoryFollows, PTL

LEMMA PlazaShows == ContentInv => PlazaFollowsLatest
<1> SUFFICES ASSUME ContentInv PROVE PlazaFollowsLatest
  OBVIOUS
<1>1. DOMAIN plaza = {id \in Ids : latest[id] # 0}
  BY DEF ContentInv, PlazaOK
<1>2. ASSUME NEW id \in DOMAIN plaza
      PROVE  \E r \in LatestView(id) :
               /\ plaza[id].content = r.content
               /\ \E item \in Plaza("newest", plazaGameplayFromBundle(r.content)) :
                    /\ item.id = id
                    /\ item.version = r.version
                    /\ item.tags = plazaTagsFromBundle(r.content)
  <2>1. PICK s \in versions :
          /\ s.id = id /\ s.version = latest[id]
          /\ plaza[id].version = s.version
          /\ plaza[id].content = s.content
          /\ plaza[id].tags = plazaTagsFromBundle(s.content)
          /\ plaza[id].gameplay = plazaGameplayFromBundle(s.content)
    BY <1>1 DEF ContentInv, PlazaOK
  <2>2. PICK r : r = viewOf(s)
    OBVIOUS
  <2>3. r \in LatestView(id) /\ r.content = s.content /\ r.version = s.version
    BY <2>1, <2>2 DEF LatestView, getLatest, getVersion, viewOf
  <2>4. PICK play : play = plazaGameplayFromBundle(r.content)
    OBVIOUS
  <2>5. play # "absent"
    BY <2>4, BundleTypes
  <2>6. id \in listPlaza("newest", play)
    BY <2>1, <2>3, <2>4 DEF listPlaza
  <2>7. itemViewOf(id) \in Plaza("newest", play)
    BY <2>5, <2>6 DEF Plaza
  <2>8. /\ itemViewOf(id).id = id
        /\ itemViewOf(id).version = plaza[id].version
        /\ itemViewOf(id).tags = plaza[id].tags
    BY DEF itemViewOf
  <2> QED  BY <2>1, <2>3, <2>4, <2>7, <2>8
<1> QED  BY <1>1, <1>2 DEF PlazaFollowsLatest

\* The plaza shows the latest version of every content, with the gameplay and
\* the tags of that version (PlazaFollowsLatest).
THEOREM PlazaFollowsTheLatest == ContentSpec => []PlazaFollowsLatest
BY ContentInvariant, PlazaShows, PTL

\* The counters of a listing are the rows they count (CountsMatchRows).
THEOREM Counts == ContentSpec => []CountsMatchRows
<1>1. ContentInv => CountsMatchRows
  BY DEF ContentInv, CountsOK
<1> QED  BY <1>1, ContentInvariant, PTL

\* No stored patch touches a frozen field, and what is p0 says so
\* (PatchesTouchOnlyLiveFields).
THEOREM LivePatches == ContentSpec => []PatchesTouchOnlyLiveFields
<1>1. ContentInv => PatchesTouchOnlyLiveFields
  BY DEF ContentInv
<1> QED  BY <1>1, ContentInvariant, PTL

LEMMA TablesGrow ==
  ASSUME [ContentNext]_contentVars
  PROVE  versions \subseteq versions' /\ patches \subseteq patches'
<1>1. ASSUME ContentNext PROVE versions \subseteq versions' /\ patches \subseteq patches'
  BY <1>1 DEF ContentNext, Publish, Submit, Patch, Rollback, RecordPlay, Rate, publish,
              publishPatch, InsertVersion
<1>2. CASE UNCHANGED contentVars
  BY <1>2 DEF contentVars
<1> QED  BY <1>1, <1>2

\* What was served for a version is served for it ever after, and no patch is
\* removed (PublishedIsImmutable).
THEOREM Immutable == ContentSpec => PublishedIsImmutable
<1>1. ASSUME [ContentNext]_contentVars
      PROVE  [ /\ \A id \in Ids, version \in Nat :
                    fetchEnvelope(id, version) \subseteq fetchEnvelope(id, version)'
               /\ patches \subseteq patches' ]_contentVars
  <2>1. versions \subseteq versions' /\ patches \subseteq patches'
    BY <1>1, TablesGrow
  <2>2. ASSUME NEW id \in Ids, NEW version \in Nat
        PROVE  fetchEnvelope(id, version) \subseteq fetchEnvelope(id, version)'
    <3>1. getVersion(id, version) \subseteq getVersion(id, version)'
      BY <2>1 DEF getVersion
    <3>2. VersionView(id, version) \subseteq VersionView(id, version)'
      BY <3>1 DEF VersionView, viewOf
    <3> QED  BY <3>2 DEF fetchEnvelope
  <2> QED  BY <2>1, <2>2
<1> QED  BY <1>1, PTL DEF ContentSpec, PublishedIsImmutable

\* What a list of live fields is classified as.
LEMMA LiveListIsLive ==
  ASSUME NEW ops, ops # {}, ops \subseteq {"fx_revision", "durability", "cooldown_ticks"}
  PROVE  classifyPatchOps(ops) = IF ops = {"fx_revision"} THEN "p0" ELSE "p1"
<1> DEFINE levels == {classifyPatchOp(op) : op \in ops}
<1>1. /\ classifyPatchOp("fx_revision") = "p0"
      /\ classifyPatchOp("durability") = "p1"
      /\ classifyPatchOp("cooldown_ticks") = "p1"
  BY DEF classifyPatchOp
<1>2. patchRank("p0") = 0 /\ patchRank("p1") = 1
  BY DEF patchRank
<1>3. CASE ops = {"fx_revision"}
  <2>1. levels = {"p0"}
    BY <1>1, <1>3
  <2>2. classifyPatchOps(ops) =
          CHOOSE l \in levels : \A k \in levels : patchRank(k) <= patchRank(l)
    BY <1>3, <2>1 DEF classifyPatchOps
  <2> HIDE DEF levels
  <2> QED  BY <1>2, <1>3, <2>1, <2>2
<1>4. CASE ops # {"fx_revision"}
  <2>1. levels \subseteq {"p0", "p1"} /\ "p1" \in levels
    BY <1>1, <1>4
  <2>2. classifyPatchOps(ops) =
          CHOOSE l \in levels : \A k \in levels : patchRank(k) <= patchRank(l)
    BY <2>1 DEF classifyPatchOps
  <2>3. \A l \in levels : (\A k \in levels : patchRank(k) <= patchRank(l)) <=> l = "p1"
    <3> HIDE DEF levels
    <3> QED  BY <1>2, <2>1
  <2> HIDE DEF levels
  <2> QED  BY <1>4, <2>1, <2>2, <2>3
<1> QED  BY <1>3, <1>4

\* A list is let through exactly when every field in it is live, and is p0
\* exactly when it touches effects only (ClassifiesLiveFields).
THEOREM Classification == ClassifiesLiveFields
<1> SUFFICES ASSUME NEW ops \in SUBSET PatchOps
             PROVE  /\ livePatchAllowed(classifyPatchOps(ops)) <=>
                         ops # {} /\ ops \subseteq {"fx_revision", "durability", "cooldown_ticks"}
                    /\ classifyPatchOps(ops) = "p0" <=> ops = {"fx_revision"}
  BY DEF ClassifiesLiveFields
<1>1. ASSUME ops # {}, ops \subseteq {"fx_revision", "durability", "cooldown_ticks"}
      PROVE  /\ livePatchAllowed(classifyPatchOps(ops))
             /\ classifyPatchOps(ops) = "p0" <=> ops = {"fx_revision"}
  BY <1>1, LiveListIsLive DEF livePatchAllowed
<1>2. ASSUME livePatchAllowed(classifyPatchOps(ops))
      PROVE  ops # {} /\ ops \subseteq {"fx_revision", "durability", "cooldown_ticks"}
  <2>1. ops # {}
    BY <1>2 DEF livePatchAllowed, classifyPatchOps
  <2>2. PICK level \in {"p0", "p1"} : level = classifyPatchOps(ops)
    BY <1>2 DEF livePatchAllowed
  <2>3. patchRank(level) >= patchRank(classifyPatchOps(ops))
    BY <2>2 DEF patchRank
  <2>4. ops \cap {"frozen", "blank"} = {}
    BY <1>2, <2>3, LiveOps
  <2> QED  BY <2>1, <2>4, ContentAssumption
<1>3. ASSUME classifyPatchOps(ops) = "p0" PROVE livePatchAllowed(classifyPatchOps(ops))
  BY <1>3 DEF livePatchAllowed
<1>4. ASSUME ops = {"fx_revision"} PROVE classifyPatchOps(ops) = "p0"
  BY <1>1, <1>4
<1> QED  BY <1>1, <1>2, <1>3, <1>4
=============================================================================
