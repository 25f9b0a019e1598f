---------------------------- MODULE ContentStore ----------------------------
(***************************************************************************)
(* Published content: its versions and which one is the latest, the hot    *)
(* patches of a version, and the plaza listing with its plays and ratings  *)
(* (db/database_content.ts and db/database_plaza.ts behind                 *)
(* server_content.ts, server_content_submit.ts and server_plaza.ts).       *)
(* Every handler is one transaction in one synchronous step.               *)
(*                                                                         *)
(* A bundle and the hash it was published under travel together, as do the *)
(* operations of a patch and its hash: the service recomputes neither.  A  *)
(* bundle is one element of Contents, of which the code reads the schema   *)
(* version, the gameplay and which bags are not empty.  A signature is the *)
(* message that the holder of the key signed; the requests carry one,      *)
(* right or wrong.  Requests that are refused change nothing and have no   *)
(* step.                                                                   *)
(***************************************************************************)
EXTENDS Integers, FiniteSets, Sequences

CONSTANTS
    Ids,             \* content ids, the ones a submit may mint among them
    ReservedIds,        \* the ids of official courses and of the demo course
    Contents,        \* bundles with their hash
    GameplayOf(_),   \* bundle -> "traprush" or "bastion"
    BagsOf(_),       \* bundle -> its non-empty bags
    SchemaOf(_),     \* bundle -> its schema_version, 1 or 2 of those accepted
    TagBags,         \* TAG_BAGS: pairs <<tag, bag>>
    TagLists,        \* what a rater may send as tags, sequences
    PatchOps,        \* kinds of patch operations, see classifyPatchOp
    ContentOwners, Matches, Raters, Stars,
    MaxVersions, MaxPatches   \* bounds: versions and patches in all

ASSUME ContentAssumption ==
    /\ ReservedIds \subseteq Ids
    /\ MaxVersions \in Nat
    /\ MaxPatches \in Nat
    /\ Stars \subseteq Nat
    /\ PatchOps \subseteq
         {"fx_revision", "durability", "cooldown_ticks", "frozen", "blank"}

VARIABLES
    versions,   \* rows [id, version, content, signature]
    latest,     \* id -> version of content_latest, 0 without a row
    owners,     \* rows [id, owner]
    patches,    \* rows [id, base, seq, level, ops]
    plaza,      \* id -> listing row, over the ids listed
    plays,      \* rows [id, match]
    ratings     \* rows [id, rater, stars, tags]

contentVars == <<versions, latest, owners, patches, plaza, plays, ratings>>

NoSignature == [id |-> "none"]

ContentInit ==
    /\ versions = {}
    /\ latest = [id \in Ids |-> 0]
    /\ owners = {}
    /\ patches = {}
    /\ plaza = [id \in {} |-> 0]
    /\ plays = {}
    /\ ratings = {}

-----------------------------------------------------------------------------
(* Signatures (content_sign.ts).                                           *)

signContentMessage(id, version, content) ==
    [id |-> id, version |-> version, content |-> content]

signPatchMessage(id, base, seq, ops) ==
    [id |-> id, base |-> base, seq |-> seq, ops |-> ops]

verifyContentEnvelope(id, version, content, signature) ==
    /\ version >= 1
    /\ signature = signContentMessage(id, version, content)

verifyPatchEnvelope(id, base, seq, ops, signature) ==
    /\ base >= 1
    /\ seq >= 1
    /\ signature = signPatchMessage(id, base, seq, ops)

-----------------------------------------------------------------------------
(* Versions.                                                               *)

VersionsOf(id) == {v.version : v \in {r \in versions : r.id = id}}

\* The largest of a set of naturals, 0 for none: MAX(version), MAX(seq).
MaxOf(S) == IF S = {} THEN 0 ELSE CHOOSE n \in S : \A m \in S : m <= n

NextVersion(id) == MaxOf(VersionsOf(id)) + 1

\* What GET /content/:id/latest, /versions/:version and /patches answer with.
viewOf(r) == [id |-> r.id, version |-> r.version, content |-> r.content,
              signature |-> r.signature]
patchViewOf(p) == [seq |-> p.seq, level |-> p.level, ops |-> p.ops]

isContentVersion(version) == version >= 1

getVersion(id, version) == {r \in versions : r.id = id /\ r.version = version}
getLatest(id) == getVersion(id, latest[id])

getOwner(id) == {o \in owners : o.id = id}

LatestView(id) == {viewOf(r) : r \in getLatest(id)}

VersionView(id, version) ==
    {viewOf(r) : r \in {r \in getVersion(id, version) : isContentVersion(version)}}

\* What a match host fetches before it launches a match on the version.
fetchEnvelope(id, version) ==
    {v \in VersionView(id, version) : v.id = id /\ v.version = version}

InsertVersion(id, version, content, signature) ==
    versions' = versions \cup {[id |-> id, version |-> version,
                                content |-> content, signature |-> signature]}

-----------------------------------------------------------------------------
(* The plaza listing follows the latest version.                           *)

plazaTagsFromBundle(content) ==
    {p[1] : p \in {q \in TagBags : q[2] \in BagsOf(content)}}

plazaGameplayFromBundle(content) ==
    IF GameplayOf(content) = "bastion" THEN "bastion" ELSE "traprush"

Listed(id) == id \in DOMAIN plaza

Listing(version, content) ==
    [version |-> version, content |-> content,
     tags |-> plazaTagsFromBundle(content),
     gameplay |-> plazaGameplayFromBundle(content),
     playCount |-> 0, ratingSum |-> 0, ratingCount |-> 0, verified |-> FALSE]

Relisted(row, version, content) ==
    [row EXCEPT !.version = version, !.content = content,
                !.tags = plazaTagsFromBundle(content),
                !.gameplay = plazaGameplayFromBundle(content)]

\* A new version listed as if it were the first: the counts start again.
upsertPlazaListingAnew(id, version, content) ==
    plaza' = [i \in DOMAIN plaza \cup {id} |->
                IF i # id THEN plaza[i] ELSE Listing(version, content)]

\* A first version is listed with no plays; a later one keeps the counts.
upsertPlazaListing(id, version, content) ==
    plaza' = [i \in DOMAIN plaza \cup {id} |->
                IF i # id THEN plaza[i]
                ELSE IF Listed(id) THEN Relisted(plaza[id], version, content)
                ELSE Listing(version, content)]

\* A rollback that forgets the plaza.
syncPlazaNot(id, version, content) == UNCHANGED plaza

syncPlazaLatest(id, version, content) ==
    plaza' = [i \in DOMAIN plaza |->
                IF i = id THEN Relisted(plaza[i], version, content) ELSE plaza[i]]

-----------------------------------------------------------------------------
(* The transactions.                                                       *)

\* The check that the version does not exist is implied by the next one.
publish(id, version, content, signature) ==
    /\ Cardinality(versions) < MaxVersions
    /\ getVersion(id, version) = {}
    /\ version = NextVersion(id)
    /\ InsertVersion(id, version, content, signature)
    /\ latest' = [latest EXCEPT ![id] = version]
    /\ upsertPlazaListing(id, version, content)
    /\ UNCHANGED <<patches, plays, ratings>>

\* The next patch counted over all the versions of a content.
NextSeqOfContent(id, base) == MaxOf({p.seq : p \in {q \in patches : q.id = id}}) + 1

NextSeq(id, base) ==
    MaxOf({p.seq : p \in {q \in patches : q.id = id /\ q.base = base}}) + 1

publishPatch(id, base, seq, level, ops) ==
    /\ Cardinality(patches) < MaxPatches
    /\ getVersion(id, base) # {}
    /\ seq = NextSeq(id, base)
    /\ patches' = patches \cup {[id |-> id, base |-> base, seq |-> seq,
                                 level |-> level, ops |-> ops]}

rollbackLatest(id, target) ==
    /\ latest[id] # 0
    /\ latest[id] # target
    /\ \E row \in getVersion(id, target) :
         /\ latest' = [latest EXCEPT ![id] = target]
         /\ syncPlazaLatest(id, target, row.content)

\* The patches of a version in the order a client applies them, and what
\* GET /content/:id/patches shows of a version that exists.
listPatches(id, base) == {p \in patches : p.id = id /\ p.base = base}

PatchesView(id, base) ==
    {patchViewOf(p) : p \in {p \in listPatches(id, base) :
                               isContentVersion(base) /\ getVersion(id, base) # {}}}

\* One play per match, one rating per rater: the primary keys of the rows.
recordPlay(id, match) ==
    /\ Listed(id)
    /\ [id |-> id, match |-> match] \notin plays
    /\ plays' = plays \cup {[id |-> id, match |-> match]}
    /\ plaza' = [plaza EXCEPT ![id].playCount = @ + 1, ![id].verified = TRUE]

rate(id, rater, stars, tags) ==
    /\ Listed(id)
    /\ ~ \E r \in ratings : r.id = id /\ r.rater = rater
    /\ ratings' = ratings \cup
         {[id |-> id, rater |-> rater, stars |-> stars, tags |-> tags]}
    /\ plaza' = [plaza EXCEPT ![id].ratingSum = @ + stars,
                              ![id].ratingCount = @ + 1]

-----------------------------------------------------------------------------
(* What a live patch may touch (contracts content_patch.ts).  An operation *)
(* is the kind of its bag and field; "blank" has an empty one, "frozen" is *)
(* every other field of the bundle.                                        *)

classifyPatchOp(op) ==
    CASE op = "fx_revision" -> "p0"
      [] op \in {"durability", "cooldown_ticks"} -> "p1"
      [] op = "blank" -> "invalid"
      [] op = "frozen" -> "p2"

patchRank(level) == CASE level = "p0" -> 0 [] level = "p1" -> 1 [] OTHER -> 2

\* The highest level of the operations; the order of the list plays no part.
classifyPatchOps(ops) ==
    LET levels == {classifyPatchOp(op) : op \in ops} IN
    IF ops = {} \/ "invalid" \in levels THEN "invalid"
    ELSE CHOOSE l \in levels : \A k \in levels : patchRank(k) <= patchRank(l)

livePatchAllowed(level) == level \in {"p0", "p1"}

-----------------------------------------------------------------------------
(* The handlers.                                                           *)

Publish(id, version, content, signature) ==
    /\ verifyContentEnvelope(id, version, content, signature)
    /\ publish(id, version, content, signature)
    /\ UNCHANGED owners

\* A player's bundle gets an id nobody has and no official course uses, is
\* signed by the service and belongs to the player.  Random ids are tried until
\* one is free; that eight are not, which is an error, is left out.
mintPlayerContentId == {id \in Ids \ ReservedIds : getLatest(id) = {}}

bundleShapeOk(content) == SchemaOf(content) \in 1..2

Submit(owner, content) ==
    /\ bundleShapeOk(content)
    /\ \E id \in mintPlayerContentId :
      /\ publish(id, 1, content, signContentMessage(id, 1, content))
      /\ owners' = owners \cup {[id |-> id, owner |-> owner]}

Patch(id, base, seq, level, ops, signature) ==
    /\ livePatchAllowed(classifyPatchOps(ops))
    /\ patchRank(level) >= patchRank(classifyPatchOps(ops))
    /\ verifyPatchEnvelope(id, base, seq, ops, signature)
    /\ publishPatch(id, base, seq, level, ops)
    /\ UNCHANGED <<versions, latest, owners, plaza, plays, ratings>>

Rollback(id, target) ==
    /\ rollbackLatest(id, target)
    /\ UNCHANGED <<versions, owners, patches, plays, ratings>>

RecordPlay(id, match) ==
    /\ recordPlay(id, match)
    /\ UNCHANGED <<versions, latest, owners, patches, ratings>>

isPlazaStars(stars) == stars \in 1..5

\* The tags of a list of known tags without a repetition.
readPlazaTags(tags) ==
    {{tags[i] : i \in DOMAIN tags} : t \in {t \in {tags} :
       /\ \A i \in DOMAIN t : \E p \in TagBags : p[1] = t[i]
       /\ \A i, j \in DOMAIN t : i # j => t[i] # t[j]}}

Rate(id, rater, stars, list) ==
    /\ isPlazaStars(stars)
    /\ \E tags \in readPlazaTags(list) : rate(id, rater, stars, tags)
    /\ UNCHANGED <<versions, latest, owners, patches, plays>>

\* GET /content/plaza: the listings of one gameplay, the verified ones on
\* that tab.
listPlaza(tab, gameplay) ==
    {id \in DOMAIN plaza : /\ plaza[id].gameplay = gameplay
                           /\ tab = "verified" => plaza[id].verified}

\* A query without a gameplay asks for Trap Rush; an unknown tab or gameplay is
\* refused.  A listing shows everything but the bundle.
itemViewOf(id) == [id |-> id, version |-> plaza[id].version, tags |-> plaza[id].tags,
                   playCount |-> plaza[id].playCount, verified |-> plaza[id].verified]

Plaza(tab, gameplay) ==
    {itemViewOf(id) : id \in
       listPlaza(tab, IF gameplay = "absent" THEN "traprush" ELSE gameplay)}

\* The bodies the schemas let through.  A publish may carry the signature of
\* another version.
PublishBodies ==
    {[id |-> id, version |-> v, content |-> c,
      signature |-> signContentMessage(id, w, c)] :
        id \in Ids, v \in 1..MaxVersions, w \in 1..MaxVersions, c \in Contents}
PatchBodies ==
    {[id |-> id, base |-> b, seq |-> n, level |-> l, ops |-> ops,
      signature |-> signPatchMessage(id, b, n, ops)] :
        id \in Ids, b \in 1..MaxVersions, n \in 1..MaxPatches,
        l \in {"p0", "p1"}, ops \in SUBSET PatchOps \ {{}}}
RollbackBodies == [target : 1..MaxVersions]
PlayBodies == [match : Matches]
RatingBodies == [rater : Raters, stars : Stars, tags : TagLists]

ContentNext ==
    \/ \E b \in PublishBodies : Publish(b.id, b.version, b.content, b.signature)
    \/ \E owner \in ContentOwners, content \in Contents : Submit(owner, content)
    \/ \E b \in PatchBodies :
         Patch(b.id, b.base, b.seq, b.level, b.ops, b.signature)
    \/ \E id \in Ids :
         \/ \E b \in RollbackBodies : Rollback(id, b.target)
         \/ \E b \in PlayBodies : RecordPlay(id, b.match)
         \/ \E b \in RatingBodies : Rate(id, b.rater, b.stars, b.tags)

ContentSpec == ContentInit /\ [][ContentNext]_contentVars

-----------------------------------------------------------------------------

\* The versions of a content are 1 to n without a gap, whatever rollbacks came
\* between two publishes, each is served under its number with a signature that
\* verifies, and the patches of a version are 1 to n too.  A content a player
\* submitted has that one owner and never the id of an official course.
HistoryHasNoGaps ==
    /\ \A r \in versions : \A v \in 1..r.version :
         /\ Cardinality(fetchEnvelope(r.id, v)) = 1
         /\ \A e \in fetchEnvelope(r.id, v) :
              verifyContentEnvelope(r.id, v, e.content, e.signature)
    /\ \A p \in patches : \A s \in 1..p.seq :
         Cardinality({q \in PatchesView(p.id, p.base) : q.seq = s}) = 1
    /\ \A o \in owners :
         /\ getOwner(o.id) = {o}
         /\ getLatest(o.id) # {}
         /\ o.id \notin ReservedIds

\* What was served once for a version is served for it ever after, and no
\* patch is changed or removed: a match that was started on a version can be
\* replayed (CD-33).
PublishedIsImmutable ==
    [][ /\ \A id \in Ids, version \in Nat :
             fetchEnvelope(id, version) \subseteq fetchEnvelope(id, version)'
        /\ patches \subseteq patches' ]_contentVars

\* The plaza shows the latest version of every content that has one, under the
\* gameplay and the tags of that version, through publishes and rollbacks.
PlazaFollowsLatest ==
    /\ DOMAIN plaza = {id \in Ids : latest[id] # 0}
    /\ \A id \in DOMAIN plaza : \E r \in LatestView(id) :
         /\ plaza[id].content = r.content
         /\ \E item \in Plaza("newest", plazaGameplayFromBundle(r.content)) :
              /\ item.id = id
              /\ item.version = r.version
              /\ item.tags = plazaTagsFromBundle(r.content)

\* The counters of a listing are the rows they count, through new versions
\* and rollbacks of the content, and "verified" means somebody played it.
CountsMatchRows ==
    \A id \in DOMAIN plaza :
      LET row == plaza[id] IN
        /\ row.playCount = Cardinality({p \in plays : p.id = id})
        /\ row.verified <=> row.playCount > 0
        /\ row.ratingCount = Cardinality({r \in ratings : r.id = id})
        /\ row.ratingSum \in row.ratingCount..5 * row.ratingCount

\* No stored patch touches a field that a running match may not change, and
\* its level says as much as its operations do: a client that applies only p0
\* patches live applies only what is p0.
PatchesTouchOnlyLiveFields ==
    \A p \in patches :
      /\ p.ops \cap {"frozen", "blank"} = {}
      /\ p.level = "p0" => p.ops = {"fx_revision"}

\* The classification of a list is live exactly when every field in it is, and
\* p0 exactly when only effects are touched.
ClassifiesLiveFields ==
    \A ops \in SUBSET PatchOps :
      /\ livePatchAllowed(classifyPatchOps(ops)) <=>
           ops # {} /\ ops \subseteq {"fx_revision", "durability", "cooldown_ticks"}
      /\ classifyPatchOps(ops) = "p0" <=> ops = {"fx_revision"}
=============================================================================
