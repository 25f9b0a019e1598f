------------------------------ MODULE Accounts ------------------------------
(***************************************************************************)
(* Accounts, guests, their sessions and their cloud drafts: the tables of  *)
(* migration 0012 and the handlers of server_accounts.ts over              *)
(* db/database_accounts.ts.  A handler runs without an await between its   *)
(* statements (the password hash is synchronous), so it is one step unless *)
(* the process dies inside it: every statement commits on its own.         *)
(*                                                                         *)
(* An account, a guest and a session are the position of their row in      *)
(* their table; 0 is none.  A session token is the position of its row,    *)
(* and a recovery key is right or wrong.  A request that is refused        *)
(* changes nothing and has no step, except a registration whose claim is   *)
(* refused.                                                                *)
(***************************************************************************)
EXTENDS Integers, Sequences, FiniteSets

CONSTANTS Names, Passwords, Docs,
          Malformed,    \* the names and passwords that fail their schema
          LargeDocs,    \* the documents over DRAFT_JSON_MAX
          MaxAccounts, MaxGuests, MaxSessions   \* bounds of the instance

ASSUME AccountBounds ==
    /\ MaxAccounts \in Nat
    /\ MaxGuests \in Nat
    /\ MaxSessions \in Nat

VARIABLES
    accounts,   \* the rows [name, hash]
    guests,     \* the rows: the account that claimed the guest, 0 for none
    sessions,   \* the rows: the account of the session
    drafts,     \* owner -> document, over the owners that have a draft
    torn        \* the guests whose claim was cut between its two updates

accountVars == <<accounts, guests, sessions, drafts, torn>>

Owner(kind, id) == [kind |-> kind, id |-> id]
Guest(g) == Owner("guest", g)
Account(a) == Owner("account", a)
Owners == {Guest(g) : g \in 1..MaxGuests} \cup {Account(a) : a \in 1..MaxAccounts}

\* The schemas of the two fields (contracts account.ts).
isAccountUsername(name) == name \notin Malformed
isAccountPassword(password) == password \notin Malformed

\* A stored hash is of one password under the salt drawn for it.
Hashes == [salt : 1..MaxAccounts, of : Passwords]
hashPassword(password, salt) == [salt |-> salt, of |-> password]
passwordMatches(password, hash) == hashPassword(password, hash.salt) = hash

AccountsInit ==
    /\ accounts = <<>>
    /\ guests = <<>>
    /\ sessions = <<>>
    /\ drafts = [o \in {} |-> 0]
    /\ torn = {}

-----------------------------------------------------------------------------
(* Who a request is.  Each is a set with at most one element.              *)

\* The account of a bearer token, if the token is in the table.
accountBySession(bearer) ==
    {sessions[t] : t \in {t \in DOMAIN sessions : t = bearer}}

readAccount(bearer) == IF bearer = 0 THEN {} ELSE accountBySession(bearer)

\* The guest itself, if it exists, the key is its key, and nobody claimed it.
guestByRecovery(guest, key) ==
    {g \in DOMAIN guests : g = guest /\ key /\ guests[g] = 0}

\* A well-formed bearer token decides alone; the guest headers count only
\* without one.  bearer = 0: no token, or one that is not well formed.
Identity(bearer, guest, key) ==
    IF bearer # 0
      THEN {Account(a) : a \in readAccount(bearer)}
      ELSE {Guest(g) : g \in guestByRecovery(guest, key)}

-----------------------------------------------------------------------------
(* The statements.                                                         *)

HasDraft(o) == o \in DOMAIN drafts

\* A claim that leaves the draft behind: what a missing second UPDATE would do.
MoveDraftNot(g, a) == drafts

\* A draft follows its guest to the account that claims it.
MoveDraft(g, a) ==
    IF HasDraft(Guest(g))
      THEN [o \in (DOMAIN drafts \ {Guest(g)}) \cup {Account(a)} |->
              IF o = Account(a) THEN drafts[Guest(g)] ELSE drafts[o]]
      ELSE drafts

\* Claimable without the check that the guest is still open.
ClaimableAgain(a, guest, key) ==
    /\ guest \in DOMAIN guests
    /\ ~(HasDraft(Guest(guest)) /\ HasDraft(Account(a)))

Claimable(a, guest, key) ==
    /\ guestByRecovery(guest, key) # {}
    /\ ~(HasDraft(Guest(guest)) /\ HasDraft(Account(a)))

claim(a, g) ==
    /\ guests' = [guests EXCEPT ![g] = a]
    /\ drafts' = MoveDraft(g, a)
    /\ UNCHANGED torn

\* The process dies after the first of the two updates.
claimCut(a, g) ==
    /\ HasDraft(Guest(g))
    /\ guests' = [guests EXCEPT ![g] = a]
    /\ torn' = torn \cup {g}
    /\ UNCHANGED drafts

issueSession(a) ==
    /\ Len(sessions) < MaxSessions
    /\ sessions' = Append(sessions, a)

\* The username is unique.
NameIsFree(name) == \A a \in DOMAIN accounts : accounts[a].name # name

InsertAccount(name, password) ==
    /\ Len(accounts) < MaxAccounts
    /\ NameIsFree(name)
    /\ accounts' = Append(accounts, [name |-> name,
                       hash |-> hashPassword(password, Len(accounts) + 1)])

\* INSERT ... ON CONFLICT DO UPDATE; the draft of a guest needs an open guest.
requireOpenGuest(o) == o.kind = "guest" => guests[o.id] = 0

\* The document as the column takes it.
documentJson(doc) == {doc} \ LargeDocs

putDraft(o, doc) ==
    /\ requireOpenGuest(o)
    /\ documentJson(doc) # {}
    /\ drafts' = [p \in DOMAIN drafts \cup {o} |-> IF p = o THEN doc ELSE drafts[p]]

getDraft(o) == {drafts[p] : p \in {p \in {o} : HasDraft(p)}}

mintGuest ==
    /\ Len(guests) < MaxGuests
    /\ guests' = Append(guests, 0)

\* The account row is inserted first.  Without a guest, or when its claim is
\* accepted, a session follows; a refused claim leaves the account and its
\* name taken, without a session.
register(name, password, guest, key) ==
    /\ InsertAccount(name, password)
    /\ LET a == Len(accounts) + 1 IN
         \/ /\ guest = 0
            /\ issueSession(a)
            /\ UNCHANGED <<guests, drafts, torn>>
         \/ /\ guest # 0
            /\ Claimable(a, guest, key)
            /\ claim(a, guest)
            /\ issueSession(a)
         \/ /\ guest # 0
            /\ ~Claimable(a, guest, key)
            /\ UNCHANGED <<guests, sessions, drafts, torn>>

login(name, password) ==
    \E a \in DOMAIN accounts :
      /\ accounts[a].name = name
      /\ passwordMatches(password, accounts[a].hash)
      /\ issueSession(a)

-----------------------------------------------------------------------------
(* The handlers.                                                           *)

MintGuest ==
    /\ mintGuest
    /\ UNCHANGED <<accounts, sessions, drafts, torn>>

Register(name, password, guest, key) ==
    /\ isAccountUsername(name)
    /\ isAccountPassword(password)
    /\ register(name, password, guest, key)

\* The process dies after the account row, or inside the claim, or before the
\* session row.
RegisterCut(name, password, guest, key) ==
    /\ isAccountUsername(name)
    /\ isAccountPassword(password)
    /\ InsertAccount(name, password)
    /\ UNCHANGED sessions
    /\ \/ UNCHANGED <<guests, drafts, torn>>
       \/ LET a == Len(accounts) + 1 IN
            /\ Claimable(a, guest, key)
            /\ claim(a, guest) \/ claimCut(a, guest)

Login(name, password) ==
    /\ login(name, password)
    /\ UNCHANGED <<accounts, guests, drafts, torn>>

Claim(bearer, guest, key) ==
    /\ \E a \in readAccount(bearer) :
         /\ Claimable(a, guest, key)
         /\ claim(a, guest)
    /\ UNCHANGED <<accounts, sessions>>

ClaimCut(bearer, guest, key) ==
    /\ \E a \in readAccount(bearer) :
         /\ Claimable(a, guest, key)
         /\ claimCut(a, guest)
    /\ UNCHANGED <<accounts, sessions>>

\* Why a request has no identity, and what a PUT is refused with.
Refusal(bearer, guest, key) ==
    IF bearer # 0 \/ guest = 0 THEN "session_invalid"
    ELSE IF guest \in DOMAIN guests /\ key THEN "guest_claimed"
    ELSE "guest_not_found"

PutAnswer(bearer, guest, key, doc) ==
    IF Identity(bearer, guest, key) = {} THEN Refusal(bearer, guest, key)
    ELSE IF documentJson(doc) = {} THEN "draft_too_large"
    ELSE "ok"

PutDraft(bearer, guest, key, doc) ==
    /\ PutAnswer(bearer, guest, key, doc) = "ok"
    /\ \E o \in Identity(bearer, guest, key) : putDraft(o, doc)
    /\ UNCHANGED <<accounts, guests, sessions, torn>>

\* GET /drafts: the draft, or why there is none to show.
GetDraft(bearer, guest, key) ==
    LET found == UNION {getDraft(o) : o \in Identity(bearer, guest, key)} IN
    IF Identity(bearer, guest, key) = {} THEN {Refusal(bearer, guest, key)}
    ELSE IF found = {} THEN {"draft_missing"}
    ELSE found

\* GET /accounts/me.
Me(bearer) == {accounts[a].name : a \in readAccount(bearer)}

Bearers == 0..MaxSessions        \* 0 is no token; one above Len is unknown
GuestIds == 0..MaxGuests         \* 0 is no guest id

\* The bodies the schemas let through; a body without the two guest fields
\* has guest 0.
RegisterBodies == [name : Names, password : Passwords, guest : GuestIds, key : BOOLEAN]
LoginBodies == [name : Names, password : Passwords]
ClaimBodies == [guest : GuestIds \ {0}, key : BOOLEAN]
DraftBodies == [document : Docs]

AccountsNext ==
    \/ MintGuest
    \/ \E body \in LoginBodies : Login(body.name, body.password)
    \/ \E body \in RegisterBodies :
         \/ Register(body.name, body.password, body.guest, body.key)
         \/ RegisterCut(body.name, body.password, body.guest, body.key)
    \/ \E bearer \in Bearers :
         \/ \E body \in ClaimBodies :
              \/ Claim(bearer, body.guest, body.key)
              \/ ClaimCut(bearer, body.guest, body.key)
         \/ \E guest \in GuestIds, key \in BOOLEAN, body \in DraftBodies :
              PutDraft(bearer, guest, key, body.document)

AccountsSpec == AccountsInit /\ [][AccountsNext]_accountVars

-----------------------------------------------------------------------------

\* Somebody can read every stored draft: the draft of a guest with the key of
\* that guest, the draft of an account with any session of it, and a session
\* only ever shows its account to itself.  The only draft out of reach is one
\* whose claim died between marking the guest and moving the draft: GET /drafts
\* then refuses the guest, and the account has no draft.
DraftsAreReachable ==
    /\ \A g \in DOMAIN guests :
         HasDraft(Guest(g)) => GetDraft(0, g, TRUE) =
           IF g \in torn THEN {"guest_claimed"} ELSE {drafts[Guest(g)]}
    /\ \A a \in DOMAIN accounts, t \in DOMAIN sessions :
         sessions[t] = a =>
           /\ Me(t) = {accounts[a].name}
           /\ HasDraft(Account(a)) => GetDraft(t, 0, FALSE) = {drafts[Account(a)]}
    /\ \A o \in DOMAIN drafts :
         o.id \in IF o.kind = "guest" THEN DOMAIN guests ELSE DOMAIN accounts

\* A guest is claimed once and for ever, a draft leaves its owner only for the
\* account that claims the guest at that step, unchanged, and it never replaces
\* a draft that account has (CD-13: a claim moves the draft of the guest).
ClaimMovesDrafts ==
    [][ /\ \A g \in DOMAIN guests : guests[g] # 0 => guests'[g] = guests[g]
        /\ \A o \in DOMAIN drafts \ DOMAIN drafts' :
             /\ o.kind = "guest"
             /\ guests[o.id] = 0
             /\ LET heir == Account(guests'[o.id]) IN
                  /\ heir \in DOMAIN drafts' \ DOMAIN drafts
                  /\ drafts'[heir] = drafts[o] ]_accountVars
=============================================================================
