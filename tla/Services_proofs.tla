-------------------------- MODULE Services_proofs ---------------------------
(***************************************************************************)
(* What the smaller services of the control plane promise, for any number  *)
(* of accounts, players, courses, seats and rows.                          *)
(*                                                                         *)
(* Accounts: DraftsAreReachable is not inductive.  It needs the rows that  *)
(* guests, sessions and drafts refer to (ReferencesExist), and that of the *)
(* claimed guests only those of a cut claim have a draft (TornAreClaimed). *)
(*                                                                         *)
(* PlaySpec: every room, launch and waiting row is of one of Specs, to     *)
(* which all bodies resolve (AskedAreSpecs); on those the translations     *)
(* agree (SpecRoundTrips).                                                 *)
(*                                                                         *)
(* Settlement: whatever the game prints after its end is the same final    *)
(* settlement (SettlementInv), so the line that the host happens to read   *)
(* does not matter.  That a final settlement ranks its seats is counted.   *)
(*                                                                         *)
(* Replays: a store finds at most Ring rows of an owner, for the one before*)
(* it trimmed them, so it drops one row at most (RingsAreBounded); which   *)
(* row that is rests on ids that name one row (RowsAreUnique).             *)
(***************************************************************************)
EXTENDS Accounts, PlaySpec, Settlement, Replays,
        FiniteSetTheorems, SequenceTheorems, WellFoundedInduction, TLAPS

-----------------------------------------------------------------------------
(* ACCOUNTS.                                                               *)

\* The rows of the tables, whatever their number.
AccountRows == [name : Names \ Malformed, hash : Hashes]

AccountsTypeOK ==
    /\ accounts \in Seq(AccountRows)
    /\ guests \in Seq(Nat)
    /\ sessions \in Seq(Nat)
    /\ drafts \in [DOMAIN drafts -> Docs \ LargeDocs]

\* Every reference is to a row that exists.
ReferencesExist ==
    /\ \A g \in DOMAIN guests : guests[g] \in 0..Len(accounts)
    /\ \A t \in DOMAIN sessions : sessions[t] \in 1..Len(accounts)
    /\ \A o \in DOMAIN drafts : \/ o \in {Guest(g) : g \in DOMAIN guests}
                                \/ o \in {Account(a) : a \in DOMAIN accounts}

\* A claimed guest has a draft of its own only if its claim was cut.
TornAreClaimed ==
    /\ torn \subseteq {g \in DOMAIN guests : guests[g] # 0}
    /\ \A g \in DOMAIN guests : HasDraft(Guest(g)) /\ guests[g] # 0 => g \in torn

AccountsInv == AccountsTypeOK /\ ReferencesExist /\ TornAreClaimed

-----------------------------------------------------------------------------
(* The statements.                                                         *)

\* Two owners are the same only if they are the same row of the same table.
LEMMA OwnersDiffer ==
    ASSUME NEW x, NEW y
    PROVE  /\ Guest(x) # Account(y)
           /\ Guest(x) = Guest(y) <=> x = y
           /\ Account(x) = Account(y) <=> x = y
           /\ Guest(x).kind = "guest" /\ Guest(x).id = x
           /\ Account(x).kind = "account" /\ Account(x).id = x
<1>1. [kind |-> "guest", id |-> x].id = x /\ [kind |-> "guest", id |-> y].id = y
  OBVIOUS
<1>2. [kind |-> "account", id |-> x].id = x /\ [kind |-> "account", id |-> y].id = y
  OBVIOUS
<1>3. [kind |-> "guest", id |-> x].kind # [kind |-> "account", id |-> y].kind
  OBVIOUS
<1> QED BY <1>1, <1>2, <1>3 DEF Guest, Account, Owner

\* A registration appends one row of the table.
LEMMA InsertAccountAppends ==
    ASSUME accounts \in Seq(AccountRows), NEW name \in Names \ Malformed,
           NEW password \in Passwords, InsertAccount(name, password)
    PROVE  /\ accounts' \in Seq(AccountRows)
           /\ Len(accounts') = Len(accounts) + 1
           /\ \A a \in DOMAIN accounts : accounts'[a] = accounts[a]
<1> DEFINE row == [name |-> name, hash |-> hashPassword(password, Len(accounts) + 1)]
<1>1. Len(accounts) \in Nat /\ Len(accounts) < MaxAccounts
  BY LenProperties DEF InsertAccount
<1>2. row \in AccountRows
  BY <1>1, AccountBounds DEF AccountRows, Hashes, hashPassword
<1>3. accounts' = Append(accounts, row)
  BY DEF InsertAccount
<1> HIDE DEF row
<1> QED BY <1>2, <1>3, AppendProperties, LenProperties

\* What a claim does, for an account that is there after the step.
LEMMA ClaimKeeps ==
    ASSUME AccountsInv, NEW a, NEW g, NEW key, Claimable(a, g, key), claim(a, g),
           Len(accounts') \in Nat, Len(accounts) <= Len(accounts'),
           DOMAIN accounts' = 1..Len(accounts'), a \in 1..Len(accounts'),
           accounts' \in Seq(AccountRows),
           sessions' \in Seq(Nat),
           \A t \in DOMAIN sessions' : sessions'[t] \in 1..Len(accounts')
    PROVE  AccountsInv'
<1> USE DEF AccountsInv, AccountsTypeOK
<1>0. /\ DOMAIN accounts = 1..Len(accounts) /\ Len(accounts) \in Nat
      /\ DOMAIN accounts \subseteq DOMAIN accounts'
  <2>1. DOMAIN accounts = 1..Len(accounts) /\ Len(accounts) \in Nat
    BY LenProperties
  <2> QED BY <2>1
<1>1. g \in DOMAIN guests /\ guests[g] = 0
  BY DEF Claimable, guestByRecovery
<1>2. /\ guests' \in Seq(Nat)
      /\ DOMAIN guests' = DOMAIN guests
      /\ guests'[g] = a
      /\ \A h \in DOMAIN guests : h # g => guests'[h] = guests[h]
  <2>1. guests' = [guests EXCEPT ![g] = a] /\ a \in Nat /\ guests \in Seq(Nat)
    BY DEF claim
  <2>2. g \in 1..Len(guests)
    BY <1>1, LenProperties
  <2> QED BY <1>1, <2>1, <2>2, ExceptSeq
<1>3. CASE HasDraft(Guest(g))
  <2>1. drafts' = [o \in (DOMAIN drafts \ {Guest(g)}) \cup {Account(a)} |->
                     IF o = Account(a) THEN drafts[Guest(g)] ELSE drafts[o]]
    BY <1>3 DEF claim, MoveDraft
  <2>2. DOMAIN drafts' = (DOMAIN drafts \ {Guest(g)}) \cup {Account(a)}
    BY <2>1
  <2>3. drafts' \in [DOMAIN drafts' -> Docs \ LargeDocs]
    BY <1>3, <2>1, <2>2 DEF HasDraft
  <2>4. ReferencesExist'
    <3>1. \A h \in DOMAIN guests' : guests'[h] \in 0..Len(accounts')
      BY <1>0, <1>2 DEF ReferencesExist
    <3>2. \A o \in DOMAIN drafts' : \/ o \in {Guest(h) : h \in DOMAIN guests'}
                                    \/ o \in {Account(b) : b \in DOMAIN accounts'}
      <4>1. \A o \in DOMAIN drafts : \/ o \in {Guest(h) : h \in DOMAIN guests'}
                                     \/ o \in {Account(b) : b \in DOMAIN accounts'}
        BY <1>0, <1>2 DEF ReferencesExist
      <4>2. Account(a) \in {Account(b) : b \in DOMAIN accounts'}
        BY <1>0
      <4> QED BY <2>2, <4>1, <4>2
    <3> QED BY <3>1, <3>2 DEF ReferencesExist
  <2>5. TornAreClaimed'
    <3>1. torn' = torn /\ a # 0
      BY DEF claim
    <3>2. torn' \subseteq {h \in DOMAIN guests' : guests'[h] # 0}
      BY <1>1, <1>2, <3>1 DEF TornAreClaimed
    <3>3. ASSUME NEW h \in DOMAIN guests', HasDraft(Guest(h))', guests'[h] # 0
          PROVE  h \in torn'
      <4>1. Guest(h) # Account(a) /\ (Guest(h) = Guest(g) => h = g)
        BY OwnersDiffer
      <4>2. Guest(h) \in DOMAIN drafts /\ h # g
        BY <2>2, <3>3, <4>1 DEF HasDraft
      <4> QED BY <1>2, <3>1, <3>3, <4>2 DEF TornAreClaimed, HasDraft
    <3> QED BY <3>2, <3>3 DEF TornAreClaimed
  <2> QED BY <1>2, <2>3, <2>4, <2>5
<1>4. CASE ~HasDraft(Guest(g))
  <2>1. drafts' = drafts /\ torn' = torn /\ a # 0
    BY <1>4 DEF claim, MoveDraft
  <2>2. ReferencesExist'
    <3>1. \A h \in DOMAIN guests' : guests'[h] \in 0..Len(accounts')
      BY <1>0, <1>2 DEF ReferencesExist
    <3>2. \A o \in DOMAIN drafts' : \/ o \in {Guest(h) : h \in DOMAIN guests'}
                                    \/ o \in {Account(b) : b \in DOMAIN accounts'}
      BY <1>0, <1>2, <2>1 DEF ReferencesExist
    <3> QED BY <3>1, <3>2 DEF ReferencesExist
  <2>3. TornAreClaimed'
    BY <1>1, <1>2, <1>4, <2>1 DEF TornAreClaimed, HasDraft
  <2> QED BY <1>2, <2>1, <2>2, <2>3
<1> QED BY <1>3, <1>4

\* What a claim does that dies between its two updates.
LEMMA ClaimCutKeeps ==
    ASSUME AccountsInv, NEW a, NEW g, NEW key, Claimable(a, g, key), claimCut(a, g),
           Len(accounts') \in Nat, Len(accounts) <= Len(accounts'),
           DOMAIN accounts' = 1..Len(accounts'), a \in 1..Len(accounts'),
           accounts' \in Seq(AccountRows),
           sessions' \in Seq(Nat),
           \A t \in DOMAIN sessions' : sessions'[t] \in 1..Len(accounts')
    PROVE  AccountsInv'
<1> USE DEF AccountsInv, AccountsTypeOK
<1>0. /\ DOMAIN accounts = 1..Len(accounts) /\ Len(accounts) \in Nat
      /\ DOMAIN accounts \subseteq DOMAIN accounts'
  <2>1. DOMAIN accounts = 1..Len(accounts) /\ Len(accounts) \in Nat
    BY LenProperties
  <2> QED BY <2>1
<1>1. g \in DOMAIN guests /\ guests[g] = 0
  BY DEF Claimable, guestByRecovery
<1>2. /\ guests' \in Seq(Nat)
      /\ DOMAIN guests' = DOMAIN guests
      /\ guests'[g] = a
      /\ \A h \in DOMAIN guests : h # g => guests'[h] = guests[h]
  <2>1. guests' = [guests EXCEPT ![g] = a] /\ a \in Nat /\ guests \in Seq(Nat)
    BY DEF claimCut
  <2>2. g \in 1..Len(guests)
    BY <1>1, LenProperties
  <2> QED BY <1>1, <2>1, <2>2, ExceptSeq
<1>3. drafts' = drafts /\ torn' = torn \cup {g} /\ a # 0
  BY DEF claimCut
<1>4. ReferencesExist'
  <2>1. \A h \in DOMAIN guests' : guests'[h] \in 0..Len(accounts')
    BY <1>0, <1>2 DEF ReferencesExist
  <2>2. \A o \in DOMAIN drafts' : \/ o \in {Guest(h) : h \in DOMAIN guests'}
                                  \/ o \in {Account(b) : b \in DOMAIN accounts'}
    BY <1>0, <1>2, <1>3 DEF ReferencesExist
  <2> QED BY <2>1, <2>2 DEF ReferencesExist
<1>5. TornAreClaimed'
  BY <1>1, <1>2, <1>3 DEF TornAreClaimed, HasDraft
<1> QED BY <1>2, <1>3, <1>4, <1>5

\* A session is issued to an account of the table.
LEMMA IssueSessionAppends ==
    ASSUME AccountsInv, NEW a, issueSession(a),
           Len(accounts') \in Nat, Len(accounts) <= Len(accounts'),
           a \in 1..Len(accounts')
    PROVE  /\ sessions' \in Seq(Nat)
           /\ \A t \in DOMAIN sessions' : sessions'[t] \in 1..Len(accounts')
<1>1. a \in Nat /\ sessions' = Append(sessions, a) /\ sessions \in Seq(Nat)
  BY DEF issueSession, AccountsInv, AccountsTypeOK
<1>2. /\ sessions' \in Seq(Nat)
      /\ Len(sessions') = Len(sessions) + 1
      /\ \A t \in 1..Len(sessions) : sessions'[t] = sessions[t]
      /\ sessions'[Len(sessions) + 1] = a
  BY <1>1, AppendProperties
<1>3. /\ DOMAIN sessions' = 1..Len(sessions')
      /\ DOMAIN sessions = 1..Len(sessions) /\ Len(sessions) \in Nat
  BY <1>1, <1>2, LenProperties
<1>4. Len(accounts) \in Nat
  BY LenProperties DEF AccountsInv, AccountsTypeOK
<1> QED BY <1>2, <1>3, <1>4 DEF AccountsInv, ReferencesExist

\* A table that grows, or stays, keeps the references into it.
LEMMA NothingElseMoves ==
    ASSUME AccountsInv, UNCHANGED <<guests, drafts, torn>>,
           Len(accounts') \in Nat, Len(accounts) <= Len(accounts'),
           DOMAIN accounts' = 1..Len(accounts'),
           accounts' \in Seq(AccountRows),
           sessions' \in Seq(Nat),
           \A t \in DOMAIN sessions' : sessions'[t] \in 1..Len(accounts')
    PROVE  AccountsInv'
<1>1. DOMAIN accounts = 1..Len(accounts) /\ Len(accounts) \in Nat
  BY LenProperties DEF AccountsInv, AccountsTypeOK
<1>2. ReferencesExist'
  BY <1>1 DEF AccountsInv, ReferencesExist
<1>3. TornAreClaimed'
  BY DEF AccountsInv, TornAreClaimed, HasDraft
<1> QED BY <1>2, <1>3 DEF AccountsInv, AccountsTypeOK
-----------------------------------------------------------------------------
(* The handlers.                                                           *)

LEMMA MintGuestKeeps == AccountsInv /\ MintGuest => AccountsInv'
<1> SUFFICES ASSUME AccountsInv, MintGuest PROVE AccountsInv'
  OBVIOUS
<1> USE DEF AccountsInv, AccountsTypeOK
<1>1. guests' = Append(guests, 0) /\ UNCHANGED <<accounts, sessions, drafts, torn>>
  BY DEF MintGuest, mintGuest
<1>2. /\ guests' \in Seq(Nat)
      /\ DOMAIN guests' = 1..Len(guests) + 1 /\ DOMAIN guests = 1..Len(guests)
      /\ Len(guests) \in Nat
      /\ \A g \in DOMAIN guests : guests'[g] = guests[g]
      /\ guests'[Len(guests) + 1] = 0
  BY <1>1, AppendProperties, LenProperties
<1>3. Len(accounts) \in Nat /\ Len(accounts') = Len(accounts)
  BY <1>1, LenProperties
<1>4. \A g \in DOMAIN guests' : g \in DOMAIN guests \/ guests'[g] = 0
  BY <1>2
<1>5. ReferencesExist'
  <2>1. \A g \in DOMAIN guests' : guests'[g] \in 0..Len(accounts')
    <3> SUFFICES ASSUME NEW g \in DOMAIN guests' PROVE guests'[g] \in 0..Len(accounts)
      BY <1>1
    <3>1. CASE g \in DOMAIN guests
      BY <1>2, <3>1 DEF ReferencesExist
    <3>2. CASE guests'[g] = 0
      BY <1>3, <3>2
    <3> QED BY <1>4, <3>1, <3>2
  <2>2. DOMAIN guests \subseteq DOMAIN guests'
    BY <1>2
  <2> QED BY <1>1, <2>1, <2>2 DEF ReferencesExist
<1>6. TornAreClaimed'
  BY <1>1, <1>2, <1>4 DEF TornAreClaimed, HasDraft
<1> QED BY <1>1, <1>2, <1>5, <1>6

LEMMA LoginKeeps ==
    ASSUME AccountsInv, NEW body \in LoginBodies, Login(body.name, body.password)
    PROVE  AccountsInv'
<1>1. PICK a \in DOMAIN accounts : issueSession(a)
  BY DEF Login, login
<1>2. /\ UNCHANGED <<accounts, guests, drafts, torn>>
      /\ accounts \in Seq(AccountRows)
  BY DEF Login, AccountsInv, AccountsTypeOK
<1>3. DOMAIN accounts = 1..Len(accounts) /\ Len(accounts) \in Nat
  BY <1>2, LenProperties
<1>4. /\ sessions' \in Seq(Nat)
      /\ \A t \in DOMAIN sessions' : sessions'[t] \in 1..Len(accounts')
  BY <1>1, <1>2, <1>3, IssueSessionAppends
<1> QED BY <1>2, <1>3, <1>4, NothingElseMoves

LEMMA RegisterKeeps ==
    ASSUME AccountsInv, NEW body \in RegisterBodies,
           \/ Register(body.name, body.password, body.guest, body.key)
           \/ RegisterCut(body.name, body.password, body.guest, body.key)
    PROVE  AccountsInv'
<1> DEFINE a == Len(accounts) + 1
<1>1. /\ body.name \in Names \ Malformed /\ body.password \in Passwords
      /\ InsertAccount(body.name, body.password)
  BY DEF RegisterBodies, Register, RegisterCut, register, isAccountUsername
<1>2. accounts \in Seq(AccountRows) /\ sessions \in Seq(Nat)
  BY DEF AccountsInv, AccountsTypeOK
<1>3. accounts' \in Seq(AccountRows) /\ Len(accounts') = Len(accounts) + 1
  BY <1>1, <1>2, InsertAccountAppends
<1>4. /\ Len(accounts) \in Nat /\ Len(accounts') \in Nat
      /\ Len(accounts) <= Len(accounts') /\ a \in 1..Len(accounts')
      /\ DOMAIN accounts' = 1..Len(accounts')
  BY <1>2, <1>3, LenProperties
<1>5. ASSUME sessions' = sessions
      PROVE  /\ sessions' \in Seq(Nat)
             /\ \A t \in DOMAIN sessions' : sessions'[t] \in 1..Len(accounts')
  BY <1>2, <1>3, <1>4, <1>5 DEF AccountsInv, ReferencesExist
<1>6. ASSUME issueSession(a)
      PROVE  /\ sessions' \in Seq(Nat)
             /\ \A t \in DOMAIN sessions' : sessions'[t] \in 1..Len(accounts')
  <2> HIDE DEF a
  <2> QED BY <1>4, <1>6, IssueSessionAppends
<1>7. CASE /\ issueSession(a) \/ UNCHANGED sessions
           /\ UNCHANGED <<guests, drafts, torn>>
  BY <1>3, <1>4, <1>5, <1>6, <1>7, NothingElseMoves
<1>8. CASE /\ issueSession(a) \/ UNCHANGED sessions
           /\ Claimable(a, body.guest, body.key)
           /\ claim(a, body.guest)
  <2> HIDE DEF a
  <2> QED BY <1>3, <1>4, <1>5, <1>6, <1>8, ClaimKeeps
<1>9. CASE /\ UNCHANGED sessions
           /\ Claimable(a, body.guest, body.key)
           /\ claimCut(a, body.guest)
  <2> HIDE DEF a
  <2> QED BY <1>3, <1>4, <1>5, <1>9, ClaimCutKeeps
<1> QED BY <1>7, <1>8, <1>9 DEF Register, RegisterCut, register

LEMMA ClaimHandlerKeeps ==
    ASSUME AccountsInv, NEW bearer, NEW body \in ClaimBodies,
           \/ Claim(bearer, body.guest, body.key)
           \/ ClaimCut(bearer, body.guest, body.key)
    PROVE  AccountsInv'
<1>1. PICK a \in readAccount(bearer) :
        /\ Claimable(a, body.guest, body.key)
        /\ claim(a, body.guest) \/ claimCut(a, body.guest)
  BY DEF Claim, ClaimCut
<1>2. /\ UNCHANGED <<accounts, sessions>>
      /\ accounts \in Seq(AccountRows) /\ sessions \in Seq(Nat)
  BY DEF Claim, ClaimCut, AccountsInv, AccountsTypeOK
<1>3. DOMAIN accounts = 1..Len(accounts) /\ Len(accounts) \in Nat
  BY <1>2, LenProperties
<1>4. a \in 1..Len(accounts)
  BY <1>1 DEF readAccount, accountBySession, AccountsInv, ReferencesExist
<1>5. \A t \in DOMAIN sessions' : sessions'[t] \in 1..Len(accounts')
  BY <1>2 DEF AccountsInv, ReferencesExist
<1> QED BY <1>1, <1>2, <1>3, <1>4, <1>5, ClaimKeeps, ClaimCutKeeps

\* A draft that is stored has an owner with a row.
LEMMA IdentityIsKnown ==
    ASSUME AccountsInv, NEW bearer, NEW guest, NEW key,
           NEW o \in Identity(bearer, guest, key)
    PROVE  \/ \E g \in DOMAIN guests : o = Guest(g) /\ guests[g] = 0
           \/ \E a \in DOMAIN accounts : o = Account(a)
<1>1. DOMAIN accounts = 1..Len(accounts)
  BY LenProperties DEF AccountsInv, AccountsTypeOK
<1> QED BY <1>1 DEF Identity, readAccount, accountBySession, guestByRecovery,
                    AccountsInv, ReferencesExist

LEMMA PutDraftKeeps ==
    ASSUME AccountsInv, NEW bearer, NEW guest, NEW key, NEW body \in DraftBodies,
           PutDraft(bearer, guest, key, body.document)
    PROVE  AccountsInv'
<1> DEFINE doc == body.document
<1>1. PICK o \in Identity(bearer, guest, key) : putDraft(o, doc)
  BY DEF PutDraft
<1>2. UNCHANGED <<accounts, guests, sessions, torn>>
  BY DEF PutDraft
<1>3. doc \in Docs \ LargeDocs
  BY <1>1 DEF putDraft, documentJson, DraftBodies
<1>4. /\ drafts' = [p \in DOMAIN drafts \cup {o} |-> IF p = o THEN doc ELSE drafts[p]]
      /\ DOMAIN drafts' = DOMAIN drafts \cup {o}
  BY <1>1 DEF putDraft
<1> HIDE DEF doc
<1>5. drafts' \in [DOMAIN drafts' -> Docs \ LargeDocs]
  BY <1>3, <1>4 DEF AccountsInv, AccountsTypeOK
<1>6. \/ \E g \in DOMAIN guests : o = Guest(g) /\ guests[g] = 0
      \/ \E a \in DOMAIN accounts : o = Account(a)
  BY IdentityIsKnown
<1>7. ReferencesExist'
  BY <1>2, <1>4, <1>6 DEF AccountsInv, ReferencesExist
<1>8. TornAreClaimed'
  <2>1. ASSUME NEW g \in DOMAIN guests, Guest(g) = o PROVE guests[g] = 0
    BY <1>6, <2>1, OwnersDiffer
  <2> QED BY <1>2, <1>4, <2>1 DEF AccountsInv, TornAreClaimed, HasDraft
<1> QED BY <1>2, <1>5, <1>7, <1>8 DEF AccountsInv, AccountsTypeOK

LEMMA AccountsInitInv == AccountsInit => AccountsInv
<1> SUFFICES ASSUME AccountsInit PROVE AccountsInv
  OBVIOUS
<1>1. /\ accounts = <<>> /\ guests = <<>> /\ sessions = <<>>
      /\ torn = {} /\ drafts = [o \in {} |-> 0]
  BY DEF AccountsInit
<1>2. DOMAIN drafts = {} /\ DOMAIN guests = {} /\ DOMAIN sessions = {}
  BY <1>1
<1>3. accounts \in Seq(AccountRows) /\ guests \in Seq(Nat) /\ sessions \in Seq(Nat)
  BY <1>1, EmptySeq
<1>4. drafts \in [DOMAIN drafts -> Docs \ LargeDocs]
  BY <1>1, <1>2
<1> QED BY <1>1, <1>2, <1>3, <1>4
        DEF AccountsInv, AccountsTypeOK, ReferencesExist, TornAreClaimed

LEMMA AccountsNextInv == AccountsInv /\ [AccountsNext]_accountVars => AccountsInv'
<1> SUFFICES ASSUME AccountsInv, [AccountsNext]_accountVars PROVE AccountsInv'
  OBVIOUS
<1>1. CASE MintGuest
  BY <1>1, MintGuestKeeps
<1>2. CASE \E body \in LoginBodies : Login(body.name, body.password)
  BY <1>2, LoginKeeps
<1>3. CASE \E body \in RegisterBodies :
             \/ Register(body.name, body.password, body.guest, body.key)
             \/ RegisterCut(body.name, body.password, body.guest, body.key)
  BY <1>3, RegisterKeeps
<1>4. CASE \E bearer \in Bearers, body \in ClaimBodies :
             \/ Claim(bearer, body.guest, body.key)
             \/ ClaimCut(bearer, body.guest, body.key)
  BY <1>4, ClaimHandlerKeeps
<1>5. CASE \E bearer \in Bearers, guest \in GuestIds, key \in BOOLEAN,
              body \in DraftBodies : PutDraft(bearer, guest, key, body.document)
  BY <1>5, PutDraftKeeps
<1>6. CASE UNCHANGED accountVars
  BY <1>6 DEF accountVars, AccountsInv, AccountsTypeOK, ReferencesExist,
              TornAreClaimed, HasDraft
<1> QED BY <1>1, <1>2, <1>3, <1>4, <1>5, <1>6 DEF AccountsNext

-----------------------------------------------------------------------------

\* The tables are well typed and refer to rows that exist, and a claimed guest
\* keeps a draft only after a cut claim.
THEOREM AccountsInvariant == AccountsSpec => []AccountsInv
<1> QED BY AccountsInitInv, AccountsNextInv, PTL DEF AccountsSpec

LEMMA InvReaches == AccountsInv => DraftsAreReachable
<1> SUFFICES ASSUME AccountsInv PROVE DraftsAreReachable
  OBVIOUS
<1>0. /\ DOMAIN guests = 1..Len(guests) /\ Len(guests) \in Nat
      /\ DOMAIN sessions = 1..Len(sessions) /\ Len(sessions) \in Nat
      /\ DOMAIN accounts = 1..Len(accounts) /\ Len(accounts) \in Nat
  BY LenProperties DEF AccountsInv, AccountsTypeOK
<1>1. ASSUME NEW g \in DOMAIN guests, HasDraft(Guest(g))
      PROVE  GetDraft(0, g, TRUE) =
               IF g \in torn THEN {"guest_claimed"} ELSE {drafts[Guest(g)]}
  <2>1. g # 0
    BY <1>0
  <2>2. CASE g \in torn
    <3>1. guests[g] # 0
      BY <2>2 DEF AccountsInv, TornAreClaimed
    <3>2. Identity(0, g, TRUE) = {}
      BY <3>1 DEF Identity, guestByRecovery
    <3>3. Refusal(0, g, TRUE) = "guest_claimed"
      BY <2>1 DEF Refusal
    <3> QED BY <2>2, <3>2, <3>3 DEF GetDraft
  <2>3. CASE g \notin torn
    <3>1. guests[g] = 0
      BY <1>1, <2>3 DEF AccountsInv, TornAreClaimed
    <3>2. guestByRecovery(g, TRUE) = {g}
      BY <3>1 DEF guestByRecovery
    <3>3. Identity(0, g, TRUE) = {Guest(g)}
      BY <3>2 DEF Identity
    <3>4. getDraft(Guest(g)) = {drafts[Guest(g)]}
      BY <1>1 DEF getDraft
    <3>5. UNION {getDraft(o) : o \in Identity(0, g, TRUE)} = {drafts[Guest(g)]}
      BY <3>3, <3>4
    <3> QED BY <2>3, <3>3, <3>5 DEF GetDraft
  <2> QED BY <2>2, <2>3
<1>2. ASSUME NEW a \in DOMAIN accounts, NEW t \in DOMAIN sessions, sessions[t] = a
      PROVE  /\ Me(t) = {accounts[a].name}
             /\ HasDraft(Account(a)) => GetDraft(t, 0, FALSE) = {drafts[Account(a)]}
  <2>1. t # 0
    BY <1>0
  <2>2. readAccount(t) = {a}
    BY <1>2, <2>1 DEF readAccount, accountBySession
  <2>3. Identity(t, 0, FALSE) = {Account(a)}
    BY <2>1, <2>2 DEF Identity
  <2>4. ASSUME HasDraft(Account(a)) PROVE GetDraft(t, 0, FALSE) = {drafts[Account(a)]}
    <3>1. getDraft(Account(a)) = {drafts[Account(a)]}
      BY <2>4 DEF getDraft
    <3>2. UNION {getDraft(o) : o \in Identity(t, 0, FALSE)} = {drafts[Account(a)]}
      BY <2>3, <3>1
    <3> QED BY <2>3, <3>2 DEF GetDraft
  <2> QED BY <2>2, <2>4 DEF Me
<1>3. ASSUME NEW o \in DOMAIN drafts
      PROVE  o.id \in IF o.kind = "guest" THEN DOMAIN guests ELSE DOMAIN accounts
  <2>1. CASE \E g \in DOMAIN guests : o = Guest(g)
    BY <2>1, OwnersDiffer
  <2>2. CASE \E a \in DOMAIN accounts : o = Account(a)
    BY <2>2, OwnersDiffer
  <2> QED BY <2>1, <2>2 DEF AccountsInv, ReferencesExist
<1> QED BY <1>1, <1>2, <1>3 DEF DraftsAreReachable

\* Every draft can be read by its owner, whatever is cut.
THEOREM DraftsStayReachable == AccountsSpec => []DraftsAreReachable
<1> QED BY AccountsInvariant, InvReaches, PTL

-----------------------------------------------------------------------------

\* The moves of one step, as ClaimMovesDrafts states them.
Moves ==
    /\ \A g \in DOMAIN guests : guests[g] # 0 => guests'[g] = guests[g]
    /\ \A o \in DOMAIN drafts \ DOMAIN drafts' :
         /\ o.kind = "guest"
         /\ guests[o.id] = 0
         /\ LET heir == Account(guests'[o.id]) IN
              /\ heir \in DOMAIN drafts' \ DOMAIN drafts
              /\ drafts'[heir] = drafts[o]

\* A claim that is let through moves the draft of its guest, if there is one.
LEMMA ClaimMoves ==
    ASSUME AccountsInv, NEW a, NEW g, NEW key, Claimable(a, g, key),
           claim(a, g) \/ claimCut(a, g)
    PROVE  Moves
<1>1. g \in DOMAIN guests /\ guests[g] = 0
  BY DEF Claimable, guestByRecovery
<1>2. guests' = [guests EXCEPT ![g] = a]
  BY DEF claim, claimCut
<1>3. \A h \in DOMAIN guests : guests[h] # 0 => guests'[h] = guests[h]
  BY <1>1, <1>2
<1>4. guests'[g] = a
  <2>1. guests \in [DOMAIN guests -> Nat]
    BY LenProperties, SeqDef DEF AccountsInv, AccountsTypeOK
  <2> QED BY <1>1, <1>2, <2>1
<1>5. ASSUME NEW o \in DOMAIN drafts, o \notin DOMAIN drafts'
      PROVE  /\ o = Guest(g)
             /\ Account(a) \in DOMAIN drafts' \ DOMAIN drafts
             /\ drafts'[Account(a)] = drafts[o]
  <2>1. HasDraft(Guest(g)) /\ claim(a, g)
    BY <1>5 DEF claim, claimCut, MoveDraft
  <2>2. drafts' = [p \in (DOMAIN drafts \ {Guest(g)}) \cup {Account(a)} |->
                     IF p = Account(a) THEN drafts[Guest(g)] ELSE drafts[p]]
    BY <2>1 DEF claim, MoveDraft
  <2>3. ~HasDraft(Account(a))
    BY <2>1 DEF Claimable
  <2> QED BY <1>5, <2>2, <2>3 DEF HasDraft
<1> QED BY <1>1, <1>3, <1>4, <1>5, OwnersDiffer DEF Moves

LEMMA StepsMove == AccountsInv /\ AccountsNext => Moves
<1> SUFFICES ASSUME AccountsInv, AccountsNext PROVE Moves
  OBVIOUS
<1>1. CASE MintGuest
  <2>1. guests \in Seq(Nat) /\ guests' = Append(guests, 0) /\ drafts' = drafts
    BY <1>1 DEF MintGuest, mintGuest, AccountsInv, AccountsTypeOK
  <2>2. \A g \in DOMAIN guests : guests'[g] = guests[g]
    BY <2>1, AppendProperties, LenProperties
  <2> QED BY <2>1, <2>2 DEF Moves
<1>2. CASE UNCHANGED <<guests, drafts>>
  BY <1>2 DEF Moves
<1>3. CASE \E a, g, key : /\ Claimable(a, g, key)
                          /\ claim(a, g) \/ claimCut(a, g)
  BY <1>3, ClaimMoves
<1>4. CASE \E bearer \in Bearers, guest \in GuestIds, key \in BOOLEAN,
              body \in DraftBodies : PutDraft(bearer, guest, key, body.document)
  <2>1. guests' = guests /\ DOMAIN drafts \subseteq DOMAIN drafts'
    BY <1>4 DEF PutDraft, putDraft
  <2> QED BY <2>1 DEF Moves
<1>5. ASSUME NEW body \in RegisterBodies,
             \/ Register(body.name, body.password, body.guest, body.key)
             \/ RegisterCut(body.name, body.password, body.guest, body.key)
      PROVE  Moves
  BY <1>2, <1>3, <1>5 DEF Register, RegisterCut, register
<1> QED BY <1>1, <1>2, <1>3, <1>4, <1>5 DEF AccountsNext, Login, Claim, ClaimCut

\* A guest is claimed once, and a draft leaves it only for its new account.
THEOREM ClaimsMoveDrafts == AccountsSpec => ClaimMovesDrafts
<1>1. AccountsInv /\ [AccountsNext]_accountVars => [Moves]_accountVars
  BY StepsMove
<1> QED BY <1>1, AccountsInvariant, PTL DEF AccountsSpec, ClaimMovesDrafts, Moves

-----------------------------------------------------------------------------
(* PLAY SPECIFICATIONS.                                                    *)

\* What a body that resolves asks for: an official course, an official
\* blueprint or a stored version, with a number of seats the game takes.
OfficialSpecs == {Official(c, n) : c \in Courses, n \in 1..MaxSeats}
BlueprintSpecs == {Blueprint(b, BastionSeats) : b \in Blueprints}
StoredContents == {c \in Stored : ~isReservedMatchContentId(c[1]) /\ c[2] \in Nat \ {0}}
ContentSpecs == {Content(c, n) : c \in StoredContents, n \in 1..MaxSeats}
Specs == OfficialSpecs \cup BlueprintSpecs \cup ContentSpecs

LEMMA NoOfficialIdIsReserved ==
    /\ \A c \in Courses : c # NoCourse /\ c # Absent /\ c # Null
    /\ \A b \in Blueprints : b # NoCourse /\ b # Absent /\ b # Null
BY PlayAssumption

LEMMA AskedAreSpecs == Asked \subseteq Specs
<1> SUFFICES ASSUME NEW body \in Bodies, NEW spec \in resolveMatchSpec(body)
             PROVE  spec \in Specs
  BY DEF Asked
<1> DEFINE seats == SeatsOf(body)
<1>1. /\ WellFormed(body)
      /\ spec \in readMatchBody(body)
      /\ spec.kind = "content" => spec.game \in Stored
  BY DEF resolveMatchSpec, readMatchBody
<1>2. seats \in 1..MaxSeats
  BY <1>1 DEF WellFormed
<1>3. CASE body.blueprint # Absent \/ body.gameplay = "bastion"
  <2>1. spec \in BlueprintSpecs
    BY <1>1, <1>3 DEF readMatchBody, BlueprintSpecs, BastionSeats
  <2> QED BY <2>1 DEF Specs
<1>4. CASE /\ ~(body.blueprint # Absent \/ body.gameplay = "bastion")
           /\ body.content # NoContent
  <2>1. PICK c \in readMatchContentRef(body.content) : spec = Content(c, seats)
    BY <1>1, <1>4 DEF readMatchBody
  <2>2. c = body.content /\ ~isReservedMatchContentId(c[1])
    BY <2>1 DEF readMatchContentRef
  <2>3. c[2] \in Nat \ {0}
    <3>1. body.content \in (ContentIds \cup {DefaultCourse}) \X (0..2)
      BY <1>4 DEF Bodies
    <3>2. c[2] \in 0..2 /\ c[2] >= 1
      BY <2>1, <2>2, <3>1 DEF readMatchContentRef
    <3> QED BY <3>2
  <2>4. spec.kind = "content" /\ spec.game = c
    BY <2>1 DEF Content
  <2>5. c \in StoredContents
    BY <1>1, <2>2, <2>3, <2>4 DEF StoredContents
  <2> HIDE DEF seats
  <2> QED BY <1>2, <2>1, <2>5 DEF Specs, ContentSpecs
<1>5. CASE /\ ~(body.blueprint # Absent \/ body.gameplay = "bastion")
           /\ body.content = NoContent
  <2>1. spec \in OfficialSpecs
    <3>1. PICK c \in Courses : spec = Official(c, seats)
      BY <1>1, <1>5 DEF readMatchBody
    <3> HIDE DEF seats
    <3> QED BY <1>2, <3>1 DEF OfficialSpecs
  <2> QED BY <2>1 DEF Specs
<1> QED BY <1>3, <1>4, <1>5

\* The three kinds, one lemma each: what every translation makes of it.
LEMMA StoredIsNoId ==
    ASSUME NEW c \in StoredContents, NEW x
    PROVE  /\ c # <<x, 0>>
           /\ c # NoContent
           /\ c \in Stored
           /\ readMatchContentRef(c) = {c}
<1>1. c[2] # 0 /\ c[2] >= 1 /\ c \in Stored /\ ~isReservedMatchContentId(c[1])
  BY DEF StoredContents
<1>2. c # <<x, 0>> /\ c # NoContent
  BY <1>1 DEF NoContent
<1> QED BY <1>1, <1>2 DEF readMatchContentRef

LEMMA OneSelector ==
    ASSUME NEW body, NEW f, Selectors(body) = {f}
    PROVE  Cardinality(Selectors(body)) <= 1
<1>1. Cardinality({f}) = 1
  BY FS_Singleton
<1> QED BY <1>1

LEMMA OfficialRoundTrips ==
    ASSUME NEW c \in Courses, NEW n \in 1..MaxSeats, NEW spec, spec = Official(c, n)
    PROVE  /\ playSpecFromQueue(enqueueSpec(spec)) = spec
           /\ readMatchBody(LaunchPayload(spec)) = {spec}
           /\ waitingFromQueue(enqueueSpec(spec)) = waitingFromSpec(spec)
           /\ toWire(StartedMatch(spec)) = waitingFromSpec(spec)
           /\ {bootConfig(buildArgs(l)) : l \in resolveLaunch(spec)} = {{Needs(spec)}}
           /\ insertMatchSession(Registration(spec)) = GameColumns(spec)
<1>1. /\ spec.kind = "official" /\ spec.game = <<c, 0>> /\ spec.game[1] = c
      /\ spec.seats = n /\ n # 0 /\ n \in Nat
  <2>1. n \in Nat /\ n # 0
    BY PlayAssumption
  <2> QED BY <2>1 DEF Official
<1>2. c # NoCourse /\ c # Absent /\ c # Null /\ Null \notin Blueprints
  BY NoOfficialIdIsReserved
<1>3. GameColumns(spec) = [course |-> c, gameplay |-> "traprush", blueprint |-> Null,
                           content |-> <<Null, 0>>, seats |-> n]
  BY <1>1 DEF GameColumns
<1>4. queueFromRow(enqueueSpec(spec)) = GameColumns(spec)
  <2>1. /\ courseFromRow(c) = c /\ gameplayFromRow("traprush") = "traprush"
        /\ blueprintFromRow(Null) = Null
    BY <1>2 DEF courseFromRow, gameplayFromRow, blueprintFromRow
  <2> QED BY <1>3, <2>1 DEF enqueueSpec, queueFromRow
<1>5. ~HasContent(GameColumns(spec)) /\ ~IsBastion(GameColumns(spec))
  BY <1>3 DEF HasContent, IsBastion
<1>6. playSpecFromQueue(enqueueSpec(spec)) = spec
  BY <1>2, <1>3, <1>4, <1>5 DEF playSpecFromQueue
<1>7. waitingFromQueue(enqueueSpec(spec)) = waitingFromSpec(spec)
  BY <1>1, <1>3, <1>4, <1>5 DEF waitingFromQueue, waitingFromSpec
<1>8. readMatchBody(LaunchPayload(spec)) = {spec}
  <2> DEFINE body == LaunchPayload(spec)
  <2>1. body = [course |-> c, blueprint |-> Absent, content |-> NoContent,
                gameplay |-> Absent, seats |-> n]
    BY <1>1 DEF LaunchPayload
  <2> HIDE DEF body
  <2>2. SeatsOf(body) = n
    BY <1>1, <2>1 DEF SeatsOf
  <2>3. Selectors(body) = {"course"}
    <3>1. {f \in {"course", "blueprint"} : body[f] # Absent} = {"course"}
      BY <1>2, <2>1
    <3>2. {f \in {"content"} : body[f] # NoContent} = {}
      BY <1>2, <2>1
    <3> QED BY <3>1, <3>2 DEF Selectors
  <2>4. WellFormed(body)
    BY <2>1, <2>2, <2>3, OneSelector DEF WellFormed, Absent
  <2>5. readMatchBody(body) = {Official(d, n) : d \in {d \in Courses : d = c}}
    BY <1>2, <2>1, <2>2, <2>4 DEF readMatchBody, Absent
  <2> QED BY <2>5 DEF body
<1>9. toWire(StartedMatch(spec)) = waitingFromSpec(spec)
  BY <1>1 DEF toWire, StartedMatch, waitingFromSpec
<1>10. {bootConfig(buildArgs(l)) : l \in resolveLaunch(spec)} = {{Needs(spec)}}
  <2> DEFINE l == [course |-> <<c, 0>>, envelope |-> NoContent,
                   gameplay |-> Absent, players |-> n]
             args == [players |-> n, gameplay |-> Absent, envelope |-> NoContent,
                      course |-> <<c, 0>>]
  <2>1. resolveLaunch(spec) = {l}
    BY <1>1 DEF resolveLaunch, officialPath
  <2>2. <<c, 0>> # NoContent
    BY <1>2 DEF NoContent
  <2>3. buildArgs(l) = args
    BY <2>2 DEF buildArgs, Absent
  <2>4. bootConfig(args) = {[level |-> <<c, 0>>, gameplay |-> "traprush", players |-> n]}
    BY <2>2 DEF bootConfig
  <2>5. Needs(spec) = [level |-> <<c, 0>>, gameplay |-> "traprush", players |-> n]
    BY <1>1 DEF Needs
  <2> HIDE DEF l, args
  <2> QED BY <2>1, <2>3, <2>4, <2>5
<1>11. insertMatchSession(Registration(spec)) = GameColumns(spec)
  <2>1. Registration(spec) = [course |-> c, blueprint |-> Absent, content |-> NoContent,
                              gameplay |-> Absent, seats |-> n]
    BY <1>1 DEF Registration
  <2> QED BY <1>2, <2>1 DEF insertMatchSession, Absent
<1> QED BY <1>6, <1>7, <1>8, <1>9, <1>10, <1>11

LEMMA BlueprintRoundTrips ==
    ASSUME NEW b \in Blueprints, NEW spec, spec = Blueprint(b, BastionSeats)
    PROVE  /\ playSpecFromQueue(enqueueSpec(spec)) = spec
           /\ readMatchBody(LaunchPayload(spec)) = {spec}
           /\ waitingFromQueue(enqueueSpec(spec)) = waitingFromSpec(spec)
           /\ toWire(StartedMatch(spec)) = waitingFromSpec(spec)
           /\ {bootConfig(buildArgs(l)) : l \in resolveLaunch(spec)} = {{Needs(spec)}}
           /\ insertMatchSession(Registration(spec)) = GameColumns(spec)
<1> DEFINE n == 2
<1>0. BastionSeats = n /\ MaxSeats \in 2..8
  BY PlayAssumption DEF BastionSeats
<1>1. /\ spec.kind = "blueprint" /\ spec.game = <<b, 0>> /\ spec.game[1] = b
      /\ spec.seats = n
  BY <1>0 DEF Blueprint
<1>2. /\ b # NoCourse /\ b # Absent /\ b # Null
      /\ NoCourse \notin Courses
  BY NoOfficialIdIsReserved
<1>3. GameColumns(spec) = [course |-> NoCourse, gameplay |-> "bastion", blueprint |-> b,
                           content |-> <<Null, 0>>, seats |-> n]
  BY <1>1 DEF GameColumns
<1>4. queueFromRow(enqueueSpec(spec)) =
        [course |-> Null, gameplay |-> "bastion", blueprint |-> b,
         content |-> <<Null, 0>>, seats |-> n]
  <2>1. /\ courseFromRow(NoCourse) = Null /\ gameplayFromRow("bastion") = "bastion"
        /\ blueprintFromRow(b) = b
    BY <1>2 DEF courseFromRow, gameplayFromRow, blueprintFromRow
  <2> QED BY <1>3, <2>1 DEF enqueueSpec, queueFromRow
<1>5. /\ ~HasContent(queueFromRow(enqueueSpec(spec)))
      /\ IsBastion(queueFromRow(enqueueSpec(spec)))
  BY <1>2, <1>4 DEF HasContent, IsBastion
<1>6. playSpecFromQueue(enqueueSpec(spec)) = spec
  BY <1>0, <1>4, <1>5 DEF playSpecFromQueue
<1>7. waitingFromQueue(enqueueSpec(spec)) = waitingFromSpec(spec)
  BY <1>1, <1>4, <1>5 DEF waitingFromQueue, waitingFromSpec
<1>8. readMatchBody(LaunchPayload(spec)) = {spec}
  <2> DEFINE body == LaunchPayload(spec)
  <2>1. body = [course |-> Absent, blueprint |-> b, content |-> NoContent,
                gameplay |-> "bastion", seats |-> n]
    BY <1>1 DEF LaunchPayload
  <2> HIDE DEF body
  <2>2. SeatsOf(body) = n
    BY <1>1, <2>1 DEF SeatsOf
  <2>3. Selectors(body) = {"blueprint"}
    <3>1. {f \in {"course", "blueprint"} : body[f] # Absent} = {"blueprint"}
      BY <1>2, <2>1
    <3>2. {f \in {"content"} : body[f] # NoContent} = {}
      BY <1>2, <2>1
    <3> QED BY <3>1, <3>2 DEF Selectors
  <2>4. WellFormed(body)
    <3>1. SeatsOf(body) \in 1..MaxSeats
      BY <1>0, <2>2
    <3>2. Cardinality(Selectors(body)) <= 1
      BY <2>3, OneSelector
    <3> QED BY <2>1, <2>3, <3>1, <3>2 DEF WellFormed
  <2>5. readMatchBody(body) =
          {Blueprint(d, n) : d \in {d \in Blueprints : n = BastionSeats /\ d = b}}
    BY <1>2, <2>1, <2>2, <2>4 DEF readMatchBody
  <2> QED BY <1>0, <2>5 DEF body
<1>9. toWire(StartedMatch(spec)) = waitingFromSpec(spec)
  BY <1>1, <1>2 DEF toWire, StartedMatch, waitingFromSpec
<1>10. {bootConfig(buildArgs(l)) : l \in resolveLaunch(spec)} = {{Needs(spec)}}
  <2> DEFINE l == [course |-> <<b, 0>>, envelope |-> NoContent,
                   gameplay |-> "bastion", players |-> n]
             args == [players |-> n, gameplay |-> "bastion", envelope |-> NoContent,
                      course |-> <<b, 0>>]
  <2>1. resolveLaunch(spec) = {l}
    BY <1>1 DEF resolveLaunch, officialPath
  <2>2. <<b, 0>> # NoContent
    BY <1>2 DEF NoContent
  <2>3. buildArgs(l) = args
    BY <2>2 DEF buildArgs
  <2>4. bootConfig(args) = {[level |-> <<b, 0>>, gameplay |-> "bastion", players |-> n]}
    BY <1>0 DEF bootConfig, Absent
  <2>5. Needs(spec) = [level |-> <<b, 0>>, gameplay |-> "bastion", players |-> n]
    BY <1>1 DEF Needs
  <2> HIDE DEF l, args
  <2> QED BY <2>1, <2>3, <2>4, <2>5
<1>11. insertMatchSession(Registration(spec)) = GameColumns(spec)
  <2>1. Registration(spec) = [course |-> Absent, blueprint |-> b, content |-> NoContent,
                              gameplay |-> "bastion", seats |-> n]
    BY <1>1 DEF Registration
  <2> QED BY <1>0, <1>2, <2>1 DEF insertMatchSession
<1> QED BY <1>6, <1>7, <1>8, <1>9, <1>10, <1>11

LEMMA ContentRoundTrips ==
    ASSUME NEW c \in StoredContents, NEW n \in 1..MaxSeats, NEW spec, spec = Content(c, n)
    PROVE  /\ playSpecFromQueue(enqueueSpec(spec)) = spec
           /\ readMatchBody(LaunchPayload(spec)) = {spec}
           /\ waitingFromQueue(enqueueSpec(spec)) = waitingFromSpec(spec)
           /\ toWire(StartedMatch(spec)) = waitingFromSpec(spec)
           /\ {bootConfig(buildArgs(l)) : l \in resolveLaunch(spec)} = {{Needs(spec)}}
           /\ insertMatchSession(Registration(spec)) = GameColumns(spec)
<1>1. /\ spec.kind = "content" /\ spec.game = c
      /\ spec.seats = n /\ n # 0 /\ n \in Nat
  <2>1. n \in Nat /\ n # 0
    BY PlayAssumption
  <2> QED BY <2>1 DEF Content
<1>2. /\ c # <<Null, 0>> /\ c # NoContent
      /\ NoCourse \notin Courses /\ Null \notin Blueprints
  BY StoredIsNoId, NoOfficialIdIsReserved
<1>3. GameColumns(spec) = [course |-> NoCourse, gameplay |-> "traprush", blueprint |-> Null,
                           content |-> c, seats |-> n]
  BY <1>1 DEF GameColumns
<1>4. queueFromRow(enqueueSpec(spec)) =
        [course |-> Null, gameplay |-> "traprush", blueprint |-> Null,
         content |-> c, seats |-> n]
  <2>1. /\ courseFromRow(NoCourse) = Null /\ gameplayFromRow("traprush") = "traprush"
        /\ blueprintFromRow(Null) = Null
    BY <1>2 DEF courseFromRow, gameplayFromRow, blueprintFromRow
  <2> QED BY <1>3, <2>1 DEF enqueueSpec, queueFromRow
<1>5. /\ HasContent(queueFromRow(enqueueSpec(spec)))
      /\ ~IsBastion(queueFromRow(enqueueSpec(spec)))
  BY <1>2, <1>4 DEF HasContent, IsBastion
<1>6. playSpecFromQueue(enqueueSpec(spec)) = spec
  BY <1>4, <1>5 DEF playSpecFromQueue
<1>7. waitingFromQueue(enqueueSpec(spec)) = waitingFromSpec(spec)
  BY <1>1, <1>4, <1>5 DEF waitingFromQueue, waitingFromSpec
<1>8. readMatchBody(LaunchPayload(spec)) = {spec}
  <2> DEFINE body == LaunchPayload(spec)
  <2>1. body = [course |-> Absent, blueprint |-> Absent, content |-> c,
                gameplay |-> Absent, seats |-> n]
    BY <1>1 DEF LaunchPayload
  <2> HIDE DEF body
  <2>2. SeatsOf(body) = n
    BY <1>1, <2>1 DEF SeatsOf
  <2>3. Selectors(body) = {"content"}
    <3>1. {f \in {"course", "blueprint"} : body[f] # Absent} = {}
      BY <1>2, <2>1
    <3>2. {f \in {"content"} : body[f] # NoContent} = {"content"}
      BY <1>2, <2>1
    <3> QED BY <3>1, <3>2 DEF Selectors
  <2>4. WellFormed(body)
    BY <2>1, <2>2, <2>3, OneSelector DEF WellFormed, Absent
  <2>5. readMatchBody(body) = {Content(d, n) : d \in readMatchContentRef(c)}
    BY <1>2, <2>1, <2>2, <2>4 DEF readMatchBody, Absent
  <2>6. readMatchContentRef(c) = {c}
    BY StoredIsNoId
  <2> QED BY <2>5, <2>6 DEF body
<1>9. toWire(StartedMatch(spec)) = waitingFromSpec(spec)
  BY <1>1, <1>2 DEF toWire, StartedMatch, waitingFromSpec
<1>10. {bootConfig(buildArgs(l)) : l \in resolveLaunch(spec)} = {{Needs(spec)}}
  <2> DEFINE l == [course |-> NoContent, envelope |-> c,
                   gameplay |-> Absent, players |-> n]
             args == [players |-> n, gameplay |-> Absent, envelope |-> c,
                      course |-> NoContent]
  <2>1. resolveLaunch(spec) = {l}
    <3>1. {e \in Stored : e = c} = {c}
      BY StoredIsNoId
    <3> QED BY <1>1, <3>1 DEF resolveLaunch
  <2>2. buildArgs(l) = args
    BY <1>2 DEF buildArgs, Absent
  <2>3. bootConfig(args) = {[level |-> c, gameplay |-> "traprush", players |-> n]}
    BY <1>2 DEF bootConfig
  <2>4. Needs(spec) = [level |-> c, gameplay |-> "traprush", players |-> n]
    BY <1>1 DEF Needs
  <2> HIDE DEF l, args
  <2> QED BY <2>1, <2>2, <2>3, <2>4
<1>11. insertMatchSession(Registration(spec)) = GameColumns(spec)
  <2>1. Registration(spec) = [course |-> Absent, blueprint |-> Absent, content |-> c,
                              gameplay |-> Absent, seats |-> n]
    BY <1>1 DEF Registration
  <2> QED BY <1>2, <2>1 DEF insertMatchSession
<1> QED BY <1>6, <1>7, <1>8, <1>9, <1>10, <1>11

LEMMA SpecRoundTrips ==
    ASSUME NEW spec \in Specs
    PROVE  /\ playSpecFromQueue(enqueueSpec(spec)) = spec
           /\ readMatchBody(LaunchPayload(spec)) = {spec}
           /\ waitingFromQueue(enqueueSpec(spec)) = waitingFromSpec(spec)
           /\ toWire(StartedMatch(spec)) = waitingFromSpec(spec)
           /\ {bootConfig(buildArgs(l)) : l \in resolveLaunch(spec)} = {{Needs(spec)}}
           /\ insertMatchSession(Registration(spec)) = GameColumns(spec)
<1>1. CASE spec \in OfficialSpecs
  <2>1. PICK c \in Courses, n \in 1..MaxSeats : spec = Official(c, n)
    BY <1>1 DEF OfficialSpecs
  <2> QED BY <2>1, OfficialRoundTrips
<1>2. CASE spec \in BlueprintSpecs
  <2>1. PICK b \in Blueprints : spec = Blueprint(b, BastionSeats)
    BY <1>2 DEF BlueprintSpecs
  <2> QED BY <2>1, BlueprintRoundTrips
<1>3. CASE spec \in ContentSpecs
  <2>1. PICK c \in StoredContents, n \in 1..MaxSeats : spec = Content(c, n)
    BY <1>3 DEF ContentSpecs
  <2> QED BY <2>1, ContentRoundTrips
<1> QED BY <1>1, <1>2, <1>3 DEF Specs

\* Every translation keeps the specification, for every table of courses,
\* blueprints and stored versions.
THEOREM TranslationsAgree == RoundTrips
BY AskedAreSpecs, SpecRoundTrips DEF RoundTrips

-----------------------------------------------------------------------------
(* The invariant: everything on its way can be played.                     *)

\* The room of a specification: its columns and its process.
RoomOf(spec) ==
    [course |-> GameColumns(spec).course, gameplay |-> GameColumns(spec).gameplay,
     blueprint |-> GameColumns(spec).blueprint, content |-> GameColumns(spec).content,
     seats |-> GameColumns(spec).seats, process |-> Needs(spec)]

PlayInv ==
    /\ waiting \subseteq {enqueueSpec(spec) : spec \in Specs}
    /\ launches \subseteq {LaunchPayload(spec) : spec \in Specs}
    /\ rooms \subseteq {RoomOf(spec) : spec \in Specs}

LEMMA PlayInitInv == PlayInit => PlayInv
BY DEF PlayInit, PlayInv

LEMMA DrainKeeps ==
    ASSUME PlayInv, NEW row \in waiting, Drain(row)
    PROVE  PlayInv'
<1>1. PICK spec \in Specs : row = enqueueSpec(spec)
  BY DEF PlayInv
<1>2. playSpecFromQueue(row) = spec
  BY <1>1, SpecRoundTrips
<1>3. launches' \subseteq launches \cup {LaunchPayload(spec)}
  BY <1>2 DEF Drain
<1> QED BY <1>3 DEF Drain, PlayInv

LEMMA StartKeeps ==
    ASSUME PlayInv, NEW payload \in launches, Start(payload)
    PROVE  PlayInv'
<1>1. PICK spec \in Specs : payload = LaunchPayload(spec)
  BY DEF PlayInv
<1>2. readMatchBody(payload) = {spec}
  BY <1>1, SpecRoundTrips
<1> DEFINE processes == UNION {bootConfig(buildArgs(l)) : l \in resolveLaunch(spec)}
<1>3. PICK process \in processes :
        rooms' = rooms \cup
          {[course |-> row.course, gameplay |-> row.gameplay,
            blueprint |-> row.blueprint, content |-> row.content,
            seats |-> row.seats, process |-> process] :
              row \in {insertMatchSession(Registration(spec))}}
  BY <1>2 DEF Start
<1>4. process = Needs(spec)
  BY SpecRoundTrips
<1>5. insertMatchSession(Registration(spec)) = GameColumns(spec)
  BY SpecRoundTrips
<1>6. rooms' = rooms \cup {RoomOf(spec)}
  BY <1>3, <1>4, <1>5 DEF RoomOf
<1> QED BY <1>6 DEF Start, PlayInv

LEMMA PlayNextInv == PlayInv /\ [PlayNext]_playVars => PlayInv'
<1> SUFFICES ASSUME PlayInv, [PlayNext]_playVars PROVE PlayInv'
  OBVIOUS
<1>1. ASSUME NEW spec \in Asked, Ask(spec) PROVE PlayInv'
  BY <1>1, AskedAreSpecs DEF Ask, PlayInv
<1>2. ASSUME NEW room \in rooms, Closed(room) PROVE PlayInv'
  BY <1>2 DEF Closed, PlayInv
<1>3. CASE UNCHANGED playVars
  BY <1>3 DEF playVars, PlayInv
<1> QED BY <1>1, <1>2, <1>3, DrainKeeps, StartKeeps DEF PlayNext

\* Whatever waits, is launched or is open is of a course, blueprint or stored
\* version that there is, with a number of seats its game takes.
THEOREM EverythingIsPlayable == PlaySpecification => []PlayInv
<1> QED BY PlayInitInv, PlayNextInv, PTL DEF PlaySpecification

-----------------------------------------------------------------------------
(* The rooms of a specification.                                           *)

\* What the columns of a room say, kind by kind.
LEMMA RoomColumns ==
    ASSUME NEW spec
    PROVE  LET r == RoomOf(spec) IN
           /\ r.course = IF spec.kind = "official" THEN spec.game[1] ELSE NoCourse
           /\ r.gameplay = IF spec.kind = "blueprint" THEN "bastion" ELSE "traprush"
           /\ r.blueprint = IF spec.kind = "blueprint" THEN spec.game[1] ELSE Null
           /\ r.content = IF spec.kind = "content" THEN spec.game ELSE <<Null, 0>>
           /\ r.seats = spec.seats
           /\ r.process = Needs(spec)
BY DEF RoomOf, GameColumns

\* What there is to know of a specification.
LEMMA SpecFields ==
    ASSUME NEW spec \in Specs
    PROVE  \/ \E c \in Courses, n \in 1..MaxSeats :
                spec = [kind |-> "official", game |-> <<c, 0>>, seats |-> n]
           \/ \E b \in Blueprints :
                spec = [kind |-> "blueprint", game |-> <<b, 0>>, seats |-> BastionSeats]
           \/ \E c \in StoredContents, n \in 1..MaxSeats :
                spec = [kind |-> "content", game |-> c, seats |-> n]
BY DEF Specs, OfficialSpecs, BlueprintSpecs, ContentSpecs, Official, Blueprint, Content

\* No two specifications need the same process.
LEMMA NeedsDiffer ==
    ASSUME NEW spec \in Specs, NEW other \in Specs, Needs(spec) = Needs(other)
    PROVE  spec = other
<1>1. /\ spec.game = other.game /\ spec.seats = other.seats
      /\ spec.kind = "blueprint" <=> other.kind = "blueprint"
  BY DEF Needs
<1>2. ASSUME NEW s \in Specs
      PROVE  s = [kind |-> s.kind, game |-> s.game, seats |-> s.seats]
  BY SpecFields
<1>3. ASSUME NEW s \in Specs
      PROVE  /\ s.kind \in {"official", "blueprint", "content"}
             /\ s.kind = "content" <=> s.game[2] # 0
  <2>1. ASSUME NEW c \in StoredContents PROVE c[2] # 0
    BY DEF StoredContents
  <2> QED BY <2>1, SpecFields
<1>4. spec.kind = other.kind
  BY <1>1, <1>3
<1> QED BY <1>1, <1>2, <1>4

\* The rooms a query finds are those of the specification.
Found(spec, r) ==
    CASE spec.kind = "content"   -> /\ r.gameplay = "traprush" /\ r.content = spec.game
                                    /\ r.seats = spec.seats
      [] spec.kind = "blueprint" -> /\ r.gameplay = "bastion"
                                    /\ r.blueprint = spec.game[1]
                                    /\ r.seats = spec.seats /\ ~HasContent(r)
      [] spec.kind = "official"  -> /\ r.gameplay = "traprush"
                                    /\ r.course = spec.game[1]
                                    /\ r.seats = spec.seats

LEMMA FoundIsSame ==
    ASSUME NEW spec \in Specs, NEW other \in Specs
    PROVE  Found(spec, RoomOf(other)) <=> spec = other
<1> DEFINE r == RoomOf(other)
<1>1. /\ r.course = IF other.kind = "official" THEN other.game[1] ELSE NoCourse
      /\ r.gameplay = IF other.kind = "blueprint" THEN "bastion" ELSE "traprush"
      /\ r.blueprint = IF other.kind = "blueprint" THEN other.game[1] ELSE Null
      /\ r.content = IF other.kind = "content" THEN other.game ELSE <<Null, 0>>
      /\ r.seats = other.seats
  BY RoomColumns
<1> HIDE DEF r
<1>2. CASE \E c \in Courses, n \in 1..MaxSeats :
             spec = [kind |-> "official", game |-> <<c, 0>>, seats |-> n]
  <2>1. PICK c \in Courses, n \in 1..MaxSeats :
               spec = [kind |-> "official", game |-> <<c, 0>>, seats |-> n]
    BY <1>2
  <2>2. c # NoCourse
    BY NoOfficialIdIsReserved
  <2>3. Found(spec, r) <=> r.gameplay = "traprush" /\ r.course = c /\ r.seats = n
    BY <2>1 DEF Found
  <2>4. CASE other.kind = "official"
    <3>1. PICK d \in Courses, m \in 1..MaxSeats :
                 other = [kind |-> "official", game |-> <<d, 0>>, seats |-> m]
      BY <2>4, SpecFields
    <3>2. Found(spec, r) <=> d = c /\ m = n
      BY <1>1, <2>3, <3>1
    <3> QED BY <2>1, <3>1, <3>2 DEF r
  <2>5. CASE other.kind # "official"
    BY <1>1, <2>1, <2>2, <2>3, <2>5 DEF r
  <2> QED BY <2>4, <2>5
<1>3. CASE \E b \in Blueprints :
             spec = [kind |-> "blueprint", game |-> <<b, 0>>, seats |-> BastionSeats]
  <2>1. PICK b \in Blueprints :
               spec = [kind |-> "blueprint", game |-> <<b, 0>>, seats |-> BastionSeats]
    BY <1>3
  <2>2. Found(spec, r) <=> /\ r.gameplay = "bastion" /\ r.blueprint = b
                           /\ r.seats = BastionSeats /\ ~HasContent(r)
    BY <2>1 DEF Found
  <2>4. CASE other.kind = "blueprint"
    <3>1. PICK d \in Blueprints :
             other = [kind |-> "blueprint", game |-> <<d, 0>>, seats |-> BastionSeats]
      BY <2>4, SpecFields
    <3>2. ~HasContent(r)
      BY <1>1, <2>4 DEF HasContent
    <3>3. Found(spec, r) <=> d = b
      BY <1>1, <2>2, <3>1, <3>2
    <3> QED BY <2>1, <3>1, <3>3 DEF r
  <2>5. CASE other.kind # "blueprint"
    BY <1>1, <2>1, <2>2, <2>5 DEF r
  <2> QED BY <2>4, <2>5
<1>4. CASE \E c \in StoredContents, n \in 1..MaxSeats :
             spec = [kind |-> "content", game |-> c, seats |-> n]
  <2>1. PICK c \in StoredContents, n \in 1..MaxSeats :
               spec = [kind |-> "content", game |-> c, seats |-> n]
    BY <1>4
  <2>2. c # <<Null, 0>>
    BY StoredIsNoId
  <2>3. Found(spec, r) <=> r.gameplay = "traprush" /\ r.content = c /\ r.seats = n
    BY <2>1 DEF Found
  <2>4. CASE other.kind = "content"
    <3>1. PICK d \in StoredContents, m \in 1..MaxSeats :
                 other = [kind |-> "content", game |-> d, seats |-> m]
      BY <2>4, SpecFields
    <3>2. Found(spec, r) <=> d = c /\ m = n
      BY <1>1, <2>3, <3>1
    <3> QED BY <2>1, <3>1, <3>2 DEF r
  <2>5. CASE other.kind # "content"
    BY <1>1, <2>1, <2>2, <2>3, <2>5 DEF r
  <2> QED BY <2>4, <2>5
<1> QED BY <1>2, <1>3, <1>4, SpecFields DEF r

LEMMA FoundAreTheRooms ==
    ASSUME PlayInv, NEW spec \in Specs
    PROVE  /\ {r \in rooms : Found(spec, r)} = {r \in rooms : r.process = Needs(spec)}
           /\ \A r \in rooms : Found(spec, r) => r = RoomOf(spec)
<1> SUFFICES ASSUME NEW r \in rooms
             PROVE  /\ Found(spec, r) <=> r.process = Needs(spec)
                    /\ Found(spec, r) => r = RoomOf(spec)
  OBVIOUS
<1>1. PICK other \in Specs : r = RoomOf(other)
  BY DEF PlayInv
<1>2. r.process = Needs(other)
  BY <1>1, RoomColumns
<1>3. r.process = Needs(spec) <=> spec = other
  BY <1>2, NeedsDiffer
<1> QED BY <1>1, <1>3, FoundIsSame

LEMMA FindOpenForSpecFinds ==
    ASSUME NEW spec \in Specs
    PROVE  findOpenForSpec(spec) = {r \in rooms : Found(spec, r)}
<1>1. CASE spec.kind = "official"
  BY <1>1 DEF findOpenForSpec, findOldestOpenRoom, Found
<1>2. CASE spec.kind = "blueprint"
  BY <1>2 DEF findOpenForSpec, findOldestOpenBlueprintRoom, Found
<1>3. CASE spec.kind = "content"
  BY <1>3 DEF findOpenForSpec, findOldestOpenContentRoom, Found
<1>4. spec.kind \in {"official", "blueprint", "content"}
  BY SpecFields
<1> QED BY <1>1, <1>2, <1>3, <1>4

\* A waiting row is served by the query of its specification.
LEMMA FindOpenForWaiterFinds ==
    ASSUME NEW spec \in Specs
    PROVE  findOpenForWaiter(enqueueSpec(spec)) = findOpenForSpec(spec)
<1> DEFINE q == queueFromRow(enqueueSpec(spec))
<1>1. /\ q.course = courseFromRow(GameColumns(spec).course)
      /\ q.gameplay = gameplayFromRow(GameColumns(spec).gameplay)
      /\ q.blueprint = blueprintFromRow(GameColumns(spec).blueprint)
      /\ q.content = GameColumns(spec).content
      /\ q.seats = GameColumns(spec).seats
  BY DEF queueFromRow, enqueueSpec
<1>2. findOpenForWaiter(enqueueSpec(spec)) =
        IF HasContent(q) THEN findOldestOpenContentRoom(q.content, q.seats)
        ELSE IF IsBastion(q) THEN findOldestOpenBlueprintRoom(q.blueprint, q.seats)
        ELSE IF q.course = Null THEN {}
        ELSE findOldestOpenRoom(q.course, q.seats)
  BY DEF findOpenForWaiter
<1> HIDE DEF q
<1>3. CASE \E c \in Courses, n \in 1..MaxSeats :
             spec = [kind |-> "official", game |-> <<c, 0>>, seats |-> n]
  <2>1. PICK c \in Courses, n \in 1..MaxSeats :
               spec = [kind |-> "official", game |-> <<c, 0>>, seats |-> n]
    BY <1>3
  <2>2. c # Null /\ Null \notin Blueprints
    BY NoOfficialIdIsReserved
  <2>3. /\ q.course = c /\ q.gameplay = "traprush" /\ q.content = <<Null, 0>>
        /\ q.seats = n
    <3>1. /\ GameColumns(spec).course = c /\ GameColumns(spec).gameplay = "traprush"
          /\ GameColumns(spec).content = <<Null, 0>> /\ GameColumns(spec).seats = n
      BY <2>1 DEF GameColumns
    <3>2. courseFromRow(c) = c /\ gameplayFromRow("traprush") = "traprush"
      BY DEF courseFromRow, gameplayFromRow
    <3> QED BY <1>1, <3>1, <3>2
  <2>4. ~HasContent(q) /\ ~IsBastion(q)
    BY <2>3 DEF HasContent, IsBastion
  <2>5. findOpenForSpec(spec) = findOldestOpenRoom(c, n)
    BY <2>1 DEF findOpenForSpec
  <2> QED BY <1>2, <2>2, <2>3, <2>4, <2>5
<1>4. CASE \E b \in Blueprints :
             spec = [kind |-> "blueprint", game |-> <<b, 0>>, seats |-> BastionSeats]
  <2>1. PICK b \in Blueprints :
               spec = [kind |-> "blueprint", game |-> <<b, 0>>, seats |-> BastionSeats]
    BY <1>4
  <2>2. b # Null
    BY NoOfficialIdIsReserved
  <2>3. /\ q.gameplay = "bastion" /\ q.blueprint = b /\ q.content = <<Null, 0>>
        /\ q.seats = BastionSeats
    <3>1. /\ GameColumns(spec).blueprint = b /\ GameColumns(spec).gameplay = "bastion"
          /\ GameColumns(spec).content = <<Null, 0>>
          /\ GameColumns(spec).seats = BastionSeats
      BY <2>1 DEF GameColumns
    <3>2. blueprintFromRow(b) = b /\ gameplayFromRow("bastion") = "bastion"
      BY DEF blueprintFromRow, gameplayFromRow
    <3> QED BY <1>1, <3>1, <3>2
  <2>4. ~HasContent(q) /\ IsBastion(q)
    BY <2>2, <2>3 DEF HasContent, IsBastion
  <2>5. findOpenForSpec(spec) = findOldestOpenBlueprintRoom(b, BastionSeats)
    BY <2>1 DEF findOpenForSpec
  <2> QED BY <1>2, <2>3, <2>4, <2>5
<1>5. CASE \E c \in StoredContents, n \in 1..MaxSeats :
             spec = [kind |-> "content", game |-> c, seats |-> n]
  <2>1. PICK c \in StoredContents, n \in 1..MaxSeats :
               spec = [kind |-> "content", game |-> c, seats |-> n]
    BY <1>5
  <2>2. c # <<Null, 0>>
    BY StoredIsNoId
  <2>3. q.content = c /\ q.seats = n
    <3>1. GameColumns(spec).content = c /\ GameColumns(spec).seats = n
      BY <2>1 DEF GameColumns
    <3> QED BY <1>1, <3>1
  <2>4. HasContent(q)
    BY <2>2, <2>3 DEF HasContent
  <2>5. findOpenForSpec(spec) = findOldestOpenContentRoom(c, n)
    BY <2>1 DEF findOpenForSpec
  <2> QED BY <1>2, <2>3, <2>4, <2>5
<1> QED BY <1>3, <1>4, <1>5, SpecFields

\* The answer with the ticket is the answer the player waited with.
LEMMA JoinTellsTheSame ==
    ASSUME NEW spec \in Specs
    PROVE  joinFields(RoomOf(spec)) = waitingFromSpec(spec)
<1>1. queueFromRow(RoomOf(spec)) = queueFromRow(enqueueSpec(spec))
  BY DEF queueFromRow, enqueueSpec, RoomOf
<1>2. joinFields(RoomOf(spec)) = waitingFromQueue(enqueueSpec(spec))
  BY <1>1 DEF joinFields, sessionFromRow, withSessionContent, waitingFromQueue
<1> QED BY <1>2, SpecRoundTrips

LEMMA InvMeets == PlayInv => PlayersMeetTheirGame
<1> SUFFICES ASSUME PlayInv PROVE PlayersMeetTheirGame
  OBVIOUS
<1>1. ASSUME NEW spec \in Specs
      PROVE  /\ findOpenForSpec(spec) = {r \in rooms : r.process = Needs(spec)}
             /\ \A r \in findOpenForSpec(spec) : joinFields(r) = waitingFromSpec(spec)
  <2>1. findOpenForSpec(spec) = {r \in rooms : Found(spec, r)}
    BY FindOpenForSpecFinds
  <2>2. \A r \in findOpenForSpec(spec) : r = RoomOf(spec)
    BY <2>1, FoundAreTheRooms
  <2> QED BY <2>1, <2>2, FoundAreTheRooms, JoinTellsTheSame
<1>2. ASSUME NEW row \in waiting
      PROVE  /\ findOpenForWaiter(row) =
                  {r \in rooms : r.process = Needs(playSpecFromQueue(row))}
             /\ \A r \in findOpenForWaiter(row) : joinFields(r) = waitingFromQueue(row)
  <2>1. PICK spec \in Specs : row = enqueueSpec(spec)
    BY DEF PlayInv
  <2>2. /\ playSpecFromQueue(row) = spec
        /\ waitingFromQueue(row) = waitingFromSpec(spec)
        /\ findOpenForWaiter(row) = findOpenForSpec(spec)
    BY <2>1, SpecRoundTrips, FindOpenForWaiterFinds
  <2> QED BY <1>1, <2>2
<1> QED BY <1>1, <1>2, AskedAreSpecs DEF PlayersMeetTheirGame

\* A player is only sent to a room that runs the game asked for, whatever
\* courses, blueprints and versions there are.
THEOREM PlayersAreSentToTheirGame == PlaySpecification => []PlayersMeetTheirGame
<1> QED BY EverythingIsPlayable, InvMeets, PTL

-----------------------------------------------------------------------------
(* SETTLEMENTS.                                                            *)

(* The game.                                                               *)

\* The game is well formed: a tick, and for every seat -1 or a tick.
GameTypeOK ==
    /\ gameplay \in {"traprush", "bastion"}
    /\ tick \in Nat
    /\ \E seats \in 1..MaxRacers : finish \in [0..seats - 1 -> Nat \cup {-1}]
    /\ result \in {"none", "draw", "a", "b"}

LEMMA SeatsAreFinite ==
    ASSUME GameTypeOK
    PROVE  /\ IsFiniteSet(DOMAIN finish)
           /\ Cardinality(DOMAIN finish) \in 1..8
           /\ DOMAIN finish \subseteq 0..7
           /\ \A s \in DOMAIN finish : s \in Nat /\ finish[s] \in Int
<1>1. PICK seats \in 1..MaxRacers : finish \in [0..seats - 1 -> Nat \cup {-1}]
  BY DEF GameTypeOK
<1>2. seats \in 1..8 /\ DOMAIN finish = 0..seats - 1
  BY <1>1, SettlementAssumption
<1>3. IsFiniteSet(0..seats - 1) /\ Cardinality(0..seats - 1) = seats
  BY <1>2, FS_Interval
<1> QED BY <1>1, <1>2, <1>3

\* Before orders the seats: strictly, and every two of them.
LEMMA BeforeOrders ==
    ASSUME GameTypeOK, NEW s \in DOMAIN finish, NEW t \in DOMAIN finish
    PROVE  /\ ~Before(s, s)
           /\ s # t => Before(s, t) \/ Before(t, s)
           /\ ~(Before(s, t) /\ Before(t, s))
           /\ \A u \in DOMAIN finish : Before(u, s) /\ Before(s, t) => Before(u, t)
BY SeatsAreFinite DEF Before

\* The sort has a result: the seat with p - 1 seats before it takes place p.
LEMMA RankingExists ==
    ASSUME GameTypeOK
    PROVE  \E order \in [1..Cardinality(DOMAIN finish) -> DOMAIN finish] :
             \A i, j \in 1..Cardinality(DOMAIN finish) :
               i < j => Before(order[i], order[j])
<1> DEFINE S == DOMAIN finish
           n == Cardinality(S)
           ahead(s) == {t \in S : Before(t, s)}
           rank == [s \in S |-> Cardinality(ahead(s)) + 1]
<1>1. IsFiniteSet(S) /\ n \in Nat
  BY SeatsAreFinite
<1>2. ASSUME NEW s \in S
      PROVE  /\ IsFiniteSet(ahead(s))
             /\ Cardinality(ahead(s)) \in Nat
             /\ Cardinality(ahead(s)) < n
  <2>1. ahead(s) \in SUBSET (S \ {s})
    BY BeforeOrders
  <2>2. IsFiniteSet(S \ {s}) /\ Cardinality(S \ {s}) = n - 1
    BY <1>1, FS_RemoveElement
  <2> HIDE DEF ahead, n
  <2>3. IsFiniteSet(ahead(s)) /\ Cardinality(ahead(s)) <= Cardinality(S \ {s})
    BY <2>1, <2>2, FS_Subset
  <2>4. Cardinality(ahead(s)) \in Nat
    BY <2>3, FS_CardinalityType
  <2> QED BY <1>1, <2>2, <2>3, <2>4
<1>3. ASSUME NEW s \in S, NEW t \in S, Before(s, t) PROVE rank[s] < rank[t]
  <2>1. ahead(s) \cup {s} \in SUBSET ahead(t)
    BY <1>3, BeforeOrders
  <2>2. s \notin ahead(s)
    BY BeforeOrders
  <2>3. /\ IsFiniteSet(ahead(s)) /\ IsFiniteSet(ahead(t))
        /\ Cardinality(ahead(s)) \in Nat /\ Cardinality(ahead(t)) \in Nat
    BY <1>2
  <2>4. rank[s] = Cardinality(ahead(s)) + 1 /\ rank[t] = Cardinality(ahead(t)) + 1
    OBVIOUS
  <2> HIDE DEF ahead, rank
  <2>5. Cardinality(ahead(s) \cup {s}) = Cardinality(ahead(s)) + 1
    BY <2>2, <2>3, FS_AddElement
  <2>6. Cardinality(ahead(s) \cup {s}) <= Cardinality(ahead(t))
    BY <2>1, <2>3, FS_Subset
  <2> QED BY <2>3, <2>4, <2>5, <2>6
<1>4. rank \in [S -> 1..n]
  <2>1. ASSUME NEW s \in S PROVE Cardinality(ahead(s)) + 1 \in 1..n
    <3> HIDE DEF ahead, n
    <3> QED BY <1>1, <1>2
  <2> HIDE DEF n, ahead
  <2> QED BY <2>1
<1> HIDE DEF rank, n
<1>5. \A s \in S : rank[s] \in Int
  BY <1>1, <1>4
<1>6. ASSUME NEW s \in S, NEW t \in S, rank[s] = rank[t] PROVE s = t
  <2>1. ~Before(s, t) /\ ~Before(t, s)
    BY <1>3, <1>5, <1>6
  <2> QED BY <2>1, BeforeOrders
<1>7. rank \in Injection(S, 1..n)
  BY <1>4, <1>6 DEF Injection, IsInjective
<1>8. IsFiniteSet(1..n) /\ Cardinality(1..n) = n
  BY <1>1, FS_Interval
<1>9. rank \in Surjection(S, 1..n)
  BY <1>7, <1>8, FS_Injection DEF n
<1>10. \A p \in 1..n : \E s \in S : rank[s] = p
  BY <1>9 DEF Surjection
<1> DEFINE order == [p \in 1..n |-> CHOOSE s \in S : rank[s] = p]
<1>11. \A p \in 1..n : order[p] \in S /\ rank[order[p]] = p
  BY <1>10
<1>12. order \in [1..n -> S]
  BY <1>11
<1> HIDE DEF order
<1>13. ASSUME NEW i \in 1..n, NEW j \in 1..n, i < j PROVE Before(order[i], order[j])
  <2>1. i # j /\ ~(j < i)
    BY <1>1, <1>13
  <2>2. order[i] # order[j]
    BY <1>11, <2>1
  <2>3. ~Before(order[j], order[i])
    BY <1>3, <1>11, <2>1
  <2> QED BY <1>11, <2>2, <2>3, BeforeOrders
<1> QED BY <1>12, <1>13 DEF n

LEMMA RankingSorts ==
    ASSUME GameTypeOK
    PROVE  /\ Ranking \in [1..Cardinality(DOMAIN finish) -> DOMAIN finish]
           /\ \A i, j \in 1..Cardinality(DOMAIN finish) :
                i < j => Before(Ranking[i], Ranking[j])
BY RankingExists DEF Ranking

-----------------------------------------------------------------------------
(* What the game prints.                                                   *)

\* A settlement as the columns keep it.
Shaped(body) ==
    /\ body = [tick |-> body.tick, mvpSlot |-> body.mvpSlot,
               rows |-> body.rows, teams |-> body.teams]
    /\ settlementRowsFromUnknown(body.rows) = body.rows
    /\ settlementTeamsFromUnknown(body.teams) = body.teams

\* A settlement of the match as it ended, which every check lets through.
Final(body) ==
    /\ all_finished
    /\ Shaped(body)
    /\ parseSettlementObject(body)
    /\ isValidSettlementSemantics(body)
    /\ RanksTheRace(body)

LEMMA BastionIsFinal ==
    ASSUME GameTypeOK, gameplay = "bastion", NEW body \in BastionSettlement
    PROVE  Final(body) /\ body.tick = tick
<1> DEFINE a == IF result = "b" THEN 2 ELSE 1
           b == IF result = "a" THEN 2 ELSE 1
           mvp == IF result = "b" THEN 1 ELSE 0
           rowA == [slot |-> 0, place |-> a, finishTick |-> tick]
           rowB == [slot |-> 1, place |-> b, finishTick |-> tick]
           teamA == [teamId |-> 1, place |-> a]
           teamB == [teamId |-> 2, place |-> b]
<1>1. /\ result # "none"
      /\ body = [tick |-> tick, mvpSlot |-> mvp, rows |-> <<rowA, rowB>>,
                 teams |-> <<teamA, teamB>>]
  BY DEF BastionSettlement, all_finished
<1>2. /\ a \in 1..2 /\ b \in 1..2 /\ tick \in Nat /\ mvp \in 0..1
      /\ a = 1 \/ b = 1
      /\ mvp = 0 => a = 1
      /\ mvp = 1 => b = 1
  BY DEF GameTypeOK
<1>3. /\ rowA.slot = 0 /\ rowA.place = a /\ rowA.finishTick = tick
      /\ rowB.slot = 1 /\ rowB.place = b /\ rowB.finishTick = tick
      /\ teamA.teamId = 1 /\ teamA.place = a
      /\ teamB.teamId = 2 /\ teamB.place = b
      /\ rowA = [slot |-> rowA.slot, place |-> rowA.place, finishTick |-> rowA.finishTick]
      /\ rowB = [slot |-> rowB.slot, place |-> rowB.place, finishTick |-> rowB.finishTick]
      /\ teamA = [teamId |-> teamA.teamId, place |-> teamA.place]
      /\ teamB = [teamId |-> teamB.teamId, place |-> teamB.place]
  OBVIOUS
<1>4. /\ result \in {"draw", "a", "b"}
      /\ result = "draw" => a = 1 /\ b = 1
      /\ result = "a" => a = 1 /\ b = 2
      /\ result = "b" => a = 2 /\ b = 1
  BY <1>1 DEF GameTypeOK
<1>5. /\ body.tick = tick /\ body.mvpSlot = mvp
      /\ body.rows = <<rowA, rowB>> /\ body.teams = <<teamA, teamB>>
      /\ body = [tick |-> body.tick, mvpSlot |-> body.mvpSlot,
                 rows |-> body.rows, teams |-> body.teams]
  BY <1>1
<1> HIDE DEF a, b, mvp, rowA, rowB, teamA, teamB
<1>6. Shaped(body)
  <2>1. settlementRowsFromUnknown(<<rowA, rowB>>) = <<rowA, rowB>>
    BY <1>3 DEF settlementRowsFromUnknown
  <2>2. settlementTeamsFromUnknown(<<teamA, teamB>>) = <<teamA, teamB>>
    BY <1>3 DEF settlementTeamsFromUnknown
  <2> QED BY <1>5, <2>1, <2>2 DEF Shaped
<1>7. parseSettlementObject(body)
  <2>1. parseRow(rowA) /\ parseRow(rowB)
    BY <1>2, <1>3 DEF parseRow
  <2>2. parseTeam(teamA) /\ parseTeam(teamB)
    BY <1>2, <1>3 DEF parseTeam
  <2> QED BY <1>5, <2>1, <2>2 DEF parseSettlementObject
<1>8. isValidSettlementSemantics(body)
  <2> DEFINE first == {t.teamId : t \in {u \in {teamA, teamB} : u.place = 1}}
  <2>1. bastionSeatForTeamId(1) = 0 /\ bastionSeatForTeamId(2) = 1
    BY DEF bastionSeatForTeamId
  <2>2. \A r \in {rowA, rowB}, t \in {teamA, teamB} :
          r.slot = bastionSeatForTeamId(t.teamId) => r.place = t.place
    BY <1>3, <2>1
  <2>3. mvp \in {bastionSeatForTeamId(id) : id \in first}
    <3>1. CASE mvp = 0
      <4>1. 1 \in first
        BY <1>2, <1>3, <3>1
      <4> QED BY <2>1, <3>1, <4>1
    <3>2. CASE mvp = 1
      <4>1. 2 \in first
        BY <1>2, <1>3, <3>2
      <4> QED BY <2>1, <3>2, <4>1
    <3> QED BY <1>2, <3>1, <3>2
  <2>4. /\ {body.teams[i] : i \in DOMAIN body.teams} = {teamA, teamB}
        /\ {body.rows[i] : i \in DOMAIN body.rows} = {rowA, rowB}
        /\ Len(body.teams) = 2 /\ Len(body.rows) = 2
        /\ body.teams # <<>>
    BY <1>5
  <2>5. /\ {t.teamId : t \in {teamA, teamB}} = {1, 2}
        /\ {r.slot : r \in {rowA, rowB}} = {0, 1}
        /\ \A t \in {teamA, teamB} : t.place \in {1, 2}
    BY <1>2, <1>3
  <2> HIDE DEF first
  <2>6. isValidBastionSettlement(body)
    BY <1>5, <2>2, <2>3, <2>4, <2>5 DEF isValidBastionSettlement, first
  <2> QED BY <2>4, <2>6 DEF isValidSettlementSemantics
<1>9. RanksTheRace(body)
  <2>1. /\ (CHOOSE r \in {body.rows[1], body.rows[2]} : r.slot = 0) = rowA
        /\ (CHOOSE r \in {body.rows[1], body.rows[2]} : r.slot = 1) = rowB
    BY <1>3, <1>5
  <2>2. /\ result = "draw" => rowA.place = 1 /\ rowB.place = 1
        /\ result = "a" => rowA.place < rowB.place
        /\ result = "b" => rowB.place < rowA.place
    BY <1>3, <1>4
  <2> HIDE DEF a, b
  <2>3. CASE result = "draw"
    BY <2>1, <2>2, <2>3 DEF RanksTheRace
  <2>4. CASE result = "a"
    BY <2>1, <2>2, <2>4 DEF RanksTheRace
  <2>5. CASE result = "b"
    BY <2>1, <2>2, <2>5 DEF RanksTheRace
  <2> QED BY <1>4, <2>3, <2>4, <2>5
<1> QED BY <1>1, <1>5, <1>6, <1>7, <1>8, <1>9 DEF Final, all_finished

LEMMA TraprushIsFinal ==
    ASSUME GameTypeOK, gameplay = "traprush", NEW body \in TraprushSettlement
    PROVE  Final(body) /\ body.tick = tick
<1> DEFINE n == Cardinality(DOMAIN finish)
           row(p) == [slot |-> Ranking[p], place |-> p, finishTick |-> finish[Ranking[p]]]
           rows == [p \in 1..n |-> row(p)]
<1>1. n \in 1..8 /\ DOMAIN finish \subseteq 0..7
  BY SeatsAreFinite
<1>2. /\ Ranking \in [1..n -> DOMAIN finish]
      /\ \A i, j \in 1..n : i < j => Before(Ranking[i], Ranking[j])
  BY RankingSorts
<1>3. \A s \in DOMAIN finish : finish[s] \in Int /\ finish[s] >= 0
  BY SeatsAreFinite DEF TraprushSettlement, all_finished
<1>4. body = [tick |-> tick, mvpSlot |-> Ranking[1], teams |-> <<>>, rows |-> rows]
  BY <1>2 DEF TraprushSettlement
<1>5. /\ body.tick = tick /\ body.mvpSlot = Ranking[1]
      /\ body.rows = rows /\ body.teams = <<>>
      /\ body = [tick |-> body.tick, mvpSlot |-> body.mvpSlot,
                 rows |-> body.rows, teams |-> body.teams]
  BY <1>4
<1> HIDE DEF n
<1>6. \A p \in 1..n : /\ rows[p].slot = Ranking[p] /\ rows[p].place = p
                      /\ rows[p].finishTick = finish[Ranking[p]]
                      /\ rows[p] = [slot |-> rows[p].slot, place |-> rows[p].place,
                                    finishTick |-> rows[p].finishTick]
  OBVIOUS
<1>7. DOMAIN rows = 1..n /\ rows = [p \in 1..n |-> rows[p]]
  OBVIOUS
<1>8. Len(rows) = n
  BY <1>1, LenProperties
<1> HIDE DEF rows, row
<1>9. Shaped(body)
  <2>1. settlementRowsFromUnknown(rows) = rows
    <3>1. settlementRowsFromUnknown(rows) =
            [p \in 1..n |-> [slot |-> rows[p].slot, place |-> rows[p].place,
                             finishTick |-> rows[p].finishTick]]
      BY <1>7 DEF settlementRowsFromUnknown
    <3>2. \A p \in 1..n : settlementRowsFromUnknown(rows)[p] = rows[p]
      BY <1>6, <3>1
    <3> QED BY <1>7, <3>1, <3>2
  <2>2. settlementTeamsFromUnknown(<<>>) = <<>>
    BY DEF settlementTeamsFromUnknown
  <2> QED BY <1>5, <2>1, <2>2 DEF Shaped
<1>10. parseSettlementObject(body)
  <2>1. ASSUME NEW p \in 1..n PROVE parseRow(rows[p])
    <3>1. Ranking[p] \in DOMAIN finish /\ p \in 1..8
      BY <1>1, <1>2
    <3>2. Ranking[p] \in 0..7 /\ finish[Ranking[p]] >= 0
      BY <1>1, <1>3, <3>1
    <3> QED BY <1>6, <3>1, <3>2 DEF parseRow
  <2> QED BY <1>1, <1>5, <1>7, <1>8, <2>1 DEF parseSettlementObject
<1>11. ASSUME NEW i \in 1..n, NEW j \in 1..n, i # j PROVE Ranking[i] # Ranking[j]
  <2>1. i < j \/ j < i
    BY <1>1, <1>11
  <2>2. Before(Ranking[i], Ranking[j]) \/ Before(Ranking[j], Ranking[i])
    BY <1>2, <2>1
  <2> QED BY <1>2, <2>2, BeforeOrders
<1>12. isValidSettlementSemantics(body)
  <2>1. \A i, j \in DOMAIN rows :
          i # j => rows[i].slot # rows[j].slot /\ rows[i].place # rows[j].place
    BY <1>6, <1>7, <1>11
  <2>2. 1 \in DOMAIN rows /\ rows[1].place = 1 /\ rows[1].slot = body.mvpSlot
    BY <1>1, <1>5, <1>6, <1>7
  <2>3. \A p \in 1..Len(rows) : p \in DOMAIN rows /\ rows[p].place = p
    BY <1>6, <1>7, <1>8
  <2>4. isValidTraprushSettlement(body)
    BY <1>5, <2>1, <2>2, <2>3 DEF isValidTraprushSettlement
  <2> QED BY <1>5, <2>4 DEF isValidSettlementSemantics
<1>13. RanksTheRace(body)
  <2>1. ASSUME NEW i \in 1..n, NEW j \in 1..n, finish[Ranking[i]] < finish[Ranking[j]]
        PROVE  i < j
    <3>1. i # j
      BY <1>2, <1>3, <2>1
    <3>2. ~Before(Ranking[j], Ranking[i])
      BY <1>2, <1>3, <2>1 DEF Before
    <3>3. ~(j < i)
      BY <1>2, <3>2
    <3> QED BY <1>1, <3>1, <3>3
  <2> QED BY <1>5, <1>6, <1>7, <2>1 DEF RanksTheRace
<1>14. all_finished
  BY <1>3 DEF all_finished
<1> QED BY <1>5, <1>9, <1>10, <1>12, <1>13, <1>14 DEF Final

\* A heartbeat carries a final settlement of its own tick, or none.
LEMMA BuiltIsFinal ==
    ASSUME GameTypeOK, NEW body \in Built
    PROVE  Final(body) /\ body.tick = tick
BY BastionIsFinal, TraprushIsFinal DEF Built, GameTypeOK

-----------------------------------------------------------------------------
(* The invariant.                                                          *)

\* A line of the output that the game wrote, or that is not a heartbeat.
GoodLine(line) ==
    /\ line.settlement # {} => Settles(line)
    /\ \A body \in line.settlement : Final(body)

\* The lines are a sequence of good lines, whatever is in it.
OutputOK ==
    /\ output \in Seq({output[i] : i \in DOMAIN output})
    /\ \A i \in DOMAIN output : GoodLine(output[i])

SettlementInv ==
    /\ GameTypeOK
    /\ OutputOK
    /\ \A body \in GetSettlement : Final(body)

\* Another line at the end of a sequence, or another without its head.
LEMMA CollectAdds ==
    ASSUME OutputOK, NEW line, collect(line)
    PROVE  /\ output' \in Seq({output'[i] : i \in DOMAIN output'})
           /\ \A i \in DOMAIN output' :
                output'[i] = line \/ \E j \in DOMAIN output : output'[i] = output[j]
<1> DEFINE S == {output[i] : i \in DOMAIN output} \cup {line}
           lines == Append(output, line)
<1>1. output \in Seq(S)
  <2>1. output \in [1..Len(output) -> S] /\ Len(output) \in Nat
    BY LenProperties DEF OutputOK
  <2> QED BY <2>1, SeqDef
<1>2. lines \in Seq(S) /\ Len(lines) = Len(output) + 1 /\ Len(output) \in Nat
  <2> HIDE DEF S
  <2> QED BY <1>1, AppendProperties, LenProperties DEF S
<1>3. output' = IF Len(lines) > Retain THEN Tail(lines) ELSE lines
  BY DEF collect
<1> HIDE DEF S, lines
<1>4. output' \in Seq(S)
  <2>1. Len(lines) > Retain => lines # <<>>
    BY <1>2, EmptySeq, SettlementAssumption
  <2> QED BY <1>2, <1>3, <2>1, HeadTailProperties
<1>5. \A i \in DOMAIN output' : output'[i] \in S
  BY <1>4, LenProperties, ElementOfSeq
<1>6. output' \in Seq({output'[i] : i \in DOMAIN output'})
  <2>1. /\ output' \in [1..Len(output') -> S] /\ Len(output') \in Nat
        /\ DOMAIN output' = 1..Len(output')
    BY <1>4, LenProperties
  <2>2. output' \in [1..Len(output') -> {output'[i] : i \in DOMAIN output'}]
    BY <2>1
  <2> QED BY <2>1, <2>2, SeqDef
<1> QED BY <1>5, <1>6 DEF S

\* A final settlement stays final, for a match that is over stays as it is.
LEMMA FinalStays ==
    ASSUME all_finished => UNCHANGED <<gameplay, finish, result>>, NEW body, Final(body)
    PROVE  Final(body)'
<1>1. all_finished /\ UNCHANGED <<gameplay, finish, result>>
  BY DEF Final
<1>2. all_finished' /\ (RanksTheRace(body) => RanksTheRace(body)')
  BY <1>1 DEF all_finished, RanksTheRace
<1> QED BY <1>2 DEF Final

LEMMA GoodLineStays ==
    ASSUME all_finished => UNCHANGED <<gameplay, finish, result>>, NEW line, GoodLine(line)
    PROVE  GoodLine(line)'
BY FinalStays DEF GoodLine

LEMMA OutputStays ==
    ASSUME all_finished => UNCHANGED <<gameplay, finish, result>>, UNCHANGED output, OutputOK
    PROVE  OutputOK'
<1>1. ASSUME NEW i \in DOMAIN output' PROVE GoodLine(output[i])'
  <2>1. PICK x : x = output[i] /\ GoodLine(x)
    BY DEF OutputOK
  <2>2. x = output'[i] /\ GoodLine(x)'
    BY <2>1, GoodLineStays
  <2> QED BY <2>2 DEF GoodLine
<1> QED BY <1>1 DEF OutputOK

LEMMA LinesStayGood ==
    ASSUME OutputOK, all_finished => UNCHANGED <<gameplay, finish, result>>,
           NEW line, GoodLine(line)', collect(line)
    PROVE  OutputOK'
<1>1. ASSUME NEW i \in DOMAIN output' PROVE GoodLine(output[i])'
  <2>1. PICK x : x = output'[i] /\ (x = line \/ GoodLine(x))
    BY <1>1, CollectAdds DEF OutputOK
  <2>2. GoodLine(x)'
    BY <2>1, GoodLineStays
  <2> QED BY <2>1, <2>2 DEF GoodLine
<1> QED BY <1>1, CollectAdds DEF OutputOK

\* Of a finite set of positions, one is the last.
LEMMA LastPosition ==
    ASSUME NEW n \in Nat, NEW S \in SUBSET (1..n), S # {}
    PROVE  \E i \in S : \A j \in S : j <= i
<1> DEFINE T == {n - i : i \in S}
<1>1. T \in SUBSET Nat /\ T # {}
  <2>1. \A i \in S : n - i \in Nat
    OBVIOUS
  <2> QED BY <2>1
<1>2. IsWellFoundedOn(OpToRel(<, Nat), Nat)
  BY NatLessThanWellFounded
<1> HIDE DEF T
<1>3. PICK m \in T : \A k \in Nat : <<k, m>> \in OpToRel(<, Nat) => k \notin T
  BY <1>1, <1>2, WFMin
<1>4. \A k \in T : ~(k < m)
  BY <1>1, <1>3 DEF OpToRel
<1>5. PICK i \in S : m = n - i
  BY DEF T
<1>6. ASSUME NEW j \in S PROVE j <= i
  <2>1. n - j \in T
    BY DEF T
  <2> QED BY <1>4, <1>5, <2>1
<1> QED BY <1>6

\* What the host reads stands in some line of the output.
LEMMA HostReadsALine ==
    ASSUME OutputOK, NEW body \in parseMatchTickSettlement(output)
    PROVE  \E i \in DOMAIN output : Settles(output[i]) /\ body \in output[i].settlement
<1> DEFINE S == {i \in DOMAIN output : Settles(output[i])}
<1>1. S # {} /\ body \in output[CHOOSE i \in S : \A j \in S : j <= i].settlement
  BY DEF parseMatchTickSettlement
<1>2. S \in SUBSET (1..Len(output)) /\ Len(output) \in Nat
  BY LenProperties DEF OutputOK
<1> HIDE DEF S
<1>3. \E i \in S : \A j \in S : j <= i
  BY <1>1, <1>2, LastPosition
<1>4. (CHOOSE i \in S : \A j \in S : j <= i) \in S
  BY <1>3
<1> QED BY <1>1, <1>4 DEF S

LEMMA SettlementInitInv == SettlementInit => SettlementInv
<1> SUFFICES ASSUME SettlementInit PROVE SettlementInv
  OBVIOUS
<1>1. GameTypeOK
  BY DEF SettlementInit, GameTypeOK
<1>2. OutputOK
  <2>1. output = <<>> /\ DOMAIN output = {}
    BY DEF SettlementInit
  <2> QED BY <2>1, EmptySeq DEF OutputOK
<1>3. GetSettlement = {}
  BY DEF SettlementInit, GetSettlement
<1> QED BY <1>1, <1>2, <1>3 DEF SettlementInv

\* A tick keeps the types, and nothing changes in a match that is over.
LEMMA CommitKeeps ==
    ASSUME GameTypeOK, commit_tick
    PROVE  /\ GameTypeOK'
           /\ all_finished => UNCHANGED <<gameplay, finish, result>>
<1>1. CASE Frozen /\ UNCHANGED <<tick, finish, result>>
  BY <1>1 DEF commit_tick, GameTypeOK
<1>2. CASE ~(Frozen /\ UNCHANGED <<tick, finish, result>>)
  <2>1. ~Frozen /\ gameplay' = gameplay /\ tick \in Nat
    BY <1>2 DEF commit_tick, GameTypeOK
  <2>2. tick' \in Nat
    <3>1. tick' = tick + 1 \/ (tick = MaxTick /\ tick' = tick + 1 - HeartbeatEvery)
      BY <1>2 DEF commit_tick
    <3> QED BY <2>1, <3>1, SettlementAssumption
  <2>3. result' \in {"none", "draw", "a", "b"}
    BY <1>2 DEF commit_tick, GameTypeOK
  <2>4. gameplay = "bastion" => finish' = finish /\ ~all_finished
    BY <1>2, <2>1 DEF commit_tick, Frozen
  <2>5. gameplay # "bastion" =>
          /\ result' = result
          /\ \E S \in SUBSET {s \in DOMAIN finish : finish[s] < 0} :
               finish' = [s \in DOMAIN finish |-> IF s \in S THEN tick' ELSE finish[s]]
    BY <1>2 DEF commit_tick
  <2>6. PICK seats \in 1..MaxRacers : finish \in [0..seats - 1 -> Nat \cup {-1}]
    BY DEF GameTypeOK
  <2>7. finish' \in [0..seats - 1 -> Nat \cup {-1}]
    BY <2>2, <2>4, <2>5, <2>6
  <2>8. all_finished => UNCHANGED <<gameplay, finish, result>>
    <3> SUFFICES ASSUME all_finished, gameplay # "bastion"
                 PROVE  finish' = finish
      BY <2>1, <2>4, <2>5
    <3>1. PICK S \in SUBSET {s \in DOMAIN finish : finish[s] < 0} :
            finish' = [s \in DOMAIN finish |-> IF s \in S THEN tick' ELSE finish[s]]
      BY <2>5
    <3>2. S = {}
      BY <3>1, SeatsAreFinite DEF all_finished
    <3>3. finish = [s \in DOMAIN finish |-> finish[s]]
      BY <2>6
    <3> QED BY <3>1, <3>2, <3>3
  <2> QED BY <2>1, <2>2, <2>3, <2>7, <2>8 DEF GameTypeOK
<1> QED BY <1>1, <1>2

\* A frame that prints a good line keeps the invariant.
LEMMA LineKeeps ==
    ASSUME SettlementInv, NEW line, GoodLine(line)', collect(line), GameTypeOK',
           all_finished => UNCHANGED <<gameplay, finish, result>>, UNCHANGED stored
    PROVE  SettlementInv'
<1>1. OutputOK'
  BY LinesStayGood DEF SettlementInv
<1>2. \A body \in GetSettlement' : Final(body)'
  BY FinalStays DEF SettlementInv, GetSettlement
<1> QED BY <1>1, <1>2 DEF SettlementInv

LEMMA HeartbeatIsGood == GameTypeOK => GoodLine(HeartbeatLine)
<1> SUFFICES ASSUME GameTypeOK PROVE GoodLine(HeartbeatLine)
  OBVIOUS
<1>1. \A body \in Built : Final(body) /\ body.tick = tick
  BY BuiltIsFinal
<1>2. /\ HeartbeatLine.settlement = Built /\ HeartbeatLine.tick = tick
      /\ HeartbeatLine.event = "match_tick"
  BY DEF HeartbeatLine
<1> QED BY <1>1, <1>2 DEF GoodLine, Settles, Final

LEMMA QuietFrameKeeps == SettlementInv /\ QuietFrame => SettlementInv'
<1> SUFFICES ASSUME SettlementInv, QuietFrame PROVE SettlementInv'
  OBVIOUS
<1>1. GameTypeOK' /\ (all_finished => UNCHANGED <<gameplay, finish, result>>)
  BY CommitKeeps DEF SettlementInv, QuietFrame
<1>2. output' = output /\ stored' = stored
  BY DEF QuietFrame, commit_tick
<1>3. OutputOK'
  BY <1>1, <1>2, OutputStays DEF SettlementInv
<1>4. \A body \in GetSettlement' : Final(body)'
  BY <1>1, <1>2, FinalStays DEF SettlementInv, GetSettlement
<1> QED BY <1>1, <1>3, <1>4 DEF SettlementInv

LEMMA HeartbeatFrameKeeps == SettlementInv /\ HeartbeatFrame => SettlementInv'
<1>1. GameTypeOK' => GoodLine(HeartbeatLine)'
  BY HeartbeatIsGood, PTL
<1> SUFFICES ASSUME SettlementInv, HeartbeatFrame PROVE SettlementInv'
  OBVIOUS
<1>2. GameTypeOK' /\ (all_finished => UNCHANGED <<gameplay, finish, result>>)
  BY CommitKeeps DEF SettlementInv, HeartbeatFrame
<1>3. PICK line : line = HeartbeatLine'
  OBVIOUS
<1>4. GoodLine(line)'
  BY <1>1, <1>2, <1>3 DEF GoodLine
<1>5. collect(line) /\ stored' = stored
  BY <1>3 DEF HeartbeatFrame, commit_tick, collect
<1> QED BY <1>2, <1>4, <1>5, LineKeeps

LEMMA NoiseIsGood == GoodLine(Noise)' /\ GoodLine(Noise)
BY DEF GoodLine, Noise

LEMMA SplitFrameKeeps == SettlementInv /\ SplitFrame => SettlementInv'
<1> SUFFICES ASSUME SettlementInv, SplitFrame PROVE SettlementInv'
  OBVIOUS
<1>1. GameTypeOK' /\ (all_finished => UNCHANGED <<gameplay, finish, result>>)
  BY CommitKeeps DEF SettlementInv, SplitFrame
<1>2. collect(Noise) /\ stored' = stored
  BY DEF SplitFrame, commit_tick
<1> QED BY <1>1, <1>2, NoiseIsGood, LineKeeps

LEMMA OtherOutputKeeps == SettlementInv /\ OtherOutput => SettlementInv'
<1> SUFFICES ASSUME SettlementInv, OtherOutput PROVE SettlementInv'
  OBVIOUS
<1>1. GameTypeOK'
  BY DEF SettlementInv, GameTypeOK, OtherOutput
<1> QED BY <1>1, NoiseIsGood, LineKeeps DEF OtherOutput

LEMMA PlayersKeep == SettlementInv /\ PlayersComeAndGo => SettlementInv'
<1> SUFFICES ASSUME SettlementInv, PlayersComeAndGo PROVE SettlementInv'
  OBVIOUS
<1>1. GameTypeOK'
  BY DEF SettlementInv, GameTypeOK, PlayersComeAndGo
<1>2. OutputOK'
  BY OutputStays DEF SettlementInv, PlayersComeAndGo
<1>3. \A body \in GetSettlement' : Final(body)'
  BY FinalStays DEF SettlementInv, GetSettlement, PlayersComeAndGo
<1> QED BY <1>1, <1>2, <1>3 DEF SettlementInv

LEMMA HostPostsKeeps == SettlementInv /\ HostPosts => SettlementInv'
<1> SUFFICES ASSUME SettlementInv, HostPosts PROVE SettlementInv'
  OBVIOUS
<1>1. UNCHANGED <<gameplay, tick, finish, result, output>>
  BY DEF HostPosts
<1>2. PICK body \in parseMatchTickSettlement(output) : Record(body)
  BY DEF HostPosts
<1>3. Final(body)
  BY HostReadsALine DEF SettlementInv, OutputOK, GoodLine
<1>4. GetSettlement' = {body}
  <2>1. stored' = {insertMatchSettlement(body)} /\ Shaped(body)
    BY <1>2, <1>3 DEF Record, Final
  <2>2. /\ insertMatchSettlement(body).tick = body.tick
        /\ insertMatchSettlement(body).mvpSlot = body.mvpSlot
        /\ insertMatchSettlement(body).rowsJson = body.rows
        /\ insertMatchSettlement(body).teamsJson = body.teams
    BY <2>1 DEF insertMatchSettlement, Shaped
  <2> QED BY <2>1, <2>2 DEF GetSettlement, Shaped
<1>5. GameTypeOK'
  BY <1>1 DEF SettlementInv, GameTypeOK
<1>6. OutputOK'
  BY <1>1, OutputStays DEF SettlementInv
<1>7. Final(body)'
  BY <1>1, <1>3, FinalStays
<1> QED BY <1>4, <1>5, <1>6, <1>7 DEF SettlementInv

LEMMA SettlementNextInv == SettlementInv /\ [SettlementNext]_settlementVars => SettlementInv'
<1> SUFFICES ASSUME SettlementInv, [SettlementNext]_settlementVars PROVE SettlementInv'
  OBVIOUS
<1>1. CASE UNCHANGED settlementVars
  <2>1. GameTypeOK'
    BY <1>1 DEF settlementVars, SettlementInv, GameTypeOK
  <2>2. OutputOK'
    BY <1>1, OutputStays DEF settlementVars, SettlementInv
  <2>3. \A body \in GetSettlement' : Final(body)'
    BY <1>1, FinalStays DEF settlementVars, SettlementInv, GetSettlement
  <2> QED BY <2>1, <2>2, <2>3 DEF SettlementInv
<1> QED BY <1>1, QuietFrameKeeps, HeartbeatFrameKeeps, SplitFrameKeeps, PlayersKeep,
           OtherOutputKeeps, HostPostsKeeps
        DEF SettlementNext, PhysicsFrame

-----------------------------------------------------------------------------

\* Every settlement printed, read or stored is the final one of the match.
THEOREM SettlementInvariant == SettlementSpec => []SettlementInv
<1> QED BY SettlementInitInv, SettlementNextInv, PTL DEF SettlementSpec

LEMMA InvAccepts == SettlementInv => ResultsAreAccepted
<1> SUFFICES ASSUME SettlementInv PROVE ResultsAreAccepted
  OBVIOUS
<1>1. \A i \in DOMAIN output : output[i].settlement # {} => Settles(output[i])
  BY DEF SettlementInv, OutputOK, GoodLine
<1>2. \A body \in parseMatchTickSettlement(output) : Final(body)
  BY HostReadsALine DEF SettlementInv, OutputOK, GoodLine
<1>3. \A body \in GetSettlement : Final(body)
  BY DEF SettlementInv
<1> QED BY <1>1, <1>2, <1>3 DEF ResultsAreAccepted, Final

\* What the host reads is accepted and ranks the race, and so does what is
\* shown afterwards, for any number of seats and of retained lines.
THEOREM ResultsStayAccepted == SettlementSpec => []ResultsAreAccepted
<1> QED BY SettlementInvariant, InvAccepts, PTL

-----------------------------------------------------------------------------
(* What the control plane accepts.                                         *)

\* For rows of any number: every place is held by one row, the slots are
\* distinct, and the mvp is first.
Ranks(rows, mvpSlot) ==
    /\ \A p \in 1..Len(rows) : Cardinality({i \in DOMAIN rows : rows[i].place = p}) = 1
    /\ Cardinality({rows[i].slot : i \in DOMAIN rows}) = Len(rows)
    /\ \E i \in DOMAIN rows : rows[i].place = 1 /\ rows[i].slot = mvpSlot

\* Counting the slots tells whether they are distinct.
LEMMA SlotsCount ==
    ASSUME NEW n \in Nat, NEW rows, DOMAIN rows = 1..n
    PROVE  Cardinality({rows[i].slot : i \in DOMAIN rows}) = n <=>
             \A i, j \in DOMAIN rows : i # j => rows[i].slot # rows[j].slot
<1> DEFINE T == {rows[i].slot : i \in DOMAIN rows}
           f == [i \in 1..n |-> rows[i].slot]
<1>1. f \in Surjection(1..n, T)
  BY DEF Surjection
<1>2. IsFiniteSet(1..n) /\ Cardinality(1..n) = n
  BY FS_Interval
<1>3. f \in Injection(1..n, T) <=>
        \A i, j \in DOMAIN rows : i # j => rows[i].slot # rows[j].slot
  BY <1>1 DEF Injection, IsInjective, Surjection
<1> HIDE DEF f, T
<1>4. Cardinality(T) = n <=> f \in Injection(1..n, T)
  BY <1>1, <1>2, FS_Surjection
<1> QED BY <1>3, <1>4 DEF T

\* Each of n places is held, and no two rows hold one.
PlacesDistinct(rows, n) ==
    /\ \A p \in 1..n : \E i \in DOMAIN rows : rows[i].place = p
    /\ \A i, j \in DOMAIN rows : i # j => rows[i].place # rows[j].place

\* Each of n places is held by one row.
PlacesHeld(rows, n) ==
    \A p \in 1..n : Cardinality({i \in DOMAIN rows : rows[i].place = p}) = 1

\* Each of n places is held once by n rows when every place is held, and no
\* two rows hold one.
LEMMA PlacesCount ==
    ASSUME NEW n \in Nat, NEW rows, DOMAIN rows = 1..n
    PROVE  PlacesHeld(rows, n) <=> PlacesDistinct(rows, n)
<1> DEFINE held(p) == {i \in DOMAIN rows : rows[i].place = p}
<1>1. IsFiniteSet(1..n) /\ Cardinality(1..n) = n
  BY FS_Interval
<1>2. ASSUME NEW p PROVE Cardinality(held(p)) = 1 <=> \E i : held(p) = {i}
  <2>1. held(p) \in SUBSET (1..n)
    OBVIOUS
  <2> HIDE DEF held
  <2>2. IsFiniteSet(held(p))
    BY <1>1, <2>1, FS_Subset
  <2> QED BY <2>2, FS_Singleton
<1>3. ASSUME \A p \in 1..n : \E i \in DOMAIN rows : rows[i].place = p,
             \A i, j \in DOMAIN rows : i # j => rows[i].place # rows[j].place,
             NEW p \in 1..n
      PROVE  Cardinality(held(p)) = 1
  <2>1. PICK i \in DOMAIN rows : rows[i].place = p
    BY <1>3
  <2>2. held(p) = {i}
    BY <1>3, <2>1
  <2> QED BY <1>2, <2>2
<1>4. ASSUME \A p \in 1..n : Cardinality(held(p)) = 1
      PROVE  /\ \A p \in 1..n : \E i \in DOMAIN rows : rows[i].place = p
             /\ \A i, j \in DOMAIN rows : i # j => rows[i].place # rows[j].place
  <2>1. \A p \in 1..n : \E i : held(p) = {i}
    BY <1>2, <1>4
  <2> DEFINE g == [p \in 1..n |-> CHOOSE i : held(p) = {i}]
  <2>2. \A p \in 1..n : held(p) = {g[p]}
    BY <2>1
  <2> HIDE DEF g
  <2>3. \A p \in 1..n : g[p] \in 1..n /\ rows[g[p]].place = p
    BY <2>2
  <2>4. g \in [1..n -> 1..n]
    BY <2>3 DEF g
  <2>5. g \in Injection(1..n, 1..n)
    BY <2>3, <2>4 DEF Injection, IsInjective
  <2>6. g \in Surjection(1..n, 1..n)
    BY <1>1, <2>5, FS_Injection
  <2>7. \A i \in 1..n : \E p \in 1..n : g[p] = i
    BY <2>6 DEF Surjection
  <2>8. ASSUME NEW i \in DOMAIN rows, NEW j \in DOMAIN rows, rows[i].place = rows[j].place
        PROVE  i = j
    <3>1. PICK p \in 1..n, q \in 1..n : g[p] = i /\ g[q] = j
      BY <2>7
    <3> QED BY <2>3, <2>8, <3>1
  <2> QED BY <2>3, <2>8
<1> HIDE DEF held
<1>5. (\A p \in 1..n : Cardinality(held(p)) = 1) <=>
        /\ \A p \in 1..n : \E i \in DOMAIN rows : rows[i].place = p
        /\ \A i, j \in DOMAIN rows : i # j => rows[i].place # rows[j].place
  BY <1>3, <1>4
<1> QED BY <1>5 DEF held, PlacesHeld, PlacesDistinct

\* The loop over the rows accepts a body exactly when it ranks its players,
\* however many they are.
THEOREM AcceptsRankings ==
    ASSUME NEW body, body.teams = <<>>, NEW n \in Nat,
           DOMAIN body.rows = 1..n, Len(body.rows) = n
    PROVE  isValidSettlementSemantics(body) <=> Ranks(body.rows, body.mvpSlot)
<1> DEFINE rows == body.rows
<1>1. isValidSettlementSemantics(body) <=>
        /\ \A i, j \in DOMAIN rows : i # j => rows[i].slot # rows[j].slot
        /\ \A i, j \in DOMAIN rows : i # j => rows[i].place # rows[j].place
        /\ \E i \in DOMAIN rows : rows[i].place = 1 /\ rows[i].slot = body.mvpSlot
        /\ \A p \in 1..n : \E i \in DOMAIN rows : rows[i].place = p
  BY DEF isValidSettlementSemantics, isValidTraprushSettlement
<1>2. Cardinality({rows[i].slot : i \in DOMAIN rows}) = n <=>
        \A i, j \in DOMAIN rows : i # j => rows[i].slot # rows[j].slot
  <2> HIDE DEF rows
  <2>1. DOMAIN rows = 1..n
    BY DEF rows
  <2> QED BY <2>1, SlotsCount
<1>3. PlacesHeld(rows, n) <=> PlacesDistinct(rows, n)
  <2> HIDE DEF rows
  <2>1. DOMAIN rows = 1..n
    BY DEF rows
  <2> QED BY <2>1, PlacesCount
<1>4. Ranks(rows, body.mvpSlot) <=>
        /\ PlacesHeld(rows, n)
        /\ Cardinality({rows[i].slot : i \in DOMAIN rows}) = n
        /\ \E i \in DOMAIN rows : rows[i].place = 1 /\ rows[i].slot = body.mvpSlot
  BY DEF Ranks, PlacesHeld
<1> QED BY <1>1, <1>2, <1>3, <1>4 DEF PlacesDistinct

\* So it is for the bodies of the instance that TLC enumerates.
COROLLARY ShortBodiesAreRanked == AcceptsExactlyRankings
<1> SUFFICES ASSUME NEW body \in ShortBodies
             PROVE  isValidSettlementSemantics(body) <=> Ranks(body.rows, body.mvpSlot)
  BY DEF AcceptsExactlyRankings, Ranks
<1>1. PICK n \in 1..3 : body.rows \in [1..n -> [slot : 0..2, place : 1..3]]
  BY DEF ShortBodies
<1>2. n \in Nat /\ body.teams = <<>>
  BY DEF ShortBodies
<1>3. body.rows \in Seq([slot : 0..2, place : 1..3])
  BY <1>1, <1>2, SeqDef
<1>4. DOMAIN body.rows = 1..n /\ Len(body.rows) = n
  BY <1>1, <1>2, <1>3, LenProperties
<1> QED BY <1>2, <1>4, AcceptsRankings

-----------------------------------------------------------------------------
(* REPLAYS.                                                                *)

ReplayRows == [id : ReplayIds, owner : ReplayOwners, match : ReplayMatches,
               course : TapeCourses, tape : Tapes, created : Nat]

ReplaysTypeOK ==
    /\ registered \subseteq ReplayMatches
    /\ seated \in [ReplayMatches -> SUBSET ReplayOwners]
    /\ replays \subseteq ReplayRows
    /\ clock \in Nat

\* An id names one row, and an owner has one row of a match.
RowsAreUnique ==
    \A r, s \in replays :
      r.id = s.id \/ (r.owner = s.owner /\ r.match = s.match) => r = s

\* A stored tape passes the check it was stored with.
RowsAreTapes == \A r \in replays : tapeOk(r.tape) /\ r.course = r.tape.course

RingsAreBounded == \A o \in ReplayOwners : Cardinality(rowsOf(replays, o)) <= Ring

ReplaysInv == ReplaysTypeOK /\ RowsAreUnique /\ RowsAreTapes /\ RingsAreBounded

-----------------------------------------------------------------------------
(* The ring.                                                               *)

\* Rows with an id of their own are finitely many.
LEMMA RowsAreFinite ==
    ASSUME NEW R \in SUBSET ReplayRows, \A r, s \in R : r.id = s.id => r = s
    PROVE  IsFiniteSet(R)
<1> DEFINE f == [r \in R |-> r.id]
<1>1. IsFiniteSet(ReplayIds)
  BY ReplayAssumption, FS_Interval DEF ReplayIds
<1>2. f \in [R -> ReplayIds]
  BY DEF ReplayRows
<1>3. \A r, s \in R : f[r] = f[s] => r = s
  OBVIOUS
<1>4. f \in Injection(R, ReplayIds)
  BY <1>2, <1>3 DEF Injection, IsInjective
<1> HIDE DEF f
<1> QED BY <1>1, <1>4, FS_Injection

\* Some number of a set of naturals is the least of it.
LEMMA LeastNumber ==
    ASSUME NEW S \in SUBSET Nat, S # {}
    PROVE  \E n \in S : \A m \in S : n <= m
<1>1. IsWellFoundedOn(OpToRel(<, Nat), Nat)
  BY NatLessThanWellFounded
<1>2. PICK n \in S : \A m \in Nat : <<m, n>> \in OpToRel(<, Nat) => m \notin S
  BY <1>1, WFMin
<1>3. ASSUME NEW m \in S PROVE n <= m
  <2>1. ~(m < n)
    BY <1>2, <1>3 DEF OpToRel
  <2> QED BY <2>1
<1> QED BY <1>3

\* One row of a ring is older than all others.
LEMMA OldestRow ==
    ASSUME NEW R \in SUBSET ReplayRows, R # {}, \A r, s \in R : r.id = s.id => r = s
    PROVE  \E m \in R : \A s \in R : s # m => Older(m, s) /\ ~Older(s, m)
<1>1. \A r \in R : r.created \in Nat /\ r.id \in Nat
  BY ReplayAssumption DEF ReplayRows, ReplayIds
<1>2. PICK t \in {r.created : r \in R} : \A u \in {r.created : r \in R} : t <= u
  <2> DEFINE S == {r.created : r \in R}
  <2>1. S \in SUBSET Nat /\ S # {}
    BY <1>1
  <2> HIDE DEF S
  <2>2. \E n \in S : \A m \in S : n <= m
    BY <2>1, LeastNumber
  <2> QED BY <2>2 DEF S
<1>3. PICK i \in {r.id : r \in {r \in R : r.created = t}} :
        \A j \in {r.id : r \in {r \in R : r.created = t}} : i <= j
  <2> DEFINE S == {r.id : r \in {r \in R : r.created = t}}
  <2>1. S \in SUBSET Nat /\ S # {}
    BY <1>1
  <2> HIDE DEF S
  <2>2. \E n \in S : \A m \in S : n <= m
    BY <2>1, LeastNumber
  <2> QED BY <2>2 DEF S
<1>4. PICK m \in R : m.created = t /\ m.id = i
  BY <1>3
<1>5. ASSUME NEW s \in R, s # m PROVE Older(m, s) /\ ~Older(s, m)
  <2>1. m.created <= s.created
    BY <1>2, <1>4
  <2>2. m.id # s.id
    BY <1>5
  <2>3. s.created = m.created => m.id <= s.id
    BY <1>3, <1>4
  <2> QED BY <1>1, <2>1, <2>2, <2>3 DEF Older
<1> QED BY <1>5

\* A ring that is not over its size loses nothing.
LEMMA TrimNothing ==
    ASSUME NEW R, IsFiniteSet(R), Cardinality(R) <= Ring
    PROVE  oldest(R, Cardinality(R) - Ring) = {}
<1>1. Cardinality(R) \in Nat /\ Cardinality(R) - Ring <= 0
  BY FS_CardinalityType, ReplayAssumption
<1>2. ASSUME NEW r \in R PROVE ~(Cardinality({s \in R : Older(s, r)}) < Cardinality(R) - Ring)
  <2>1. IsFiniteSet({s \in R : Older(s, r)})
    BY FS_Subset
  <2>2. Cardinality({s \in R : Older(s, r)}) \in Nat
    BY <2>1, FS_CardinalityType
  <2> QED BY <1>1, <2>2, ReplayAssumption
<1> QED BY <1>2 DEF oldest

\* A ring one over its size loses its oldest row.
LEMMA TrimOldest ==
    ASSUME NEW R \in SUBSET ReplayRows, \A r, s \in R : r.id = s.id => r = s,
           Cardinality(R) = Ring + 1
    PROVE  \E m \in R : /\ oldest(R, Cardinality(R) - Ring) = {m}
                        /\ Cardinality(R \ {m}) = Ring
                        /\ \A s \in R : m.created <= s.created
<1>1. IsFiniteSet(R)
  BY RowsAreFinite
<1>2. R # {}
  BY FS_EmptySet, ReplayAssumption
<1>3. PICK m \in R : \A s \in R : s # m => Older(m, s) /\ ~Older(s, m)
  BY <1>2, OldestRow
<1>4. Cardinality(R) - Ring = 1
  BY ReplayAssumption
<1>5. \A r \in R : r.created \in Nat /\ r.id \in Nat
  BY ReplayAssumption DEF ReplayRows, ReplayIds
<1>6. ~Older(m, m)
  BY <1>5 DEF Older
<1>7. ASSUME NEW r \in R
      PROVE  Cardinality({s \in R : Older(s, r)}) < 1 <=> r = m
  <2> DEFINE S == {s \in R : Older(s, r)}
  <2>1. IsFiniteSet(S)
    BY <1>1, FS_Subset
  <2>2. Cardinality(S) \in Nat /\ (Cardinality(S) = 0 <=> S = {})
    BY <2>1, FS_CardinalityType, FS_EmptySet
  <2>3. S = {} <=> r = m
    BY <1>3, <1>6
  <2> HIDE DEF S
  <2>4. Cardinality(S) < 1 <=> r = m
    BY <2>2, <2>3
  <2> QED BY <2>4 DEF S
<1>8. oldest(R, 1) = {m}
  BY <1>7 DEF oldest
<1>9. Cardinality(R \ {m}) = Ring
  BY <1>1, FS_RemoveElement, ReplayAssumption
<1>10. \A s \in R : m.created <= s.created
  BY <1>3, <1>5 DEF Older
<1> QED BY <1>4, <1>8, <1>9, <1>10

-----------------------------------------------------------------------------
(* A tape is stored.                                                       *)

\* What the transaction does to the ring of one owner.
LEMMA PostReplayStores ==
    ASSUME ReplaysInv, NEW match \in ReplayMatches, NEW file \in TapeFiles,
           PostReplay(match, file)
    PROVE  /\ replays' \subseteq ReplayRows
           /\ RowsAreUnique'
           /\ RowsAreTapes'
           /\ \A o \in ReplayOwners :
                \/ /\ Cardinality(rowsOf(replays', o)) <= Ring
                   /\ rowsOf(replays, o) \subseteq replays'
                \/ /\ Cardinality(rowsOf(replays', o)) = Ring
                   /\ \E m : /\ rowsOf(replays, o) \ replays' \subseteq {m}
                             /\ \A s \in rowsOf(replays', o) : m.created <= s.created
<1>1. PICK tape \in readReplayTape(file) :
        /\ tapeOk(tape)
        /\ insertForOwners(match, tape)
  BY DEF PostReplay
<1>2. tape \in Tapes /\ tape.course \in TapeCourses
  BY <1>1 DEF readReplayTape, TapeFiles, tapeOk
<1> DEFINE free == ReplayIds \ {r.id : r \in replays}
<1>3. PICK ids \in [missing(match) -> free] :
      /\ \A o, p \in missing(match) : o # p => ids[o] # ids[p]
      /\ LET added == replays \cup
                 {[id |-> ids[o], owner |-> o, match |-> match,
                   course |-> tape.course, tape |-> tape,
                   created |-> clock] : o \in missing(match)}
         IN replays' = {r \in added : r \in trimRing(added, r.owner)}
  BY <1>1 DEF insertForOwners
<1> DEFINE new(o) == [id |-> ids[o], owner |-> o, match |-> match,
                      course |-> tape.course, tape |-> tape, created |-> clock]
           added == replays \cup {new(o) : o \in missing(match)}
<1>4. replays' = {r \in added : r \in trimRing(added, r.owner)}
  BY <1>3
<1>5. missing(match) \subseteq ReplayOwners
  BY DEF missing, listOwnersForMatch, ReplaysInv, ReplaysTypeOK
<1>6. ASSUME NEW o \in missing(match)
      PROVE  /\ new(o) \in ReplayRows
             /\ new(o).owner = o /\ new(o).match = match
             /\ new(o).id = ids[o] /\ new(o).created = clock
             /\ new(o).tape = tape /\ new(o).course = tape.course
             /\ \A r \in replays : r.id # ids[o] /\ ~(r.owner = o /\ r.match = match)
  <2>1. ids[o] \in free
    BY <1>3
  <2>2. clock \in Nat
    BY DEF ReplaysInv, ReplaysTypeOK
  <2>3. \A r \in replays : ~(r.owner = o /\ r.match = match)
    BY DEF missing
  <2> QED BY <1>2, <1>5, <2>1, <2>2, <2>3 DEF ReplayRows
<1> HIDE DEF new, free
<1>7. added \subseteq ReplayRows
  BY <1>6 DEF ReplaysInv, ReplaysTypeOK
<1>8. ASSUME NEW r \in added, NEW s \in added,
             r.id = s.id \/ (r.owner = s.owner /\ r.match = s.match)
      PROVE  r = s
  <2>1. CASE r \in replays /\ s \in replays
    BY <1>8, <2>1 DEF ReplaysInv, RowsAreUnique
  <2>2. CASE r \in replays /\ s \notin replays
    BY <1>6, <1>8, <2>2
  <2>3. CASE r \notin replays /\ s \in replays
    BY <1>6, <1>8, <2>3
  <2>4. CASE r \notin replays /\ s \notin replays
    <3>1. PICK o \in missing(match), p \in missing(match) : r = new(o) /\ s = new(p)
      BY <2>4
    <3>2. o = p
      BY <1>3, <1>6, <1>8, <3>1
    <3> QED BY <3>1, <3>2
  <2> QED BY <2>1, <2>2, <2>3, <2>4
<1>9. \A r \in added : tapeOk(r.tape) /\ r.course = r.tape.course
  BY <1>1, <1>6 DEF ReplaysInv, RowsAreTapes
<1>10. ASSUME NEW o \in ReplayOwners
       PROVE  /\ IsFiniteSet(rowsOf(added, o))
              /\ Cardinality(rowsOf(added, o)) \in Nat
              /\ Cardinality(rowsOf(added, o)) <= Ring + 1
              /\ rowsOf(added, o) \in SUBSET ReplayRows
              /\ \A r, s \in rowsOf(added, o) : r.id = s.id => r = s
  <2>1. /\ rowsOf(added, o) \in SUBSET ReplayRows
        /\ \A r, s \in rowsOf(added, o) : r.id = s.id => r = s
    BY <1>7, <1>8 DEF rowsOf
  <2>2. IsFiniteSet(rowsOf(added, o))
    BY <2>1, RowsAreFinite
  <2>3. rowsOf(replays, o) \subseteq rowsOf(added, o)
    BY DEF rowsOf
  <2>4. IsFiniteSet(rowsOf(replays, o))
    BY <2>2, <2>3, FS_Subset
  <2>5. /\ Cardinality(rowsOf(replays, o)) <= Ring
        /\ Cardinality(rowsOf(replays, o)) \in Nat
    BY <2>4, FS_CardinalityType DEF ReplaysInv, RingsAreBounded
  <2>6. CASE o \in missing(match)
    <3>1. rowsOf(added, o) = rowsOf(replays, o) \cup {new(o)}
      BY <1>6, <2>6 DEF rowsOf
    <3>2. Cardinality(rowsOf(added, o)) <= Cardinality(rowsOf(replays, o)) + 1
      <4> DEFINE Q == rowsOf(replays, o)
      <4>1. IsFiniteSet(Q) /\ Cardinality(Q) \in Nat
        BY <2>4, <2>5
      <4> HIDE DEF Q
      <4>2. Cardinality(Q \cup {new(o)}) = Cardinality(Q)
            \/ Cardinality(Q \cup {new(o)}) = Cardinality(Q) + 1
        BY <4>1, FS_AddElement
      <4>3. Cardinality(Q \cup {new(o)}) <= Cardinality(Q) + 1
        BY <4>1, <4>2
      <4> QED BY <3>1, <4>3 DEF Q
    <3> QED BY <2>1, <2>2, <2>5, <3>2, FS_CardinalityType, ReplayAssumption
  <2>7. CASE o \notin missing(match)
    <3>1. rowsOf(added, o) = rowsOf(replays, o)
      BY <1>6, <2>7 DEF rowsOf
    <3> QED BY <2>1, <2>2, <2>5, <3>1, ReplayAssumption
  <2> QED BY <2>6, <2>7
<1> HIDE DEF added
<1>11. ASSUME NEW o \in ReplayOwners
       PROVE  rowsOf(replays', o) = rowsOf(added, o) \
                oldest(rowsOf(added, o), Cardinality(rowsOf(added, o)) - Ring)
  BY <1>4 DEF rowsOf, trimRing
<1>12. replays \subseteq added /\ replays' \subseteq added
  BY <1>4 DEF added
<1>13. replays' \subseteq ReplayRows /\ RowsAreUnique' /\ RowsAreTapes'
  BY <1>7, <1>8, <1>9, <1>12 DEF RowsAreUnique, RowsAreTapes
<1>14. ASSUME NEW o \in ReplayOwners
       PROVE  \/ /\ Cardinality(rowsOf(replays', o)) <= Ring
                 /\ rowsOf(replays, o) \subseteq replays'
              \/ /\ Cardinality(rowsOf(replays', o)) = Ring
                 /\ \E m : /\ rowsOf(replays, o) \ replays' \subseteq {m}
                           /\ \A s \in rowsOf(replays', o) : m.created <= s.created
  <2> DEFINE R == rowsOf(added, o)
  <2>0. rowsOf(replays, o) \subseteq R /\ rowsOf(replays', o) \subseteq replays'
    BY <1>12 DEF rowsOf
  <2>1. CASE Cardinality(R) <= Ring
    <3>1. oldest(R, Cardinality(R) - Ring) = {}
      BY <1>10, <2>1, TrimNothing
    <3>2. rowsOf(replays', o) = R
      BY <1>11, <3>1
    <3> QED BY <2>0, <2>1, <3>2
  <2>2. CASE Cardinality(R) = Ring + 1
    <3>1. PICK m \in R : /\ oldest(R, Cardinality(R) - Ring) = {m}
                         /\ Cardinality(R \ {m}) = Ring
                         /\ \A s \in R : m.created <= s.created
      <4> HIDE DEF R
      <4>1. R \in SUBSET ReplayRows /\ \A r, s \in R : r.id = s.id => r = s
        BY <1>10 DEF R
      <4> QED BY <2>2, <4>1, TrimOldest
    <3>2. rowsOf(replays', o) = R \ {m}
      BY <1>11, <3>1
    <3> QED BY <2>0, <3>1, <3>2
  <2> QED BY <1>10, <2>1, <2>2, ReplayAssumption
<1> QED BY <1>13, <1>14

LEMMA ReplaysInitInv == ReplaysInit => ReplaysInv
<1> SUFFICES ASSUME ReplaysInit PROVE ReplaysInv
  OBVIOUS
<1>1. ReplaysTypeOK /\ RowsAreUnique /\ RowsAreTapes
  BY DEF ReplaysInit, ReplaysTypeOK, RowsAreUnique, RowsAreTapes
<1>2. \A o \in ReplayOwners : rowsOf(replays, o) = {}
  BY DEF ReplaysInit, rowsOf
<1>3. RingsAreBounded
  BY <1>2, FS_EmptySet, ReplayAssumption DEF RingsAreBounded
<1> QED BY <1>1, <1>3 DEF ReplaysInv

LEMMA ReplaysNextInv == ReplaysInv /\ [ReplaysNext]_replayVars => ReplaysInv'
<1> SUFFICES ASSUME ReplaysInv, [ReplaysNext]_replayVars PROVE ReplaysInv'
  OBVIOUS
<1>1. ASSUME NEW match \in ReplayMatches, NEW file \in TapeFiles,
             PostReplay(match, file)
      PROVE  ReplaysInv'
  <2>1. RingsAreBounded'
    <3>1. ASSUME NEW o \in ReplayOwners PROVE Cardinality(rowsOf(replays', o)) <= Ring
      BY <1>1, PostReplayStores, ReplayAssumption
    <3> QED BY <3>1 DEF RingsAreBounded, rowsOf
  <2>2. ReplaysTypeOK'
    BY <1>1, PostReplayStores DEF PostReplay, ReplaysInv, ReplaysTypeOK
  <2> QED BY <1>1, <2>1, <2>2, PostReplayStores DEF ReplaysInv
<1>2. ASSUME UNCHANGED replays, ReplaysTypeOK'
      PROVE  ReplaysInv'
  BY <1>2 DEF ReplaysInv, RowsAreUnique, RowsAreTapes, RingsAreBounded, rowsOf
<1>3. ASSUME NEW match \in ReplayMatches, NEW owner \in ReplayOwners,
             TakeSeat(match, owner)
      PROVE  ReplaysInv'
  BY <1>2, <1>3 DEF TakeSeat, ReplaysInv, ReplaysTypeOK
<1>4. ASSUME NEW match \in ReplayMatches, Unregistered(match)
      PROVE  ReplaysInv'
  BY <1>2, <1>4 DEF Unregistered, ReplaysInv, ReplaysTypeOK
<1>5. CASE ClockTicks
  BY <1>2, <1>5 DEF ClockTicks, ReplaysInv, ReplaysTypeOK
<1>6. CASE UNCHANGED replayVars
  BY <1>2, <1>6 DEF replayVars, ReplaysInv, ReplaysTypeOK
<1> QED BY <1>1, <1>3, <1>4, <1>5, <1>6 DEF ReplaysNext

-----------------------------------------------------------------------------

\* Rows are unique and pass the check, and no ring is over its size.
THEOREM ReplaysInvariant == ReplaysSpec => []ReplaysInv
<1> QED BY ReplaysInitInv, ReplaysNextInv, PTL DEF ReplaysSpec

\* A list is not longer than the ring it shows.
LEMMA ListFitsRing ==
    ASSUME ReplaysInv, NEW o \in ReplayOwners
    PROVE  Cardinality(listForOwner(o)) <= Ring
<1> DEFINE R == rowsOf(replays, o)
           f == [r \in R |-> listItem(r)]
<1>1. IsFiniteSet(R) /\ Cardinality(R) <= Ring
  <2>1. R \in SUBSET ReplayRows /\ \A r, s \in R : r.id = s.id => r = s
    BY DEF rowsOf, ReplaysInv, ReplaysTypeOK, RowsAreUnique
  <2> HIDE DEF R
  <2>2. IsFiniteSet(R)
    BY <2>1, RowsAreFinite
  <2> QED BY <2>2 DEF R, ReplaysInv, RingsAreBounded
<1>2. listForOwner(o) = {f[r] : r \in R}
  BY DEF listForOwner
<1>3. f \in Surjection(R, listForOwner(o))
  BY <1>2 DEF Surjection
<1> HIDE DEF f, R
<1>4. IsFiniteSet(listForOwner(o)) /\ Cardinality(listForOwner(o)) <= Cardinality(R)
  BY <1>1, <1>3, FS_Surjection
<1> QED BY <1>1, <1>4, FS_CardinalityType, ReplayAssumption

\* What a list shows can be opened, by its owner only.
LEMMA ListIsOpened ==
    ASSUME ReplaysInv, NEW o \in ReplayOwners, NEW item \in listForOwner(o),
           NEW p \in ReplayOwners
    PROVE  getReplay(item.id, p) =
             {[item |-> item, tape |-> r.tape] :
                r \in {r \in replays : /\ r.id = item.id /\ r.owner = p
                                       /\ r.tape.path = item.course
                                       /\ r.tape.seats = item.seats}}
<1>1. PICK row \in replays : row.owner = o /\ item = listItem(row)
  BY DEF listForOwner, rowsOf
<1>2. /\ item.id = row.id /\ item.course = row.course
      /\ item.seats = row.tape.finishTicks
  BY <1>1 DEF listItem
<1>3. \A r \in replays : r.id = item.id => r = row
  BY <1>2 DEF ReplaysInv, RowsAreUnique
<1>4. /\ tapeOk(row.tape)
      /\ row.tape.path = item.course /\ row.tape.seats = item.seats
  BY <1>2 DEF ReplaysInv, RowsAreTapes, tapeOk
<1>5. getForOwner(item.id, p) =
        {r \in replays : /\ r.id = item.id /\ r.owner = p
                         /\ r.tape.path = item.course
                         /\ r.tape.seats = item.seats}
  BY <1>3, <1>4 DEF getForOwner, rowsOf
<1>6. \A r \in getForOwner(item.id, p) : r = row
  BY <1>3 DEF getForOwner, rowsOf
<1>7. getReplay(item.id, p) =
        {[item |-> item, tape |-> r.tape] : r \in getForOwner(item.id, p)}
  BY <1>1, <1>4, <1>6 DEF getReplay
<1> QED BY <1>5, <1>7

\* An owner has one replay of a match, no more than the ring, and opens what
\* the list shows.
THEOREM OneReplayOfAMatch == ReplaysSpec => []OneReplayPerMatch
<1>1. ReplaysInv => OneReplayPerMatch
  BY ListFitsRing, ListIsOpened DEF OneReplayPerMatch, ReplaysInv, RowsAreUnique
<1> QED BY <1>1, ReplaysInvariant, PTL

\* The drops of one step, as RingDropsOldest states them.
Drops ==
    \A r \in replays \ replays' :
      /\ Cardinality({s \in replays' : s.owner = r.owner}) = Ring
      /\ \A s \in replays' : s.owner = r.owner => r.created <= s.created

LEMMA StepsDrop == ReplaysInv /\ ReplaysNext => Drops
<1> SUFFICES ASSUME ReplaysInv, ReplaysNext, NEW r \in replays, r \notin replays'
             PROVE  /\ Cardinality({s \in replays' : s.owner = r.owner}) = Ring
                    /\ \A s \in replays' : s.owner = r.owner => r.created <= s.created
  BY DEF Drops
<1>1. PICK match \in ReplayMatches, file \in TapeFiles : PostReplay(match, file)
  BY DEF ReplaysNext, TakeSeat, Unregistered, ClockTicks
<1>2. r.owner \in ReplayOwners /\ r \in rowsOf(replays, r.owner)
  BY DEF ReplaysInv, ReplaysTypeOK, ReplayRows, rowsOf
<1>3. /\ Cardinality(rowsOf(replays', r.owner)) = Ring
      /\ \E m : /\ rowsOf(replays, r.owner) \ replays' \subseteq {m}
                /\ \A s \in rowsOf(replays', r.owner) : m.created <= s.created
  BY <1>1, <1>2, PostReplayStores
<1> QED BY <1>2, <1>3 DEF rowsOf

\* A full ring pushes out its oldest replay, and nothing else ever goes.
THEOREM RingsDropTheOldest == ReplaysSpec => RingDropsOldest
<1>1. ReplaysInv /\ [ReplaysNext]_replayVars => [Drops]_replayVars
  BY StepsDrop
<1> QED BY <1>1, ReplaysInvariant, PTL DEF ReplaysSpec, RingDropsOldest, Drops
=============================================================================
