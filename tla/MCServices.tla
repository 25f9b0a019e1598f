----------------------------- MODULE MCServices -----------------------------
(***************************************************************************)
(* The services of the control plane that share no state, in one run: focus *)
(* picks at the start the service that moves, the others stay as they are.  *)
(***************************************************************************)
EXTENDS Accounts, ContentStore, Replays, Settlement, PlaySpec, MatchLaunch,
        TLC

CONSTANTS bundle1, bundle2

VARIABLE focus

serviceVars ==
    <<focus, accountVars, contentVars, replayVars, settlementVars, playVars,
      launchVars>>

MCGameplayOf(content) == IF content = bundle1 THEN "bastion" ELSE "other"
MCBagsOf(content) == IF content = bundle1 THEN {"portals", "spawns"} ELSE {}
MCSchemaOf(content) == IF content = bundle1 THEN 2 ELSE 3
MCTagBags == {<<"portal", "portals">>, <<"core", "obstacle_cores">>}
MCTagLists == {<<"portal">>, <<"portal", "portal">>}
MCStored == {<<"ugc", 1>>, <<"ugc", 2>>}

\* What holds of the pure functions, for every input of the instance.
ASSUME SettlementCheck == AcceptsExactlyRankings
ASSUME PatchCheck == ClassifiesLiveFields
ASSUME PlayCheck == RoundTrips

ServicesInit ==
    /\ focus \in {"accounts", "content", "replays", "settlement", "play", "launch"}
    /\ AccountsInit
    /\ ContentInit
    /\ ReplaysInit
    /\ IF focus = "settlement" THEN SettlementInit
       ELSE SettlementInit /\ gameplay = "traprush" /\ DOMAIN finish = {0}
    /\ PlayInit
    /\ LaunchInit

ServicesNext ==
    /\ UNCHANGED focus
    /\ \/ /\ focus = "accounts" /\ AccountsNext
          /\ UNCHANGED <<contentVars, replayVars, settlementVars,
                         playVars, launchVars>>
       \/ /\ focus = "content" /\ ContentNext
          /\ UNCHANGED <<accountVars, replayVars, settlementVars,
                         playVars, launchVars>>
       \/ /\ focus = "replays" /\ ReplaysNext
          /\ UNCHANGED <<accountVars, contentVars, settlementVars,
                         playVars, launchVars>>
       \/ /\ focus = "settlement" /\ SettlementNext
          /\ UNCHANGED <<accountVars, contentVars, replayVars,
                         playVars, launchVars>>
       \/ /\ focus = "play" /\ PlayNext
          /\ UNCHANGED <<accountVars, contentVars, replayVars,
                         settlementVars, launchVars>>
       \/ /\ focus = "launch" /\ LaunchNext
          /\ UNCHANGED <<accountVars, contentVars, replayVars,
                         settlementVars, playVars>>

-----------------------------------------------------------------------------

\* The fairness of FairSettlementSpec, for the one service here that needs any.
Settling(A) ==
    /\ focus = "settlement" /\ A
    /\ UNCHANGED <<focus, accountVars, contentVars, replayVars, playVars, launchVars>>

ServicesSpec ==
    /\ ServicesInit /\ [][ServicesNext]_serviceVars
    /\ WF_serviceVars(Settling(PhysicsFrame))
    /\ SF_serviceVars(Settling(HeartbeatFrame))
    /\ SF_serviceVars(Settling(HostPosts))
=============================================================================
