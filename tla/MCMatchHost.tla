------------------------------ MODULE MCMatchHost ------------------------------
EXTENDS MatchHost, TLC

CONSTANTS official, content

(* One match with a tape to post, one with an envelope to fetch, and any   *)
(* number with neither.                                                    *)
MCPlan ==
    [m \in Matches |->
        CASE m = official -> "official" [] m = content -> "content" [] OTHER -> "blueprint"]

MCPort == 42000
MCLastPort == 42001

Symmetry == Permutations(Matches \ {official, content}) \cup Permutations(Sweeps)
=============================================================================
