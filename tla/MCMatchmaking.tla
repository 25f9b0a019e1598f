---------------------------- MODULE MCMatchmaking ----------------------------
EXTENDS Matchmaking, TLC

CONSTANTS solo, duo, alice

MCSeatsOf == [spec \in Specs |-> IF spec = solo THEN 1 ELSE 2]

MCIdentity == [r \in Requests |-> alice]

Symmetry == Permutations(Requests) \cup Permutations(Matches) \cup Permutations(RoomCodes)
=============================================================================
