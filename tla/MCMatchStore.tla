----------------------------- MODULE MCMatchStore -----------------------------
EXTENDS MatchStore, TLC

CONSTANTS solo, duo

(* A one-seat and a two-seat spec: the smallest room that can be full at   *)
(* once and the smallest one two players share.                            *)
MCSeatsOf == [spec \in Specs |-> IF spec = solo THEN 1 ELSE 2]

Symmetry == Permutations(Matches) \cup Permutations(RoomCodes) \cup Permutations(Results)
=============================================================================
