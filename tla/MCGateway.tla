------------------------------- MODULE MCGateway -------------------------------
EXTENDS Gateway

CONSTANTS room

(* A room of one seat, so that the second ticket is a reconnect.           *)
MCSeatsOf == [spec \in Specs |-> 1]
=============================================================================
