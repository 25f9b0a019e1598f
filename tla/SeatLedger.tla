------------------------------ MODULE SeatLedger ------------------------------
(***************************************************************************)
(* What the control plane promises about seats, with no tickets in it: an  *)
(* open match has a fixed number of seats, they are given out in order,    *)
(* and a seat stays with the player it was given to until the match is     *)
(* closed.  MatchStore, where a seat is held through a chain of tickets    *)
(* that expire, are consumed and supersede one another, implements this.   *)
(***************************************************************************)
EXTENDS Integers, Sequences

CONSTANTS
    Matches,     \* match ids
    Sizes,       \* the seat counts a match may be opened with
    Holders      \* who may hold a seat

VARIABLES
    size,        \* size[m]: seats of the open match m, 0 while m is closed
    holder       \* holder[m]: the holders of m's seats 0, 1, 2, ... in order

ledgerVars == <<size, holder>>

LedgerInit ==
    /\ size = [m \in Matches |-> 0]
    /\ holder = [m \in Matches |-> << >>]

Open(m) ==
    /\ size[m] = 0
    /\ \E n \in Sizes : size' = [size EXCEPT ![m] = n]
    /\ UNCHANGED holder

(* The next seat goes to h; a full match gives out nothing.                *)
Take(m, h) ==
    /\ Len(holder[m]) < size[m]
    /\ holder' = [holder EXCEPT ![m] = Append(@, h)]
    /\ UNCHANGED size

(* Closing is the only way a seat is ever given up.                        *)
Close(m) ==
    /\ size[m] # 0
    /\ size' = [size EXCEPT ![m] = 0]
    /\ holder' = [holder EXCEPT ![m] = << >>]

LedgerNext ==
    \E m \in Matches :
        \/ Open(m)
        \/ Close(m)
        \/ \E h \in Holders : Take(m, h)

LedgerSpec == LedgerInit /\ [][LedgerNext]_ledgerVars
=============================================================================
