--------------------------- MODULE MCReservations ---------------------------
(***************************************************************************)
(* Small instances of Reservations for TLC.                                *)
(***************************************************************************)
EXTENDS ReservationProps

CONSTANTS a1, a2, j1, j2

OneAccount  == {a1}
TwoAccounts == {a1, a2}
OneJob      == {j1}
TwoJobs     == {j1, j2}
OwnedByA1   == [j \in Jobs |-> a1]
CostTwo     == [j \in Jobs |-> 2]
=============================================================================
