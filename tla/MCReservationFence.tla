------------------------- MODULE MCReservationFence -------------------------
(* The bounds of each run are in its configuration.                         *)
EXTENDS ReservationFence
=============================================================================
