--------------------------- MODULE MCElevatorRide ---------------------------
(***************************************************************************)
(* ElevatorRide with the times of elevator_floor_node.py in windows of half *)
(* a second: 2.6, 5.8, 8.5, 12.5 and 15.3 seconds.                          *)
(***************************************************************************)
EXTENDS ElevatorRide

HalfSeconds == <<6, 12, 17, 25, 31>>
=============================================================================
