---------------------------- MODULE MCAutoBuffer ----------------------------
(* Model checking of AutoBuffer: units of three bytes, so that pushes of   *)
(* one and two cross the end of one and of the next at every offset, and   *)
(* lines of up to a unit, as in the code where PATH_MAX is the unit.       *)
EXTENDS AutoBuffer
=============================================================================
