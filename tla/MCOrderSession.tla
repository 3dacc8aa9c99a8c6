--------------------------- MODULE MCOrderSession ---------------------------
(* Model checking of OrderSession with a second client: two orders of two  *)
(* units can trade in turns and be filled in part; three refreshes let one *)
(* that failed come between two that did not; one command of the tool      *)
(* places an order or cancels two between any two requests of the panel.   *)
EXTENDS Cli
=============================================================================
