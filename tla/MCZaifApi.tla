----------------------------- MODULE MCZaifApi -----------------------------
(* Model checking of ZaifApi: the five functions of InfoApis differ in     *)
(* nothing but their name, so one stands for them.  Two requests and two   *)
(* pairs let a failed call stand before another.                           *)
EXTENDS ZaifApi, TLC

OneOfEach == {"get_currency", "get_info", "active_orders", "buy",
              "cancel_order"}

Symmetry == Permutations(Obj)
=============================================================================
