----------------------------- MODULE MCHttpJson -----------------------------
(* Model checking of HttpJson: three objects are enough for one held by    *)
(* the context, one held by a caller and one lost or free.                 *)
EXTENDS HttpJson, TLC

Symmetry == Permutations(Obj)
=============================================================================
