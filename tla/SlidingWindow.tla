--------------------------- MODULE SlidingWindow ---------------------------
(***************************************************************************)
(* What a bounded history promises: it holds the last Capacity items       *)
(* appended, oldest first.                                                 *)
(***************************************************************************)
EXTENDS Naturals, Sequences

CONSTANTS Item, Capacity

VARIABLE window

Init == window = <<>>

Append1(t) ==
  window' = IF Len(window) < Capacity
            THEN Append(window, t)
            ELSE Append(Tail(window), t)

Clear == window' = <<>>

Next == Clear \/ \E t \in Item : Append1(t)

Spec == Init /\ [][Next]_window
=============================================================================
