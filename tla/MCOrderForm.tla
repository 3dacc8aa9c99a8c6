---------------------------- MODULE MCOrderForm ----------------------------
(* Model checking of OrderBook with its OrderForm.  Amounts of 1 and 2     *)
(* pass the form and are below the exchange's minimum of 3, 5 is outside   *)
(* the spin buttons' range of 0..4, two rates tell a new text from an old  *)
(* one.  The answers have an empty side on either side, rows of nothing,   *)
(* and a third row, beyond the depth of 2, that is greater than the rest.  *)
EXTENDS OrderBook

CONSTANTS r1, r2

Entry(r, x) == [rate |-> r, amount |-> x]
MCDocuments ==
  { [asks |-> <<Entry(r1, 2), Entry(r2, 5), Entry(r1, 7)>>,
     bids |-> <<Entry(r2, 3)>>],
    [asks |-> <<>>, bids |-> <<Entry(r2, 1), Entry(r1, 4)>>],
    [asks |-> <<Entry(r2, 0), Entry(r1, 3)>>, bids |-> <<>>],
    [asks |-> <<Entry(r1, 0)>>, bids |-> <<Entry(r1, 0)>>] }
=============================================================================
