---------------------------- MODULE MCTickerRing ----------------------------
(* Model checking of TickerRing under the Chart that reads it: four slots  *)
(* let reads of one, two and three samples fall before, across and behind  *)
(* the end of the array.  The documents are an error without prices, two   *)
(* tickers, one without its low, one without its last, and one with its    *)
(* low and high exchanged; two tickers fit into the height of the chart, a *)
(* zero beside them does not.                                              *)
EXTENDS Chart

NoPrices == [k \in {} |-> 0]
MCDocuments ==
  { NoPrices,
    [low |-> 4, last |-> 5, high |-> 7],
    [low |-> 5, last |-> 7, high |-> 8],
    [last |-> 5, high |-> 7],
    [low |-> 4, high |-> 7],
    [low |-> 9, last |-> 6, high |-> 5] }
MCTickers == {Read(d) : d \in MCDocuments}
=============================================================================
