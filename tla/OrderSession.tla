---------------------------- MODULE OrderSession ----------------------------
(***************************************************************************)
(* Placing, listing and cancelling orders: the callbacks of the coincheck  *)
(* panel (src/src/gui/coincheck-gui.c), the two lists they fetch and the   *)
(* trees they fill (src/src/gui/order_history.c), against an exchange that *)
(* goes on trading between any two requests of one callback.               *)
(*                                                                         *)
(* A callback is a queue of steps.  A request step is answered or not, and *)
(* the exchange may have done what was asked although no answer came.  An  *)
(* order is Units units large and is filled one unit at a time.            *)
(***************************************************************************)
EXTENDS Naturals, Sequences, SequencesExt

CONSTANTS
  Units,        \* size of an order
  MaxOrders,    \* bound: orders accepted, named in the order of acceptance
  MaxRefreshes  \* bound: times the lists are fetched

ASSUME SessionAssumption ==
  Units \in Nat \ {0} /\ MaxOrders \in Nat /\ MaxRefreshes \in Nat

VARIABLES
  \* the exchange
  placed,      \* orders accepted
  pending,     \* units of each order still open
  trades,      \* the units traded, oldest first
  \* the panel
  todo,        \* what the running callback still has to do
  target,      \* the order of the row that was activated
  history,     \* order_history.orders
  generation,  \* which allocation history is, the earlier ones are freed
  unsettled,   \* order_history.unsettled_orders
  tree,        \* the model of orders_tree
  rows         \* the model of unsettled_tree

exchange == <<placed, pending, trades>>
lists == <<history, generation, unsettled>>
vars == <<exchange, todo, target, lists, tree, rows>>

Order == 1..MaxOrders
Trade == [order : Order, created_at : 1..(Units * MaxOrders)]

(* The units listed as pending, and of the listing itself: how many orders *)
(* there were when it was asked for, whether it was answered, and which of *)
(* its rows a refused cancellation has taken away since.                   *)
Listing == [pending : [Order -> 0..Units],
            upto : 0..MaxOrders, answered : BOOLEAN, refused : SUBSET Order]
NothingPending == [o \in Order |-> 0]
NoListing ==
  [pending |-> NothingPending, upto |-> 0, answered |-> FALSE, refused |-> {}]

(* The steps of order_history_get_orders and order_history_update; the     *)
(* slip fetches the two lists in the other order.                          *)
get_orders_Swapped == <<"unsettled", "history", "show">>
get_orders == <<"history", "unsettled", "show">>

Idle == todo = <<>>
Step(s) == todo # <<>> /\ Head(todo) = s

Init ==
  /\ placed = 0
  /\ pending = NothingPending
  /\ trades = <<>>
  /\ todo = <<>>
  /\ target = 0
  /\ history = <<>> /\ generation = 0
  /\ unsettled = NoListing
  /\ tree = [generation |-> 0, parents |-> <<>>, trades |-> <<>>]
  /\ rows = NoListing

-----------------------------------------------------------------------------
(* A unit of an open order is traded. *)
Fill(o) ==
  /\ pending[o] > 0
  /\ pending' = [pending EXCEPT ![o] = @ - 1]
  /\ trades' = Append(trades, [order |-> o, created_at |-> Len(trades) + 1])
  /\ UNCHANGED <<placed, todo, target, lists, tree, rows>>

-----------------------------------------------------------------------------
(* Callbacks start when no other is running. *)

(* coincheck_panel_btc_buy and coincheck_panel_btc_sell. *)
on_clicked ==
  /\ Idle
  /\ generation < MaxRefreshes
  /\ todo' = <<"new_order">>
  /\ UNCHANGED <<exchange, target, lists, tree, rows>>

(* on_refresh; coincheck_panel_init does the same in another order. *)
on_refresh ==
  /\ Idle
  /\ generation < MaxRefreshes
  /\ todo' = get_orders \o <<"balance">>
  /\ UNCHANGED <<exchange, target, lists, tree, rows>>

(* on_row_activated_unsettled_tree, in the column of the cancel button. *)
on_row_activated(o) ==
  /\ Idle
  /\ rows.pending[o] > 0
  /\ target' = o
  /\ todo' = <<"cancel">>
  /\ UNCHANGED <<exchange, lists, tree, rows>>

-----------------------------------------------------------------------------
(* coincheck_new_order: a document, success or not, is followed by a       *)
(* refresh of everything, an error or an empty answer by nothing.          *)
new_order(accepted, replied) ==
  /\ Step("new_order")
  /\ accepted => placed < MaxOrders
  /\ IF accepted
     THEN /\ placed' = placed + 1
          /\ pending' = [pending EXCEPT ![placed + 1] = Units]
     ELSE UNCHANGED <<placed, pending>>
  /\ todo' = IF replied THEN <<"balance">> \o get_orders ELSE <<>>
  /\ UNCHANGED <<trades, target, lists, tree, rows>>

(* The row of the order that was to be cancelled goes. *)
RowRemoved(done, rc0) ==
  [rows EXCEPT !.pending[target] = 0,
               !.refused = IF rc0 /\ ~done THEN @ \cup {target} ELSE @]

(* Slip: the row goes whatever cancel_order returned. *)
cancel_order_IgnoreResult(done, rc0) ==
  /\ Step("cancel")
  /\ done => pending[target] > 0
  /\ pending' = IF done THEN [pending EXCEPT ![target] = 0] ELSE pending
  /\ rows' = RowRemoved(done, rc0)
  /\ todo' = IF rc0 THEN <<"balance">> ELSE <<>>
  /\ UNCHANGED <<placed, trades, target, lists, tree>>

(* coincheck_cancel_order: a return of 0 removes the row, also when the    *)
(* document says success false.                                            *)
cancel_order(done, rc0) ==
  /\ Step("cancel")
  /\ done => pending[target] > 0
  /\ pending' = IF done THEN [pending EXCEPT ![target] = 0] ELSE pending
  /\ rows' = IF rc0 THEN RowRemoved(done, rc0) ELSE rows
  /\ todo' = IF rc0 THEN <<"balance">> ELSE <<>>
  /\ UNCHANGED <<placed, trades, target, lists, tree>>

(* update_balance: whatever the answer, the callback goes on. *)
update_balance ==
  /\ Step("balance")
  /\ todo' = Tail(todo)
  /\ UNCHANGED <<exchange, target, lists, tree, rows>>

(* order_details_compare: by order, then by time, the newest first.        *)
Before(a, b) ==
  \/ a.order > b.order
  \/ a.order = b.order /\ a.created_at > b.created_at

(* The place of the i-th entry in that order.  Entries that compare equal  *)
(* keep their places, which qsort does not promise: they are equal in      *)
(* every field of the model, so the list is the same either way.           *)
Rank(ts, i) ==
  Cardinality({j \in DOMAIN ts :
                 Before(ts[j], ts[i]) \/ (j <= i /\ ~Before(ts[i], ts[j]))})

(* parse_json_orders sorts the entries; the slip does not.                 *)
sorted_Not(ts) == ts
sorted(ts) ==
  [k \in DOMAIN ts |-> ts[CHOOSE i \in DOMAIN ts : Rank(ts, i) = k]]

(* Slip: a failed reply ends the refresh. *)
get_order_history_GivesUp(ok) ==
  /\ Step("history")
  /\ history' = IF ok THEN sorted(Reverse(trades)) ELSE <<>>
  /\ generation' = generation + 1
  /\ todo' = IF ok THEN Tail(todo) ELSE <<>>
  /\ UNCHANGED <<exchange, target, unsettled, tree, rows>>

(* clear_orders_list frees every entry, then the history is fetched: an    *)
(* error, an empty answer and success false all leave the list empty.      *)
get_order_history(ok) ==
  /\ Step("history")
  /\ history' = IF ok THEN sorted(Reverse(trades)) ELSE <<>>
  /\ generation' = generation + 1
  /\ todo' = Tail(todo)
  /\ UNCHANGED <<exchange, target, unsettled, tree, rows>>

(* The same for the unsettled orders: without an answer there are none.    *)
get_unsettled_orders(ok) ==
  /\ Step("unsettled")
  /\ unsettled' = [pending |-> IF ok THEN pending ELSE NothingPending,
                   upto |-> placed, answered |-> ok, refused |-> {}]
  /\ todo' = Tail(todo)
  /\ UNCHANGED <<exchange, target, history, generation, tree, rows>>

(* The parents of order_history_update: the entries whose order is not     *)
(* that of the entry before, each with the order it is opened for.         *)
Parents(h) ==
  [i \in {i \in DOMAIN h : i = 1 \/ h[i - 1].order # h[i].order} |-> h[i].order]

order_history_update ==
  /\ Step("show")
  /\ tree' = [generation |-> generation, parents |-> Parents(history), trades |-> history]
  /\ rows' = unsettled
  /\ todo' = Tail(todo)
  /\ UNCHANGED <<exchange, target, lists>>

Next ==
  \/ \E o \in Order : Fill(o)
  \/ on_clicked
  \/ on_refresh
  \/ \E o \in Order : on_row_activated(o)
  \/ \E accepted, replied \in BOOLEAN : new_order(accepted, replied)
  \/ \E done, rc0 \in BOOLEAN : cancel_order(done, rc0)
  \/ update_balance
  \/ \E ok \in BOOLEAN : get_order_history(ok)
  \/ \E ok \in BOOLEAN : get_unsettled_orders(ok)
  \/ order_history_update

-----------------------------------------------------------------------------
Traded(ts, o) == Cardinality({i \in DOMAIN ts : ts[i].order = o})

(* No unit of an order is listed twice, as traded and as pending, although *)
(* the exchange trades between the requests for the two lists.             *)
NoDoubleCount ==
  \A o \in Order : Traded(tree.trades, o) + rows.pending[o] <= Units

(* An open order that had been accepted when the rows on display were      *)
(* fetched has no row only if the exchange refused to cancel it since that *)
(* fetch, or if the fetch failed, which leaves no row at all.  A lost      *)
(* cancellation, a lost answer to one and an order that failed take no row *)
(* away, and a refused cancellation does so until the next refresh only.   *)
OpenOrdersListed ==
  \A o \in 1..rows.upto : pending[o] > 0 /\ rows.pending[o] = 0 =>
    \/ o \in rows.refused
    \/ ~rows.answered /\ rows.pending = NothingPending

(* When the main loop draws the tree, no row points to details that        *)
(* clear_orders_list has freed, also after a refresh that failed.          *)
DataPtrsLive ==
  Idle /\ tree.parents # <<>> => tree.generation = generation

(* The trades of an order are listed under one parent, though orders trade *)
(* in turns.                                                               *)
OneParentPerOrder ==
  \A i, j \in DOMAIN tree.parents : tree.parents[i] = tree.parents[j] => i = j
=============================================================================
