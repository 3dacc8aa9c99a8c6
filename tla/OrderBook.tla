----------------------------- MODULE OrderBook -----------------------------
(***************************************************************************)
(* The order book of the coincheck panel (src/src/gui/coincheck-gui.c)     *)
(* together with the order form its rows fill in.  Once a second the whole *)
(* book is replaced by the exchange's answer, while the user selects rows  *)
(* and edits the form.                                                     *)
(*                                                                         *)
(* An answer is a document with asks and bids, sequences of rows of a rate *)
(* and an amount, or one of the ways in which no such document arrives.    *)
(***************************************************************************)
EXTENDS OrderForm, Sequences, FiniteSetsExt, SequencesExt

CONSTANTS
  Documents,   \* the answers with asks and bids
  Depth        \* MAX_ORDERS_DEPTH, 30

Tree == {"asks", "bids"}

ASSUME BookAssumption ==
  /\ Depth \in Nat \ {0}
  /\ \A d \in Documents : d \in [Tree -> Seq([rate : Rate, amount : Nat])]

VARIABLES
  store,      \* the models of ask_orders and bid_orders
  selected,   \* the position of the row that is selected, 0 if none is
  source      \* the document the models were made of, history

book == <<store, selected, source>>
vars == <<form, book>>

Row == [rate : Rate, amount : Nat, scales : 0..100]
NoRows == [t \in Tree |-> <<>>]

Init ==
  /\ FormInit
  /\ store = NoRows
  /\ selected = [t \in Tree |-> 0]
  /\ source = NoRows

-----------------------------------------------------------------------------
(* update_orders *)

Listed(d, t) == SubSeq(d[t], 1, Min({Len(d[t]), Depth}))
AmountsOf(rows) == {rows[i].amount : i \in DOMAIN rows}

(* Slip: every column has a scale of its own. *)
max_amount_PerTree(d, t) == Max({0} \cup AmountsOf(Listed(d, t)))

(* The greatest amount that is listed, for the bars of column t. *)
max_amount(d, t) == Max({0} \cup UNION {AmountsOf(Listed(d, u)) : u \in Tree})

(* A bar is drawn in whole percents. *)
Scaled(d, t) ==
  LET most == max_amount(d, t)
      Bar(row) == [rate |-> row.rate, amount |-> row.amount,
                   scales |-> IF most = 0 THEN 0
                              ELSE Min({100, (100 * row.amount) \div most})]
      rows == Listed(d, t)
  IN  [i \in DOMAIN rows |-> Bar(rows[i])]

(* Slip: a side without rows is left as it is. *)
update_orders_SkipsEmpty(d) ==
  /\ store' = [t \in Tree |-> IF d[t] = <<>> THEN store[t] ELSE Scaled(d, t)]
  /\ selected' = [t \in Tree |-> 0]
  /\ source' = d
  /\ UNCHANGED form

(* Both models are replaced.  GTK clears the selection of a tree whose     *)
(* model is set and emits "changed"; the handlers find nothing selected.   *)
update_orders(d) ==
  /\ store' = [t \in Tree |-> Scaled(d, t)]
  /\ selected' = [t \in Tree |-> 0]
  /\ source' = d
  /\ UNCHANGED form

(* update_order_book with a document, *)
update_order_book(d) ==
  /\ ~aborted
  /\ update_orders(d)

(* and with a document that lacks asks or bids, an assertion, or has a row *)
(* without an amount, a NULL for atof.  A call that fails or that returns  *)
(* no document changes nothing.                                            *)
update_order_book_aborts ==
  /\ ~aborted
  /\ aborted' = TRUE
  /\ UNCHANGED <<rate, amount, sensitive, sent, book>>

-----------------------------------------------------------------------------
(* The user selects row i of tree t; for a row that is selected already    *)
(* GTK emits nothing.                                                      *)
SelectRow(t, i) ==
  LET row == store[t][i]
  IN  /\ i # selected[t]
      /\ selected' = [selected EXCEPT ![t] = i]
      /\ IF t = "asks" THEN SelectAsk(row.rate, row.amount)
         ELSE SelectBid(row.rate, row.amount)
      /\ UNCHANGED <<store, source>>

Next ==
  \/ FormNext /\ UNCHANGED book
  \/ \E d \in Documents : update_order_book(d)
  \/ update_order_book_aborts
  \/ \E t \in Tree : \E i \in DOMAIN store[t] : SelectRow(t, i)

Spec == Init /\ [][Next]_vars

-----------------------------------------------------------------------------
(* The variables hold values of their types. *)
TypeOK ==
  /\ FormTypeOK
  /\ store \in [Tree -> Seq(Row)]
  /\ selected \in [Tree -> 0..Depth]
  /\ source \in Documents \cup {NoRows}

(* The bars of asks and bids can be compared: a full bar is exactly that   *)
(* of the greatest amount on either side, and more is never drawn shorter, *)
(* also when rows beyond the depth are greater than every row shown.       *)
BarsComparable ==
  LET shown == ToSet(store["asks"]) \cup ToSet(store["bids"])
  IN  \A r, q \in shown :
        /\ r.amount >= q.amount => r.scales >= q.scales
        /\ r.scales = 100 => r.amount >= q.amount
        /\ (\A x \in shown : r.amount >= x.amount) /\ r.amount > 0 => r.scales = 100

(* The two trees show the two sides of one answer, the last one that was a *)
(* book: no side is left over from an earlier one when the new one is      *)
(* empty, and a failed answer takes nothing away.                          *)
OneAnswer ==
  \A t \in Tree :
    /\ Len(store[t]) = Min({Len(source[t]), Depth})
    /\ \A i \in DOMAIN store[t] :
         store[t][i].rate = source[t][i].rate /\ store[t][i].amount = source[t][i].amount

(* Selecting an ask leaves the buy button sensitive exactly when its       *)
(* amount can be ordered, whatever the form and the button were before.    *)
AskArmsBuy ==
  [][\A i \in DOMAIN store["asks"] :
       SelectRow("asks", i) => (sensitive'["buy"] <=> amount'["buy"] >= GuiMinimum)]_vars

(* The same for a bid and the sell button, which the comment at            *)
(* coincheck-gui.c:318 says is updated; line 321 calls the buy callback.   *)
BidArmsSell ==
  [][\A i \in DOMAIN store["bids"] :
       SelectRow("bids", i) => (sensitive'["sell"] <=> amount'["sell"] >= GuiMinimum)]_vars
=============================================================================
