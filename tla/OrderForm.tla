----------------------------- MODULE OrderForm -----------------------------
(***************************************************************************)
(* The order form of the coincheck panel (src/src/gui/coincheck-gui.c): on *)
(* each side, buy and sell, a rate entry, an amount spin button and the    *)
(* button that sends the order, and the two selections of the order book   *)
(* that fill a side in.                                                    *)
(*                                                                         *)
(* A rate is a text: empty, one atof reads as less than 1, or a member of  *)
(* Rate.  Amounts count thousandths of a bitcoin, the digits of the spin   *)
(* button.  GTK emits "value-changed" only when the value changes and      *)
(* "activate" only when return is pressed in the entry.                    *)
(***************************************************************************)
EXTENDS Naturals

CONSTANTS
  Rate,           \* texts of at least 1.0
  GuiMinimum,     \* 0.001, the least amount the form lets through
  OrderMinimum,   \* COINCHECK_ORDER_BTC_AMOUNT_MIN, 0.005
  SpinMaximum,    \* 100.0, the end of the range of the spin buttons
  NoOrder

Side == {"buy", "sell"}
Empty == "empty"
Below == "below"

ASSUME FormAssumption ==
  /\ Empty \notin Rate /\ Below \notin Rate
  /\ GuiMinimum \in Nat /\ OrderMinimum \in Nat /\ SpinMaximum \in Nat

VARIABLES
  rate,       \* the texts of btc_buy_rate and btc_sell_rate
  amount,     \* the values of btc_buy_amount and btc_sell_amount
  sensitive,  \* of the buttons btc_buy and btc_sell
  sent,       \* the last order posted
  aborted     \* an assertion failed: the process is gone

form == <<rate, amount, sensitive, sent, aborted>>

Text == Rate \cup {Empty, Below}
Amount == 0..SpinMaximum
Order == [side : Side, rate : Text, amount : Amount]

FormInit ==
  /\ rate = [s \in Side |-> Empty]
  /\ amount = [s \in Side |-> 0]
  /\ sensitive = [s \in Side |-> FALSE]
  /\ sent = NoOrder
  /\ aborted = FALSE

-----------------------------------------------------------------------------
(* The callbacks, as the sensitivity they leave behind for texts r,        *)
(* amounts a and buttons b.                                                *)

(* Slip: a rate that is refused leaves the button as it is. *)
rate_changed_OnlyArms(b, s, text, a) ==
  IF text \in Rate /\ a[s] >= GuiMinimum THEN [b EXCEPT ![s] = TRUE] ELSE b

(* coincheck_panel_buy_rate_changed(entry) and sell_rate_changed: the      *)
(* amount is that of side s, the text that of the entry they were given.   *)
rate_changed(b, s, text, a) ==
  IF text = Empty THEN b
  ELSE [b EXCEPT ![s] = text # Below /\ a[s] >= GuiMinimum]

(* coincheck_panel_buy_amount_changed and sell_amount_changed never make a *)
(* button insensitive.                                                     *)
amount_changed(b, s, r, a) ==
  IF r[s] \in Rate /\ a[s] >= GuiMinimum THEN [b EXCEPT ![s] = TRUE] ELSE b

(* Slip: no limit. *)
Clip_None(x) == x

(* gtk_spin_button_set_value and the callback it emits. *)
Clip(x) == IF x > SpinMaximum THEN SpinMaximum ELSE x
set_value(b, s, r, x) ==
  IF Clip(x) = amount[s] THEN b
  ELSE amount_changed(b, s, r, [amount EXCEPT ![s] = Clip(x)])

-----------------------------------------------------------------------------
(* The user edits a rate, and may or may not press return. *)
EditRate(s, text) ==
  /\ ~aborted
  /\ rate' = [rate EXCEPT ![s] = text]
  /\ UNCHANGED <<amount, sensitive, sent, aborted>>

ActivateRate(s) ==
  /\ ~aborted
  /\ sensitive' = rate_changed(sensitive, s, rate[s], amount)
  /\ UNCHANGED <<rate, amount, sent, aborted>>

ChangeAmount(s, x) ==
  /\ ~aborted
  /\ x # amount[s]
  /\ amount' = [amount EXCEPT ![s] = x]
  /\ sensitive' = set_value(sensitive, s, rate, x)
  /\ UNCHANGED <<rate, sent, aborted>>

(* A row of the book is selected: on_ask_orders_selection_changed fills    *)
(* the buy side in, on_bid_orders_selection_changed the sell side, and     *)
(* both end in buy_rate_changed.                                           *)
Select(s, text, x) ==
  LET r == [rate EXCEPT ![s] = text]
      a == [amount EXCEPT ![s] = Clip(x)]
  IN  /\ ~aborted
      /\ rate' = r
      /\ amount' = a
      /\ sensitive' =
           rate_changed(set_value(sensitive, s, r, x), "buy", text, a)
      /\ UNCHANGED <<sent, aborted>>

SelectAsk(text, x) == Select("buy", text, x)
SelectBid(text, x) == Select("sell", text, x)

(* Slip: the handler trusts the sensitivity of its button. *)
Valid_Unchecked(s) == sensitive[s]

(* What coincheck_panel_btc_buy and btc_sell check again. *)
Valid(s) == rate[s] \in Rate /\ amount[s] >= GuiMinimum

(* A sensitive button is clicked: coincheck_panel_btc_buy or btc_sell, up  *)
(* to and including the assertion at the head of coincheck_new_order.      *)
Refuse(s) ==
  /\ ~aborted
  /\ sensitive[s]
  /\ ~Valid(s)
  /\ sensitive' = [sensitive EXCEPT ![s] = FALSE]
  /\ UNCHANGED <<rate, amount, sent, aborted>>

Submit(s) ==
  /\ ~aborted
  /\ sensitive[s]
  /\ Valid(s)
  /\ IF amount[s] >= OrderMinimum
     THEN /\ sent' = [side |-> s, rate |-> rate[s], amount |-> amount[s]]
          /\ UNCHANGED aborted
     ELSE /\ aborted' = TRUE
          /\ UNCHANGED sent
  /\ UNCHANGED <<rate, amount, sensitive>>

(* What the user does to the form itself; OrderBook adds the selections. *)
FormNext ==
  \E s \in Side :
    \/ \E text \in Text : EditRate(s, text)
    \/ ActivateRate(s)
    \/ \E x \in Amount : ChangeAmount(s, x)
    \/ Refuse(s)
    \/ Submit(s)

-----------------------------------------------------------------------------
(* The variables hold values of their types. *)
FormTypeOK ==
  /\ rate \in [Side -> Text]
  /\ amount \in [Side -> Amount]
  /\ sensitive \in [Side -> BOOLEAN]
  /\ sent \in Order \cup {NoOrder}
  /\ aborted \in BOOLEAN

(* A button may stay sensitive, or be made so by the other side's row,     *)
(* while its form is not fit to be sent; still no order leaves with a      *)
(* rate below 1 or an amount below the exchange's minimum.                 *)
OnlyValidOrders ==
  sent # NoOrder => sent.rate \in Rate /\ sent.amount >= OrderMinimum
=============================================================================
