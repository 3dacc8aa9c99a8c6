----------------------------- MODULE CliProofs -----------------------------
(***************************************************************************)
(* Theorems about the panel's orders and the command line tool beside it,  *)
(* for every number of orders, units, refreshes and commands.              *)
(***************************************************************************)
EXTENDS Cli, SequenceTheorems, FiniteSetTheorems, TLAPS

all == <<vars, cli>>

-----------------------------------------------------------------------------
(* A listing as a record with its four fields. *)
Shaped(list) ==
  /\ list = [pending |-> list.pending, upto |-> list.upto,
             answered |-> list.answered, refused |-> list.refused]
  /\ DOMAIN list.pending = Order
  /\ list.upto \in Nat /\ list.upto <= placed

(* An order that a listing does not have was refused a cancellation since, *)
(* or is missing with all others because the listing failed.               *)
Excused(list, o) ==
  \/ o \in list.refused
  \/ ~list.answered /\ list.pending = NothingPending

(* The rows leave out open orders only for these two reasons, and the list *)
(* of unsettled orders, which will be the rows, does so too.               *)
Lists_All(list) ==
  \A o \in 1..list.upto : pending[o] > 0 /\ list.pending[o] = 0 => Excused(list, o)

ListedInv ==
  /\ placed \in Nat
  /\ placed <= MaxOrders
  /\ DOMAIN pending = Order
  /\ \A o \in Order : pending[o] \in Nat
  /\ Shaped(rows) /\ Shaped(unsettled)
  /\ Lists_All(rows) /\ Lists_All(unsettled)

(* What is closed or traded needs no row, and a later order neither.       *)
LEMMA ListsStay ==
  ASSUME ListedInv,
         DOMAIN pending' = Order,
         \A o \in 1..placed : pending'[o] \in Nat /\ pending'[o] <= pending[o]
  PROVE  \A list \in {rows, unsettled} :
           \A o \in 1..list.upto :
             pending'[o] > 0 /\ list.pending[o] = 0 => Excused(list, o)
<1> SUFFICES ASSUME NEW list \in {rows, unsettled}, NEW o \in 1..list.upto,
                    pending'[o] > 0, list.pending[o] = 0
             PROVE  Excused(list, o)
  OBVIOUS
<1>1. placed \in Nat /\ placed <= MaxOrders /\ list.upto \in Nat /\ list.upto <= placed
  BY DEF ListedInv, Shaped
<1>2. o \in 1..placed /\ o \in Order
  BY <1>1, SessionAssumption DEF Order
<1>3. pending[o] > 0
  BY <1>2 DEF ListedInv
<1> QED
  BY <1>3 DEF ListedInv, Lists_All

(* A step of the exchange alone keeps both lists as good as they are.      *)
LEMMA ExchangeListed ==
  ASSUME ListedInv, UNCHANGED <<rows, unsettled>>,
         placed' \in Nat, placed' >= placed, placed' <= MaxOrders,
         DOMAIN pending' = Order, \A o \in Order : pending'[o] \in Nat,
         \A o \in 1..placed : pending'[o] <= pending[o]
  PROVE  ListedInv'
<1>1. \A o \in 1..placed : pending'[o] \in Nat /\ pending'[o] <= pending[o]
  BY SessionAssumption DEF ListedInv, Order
<1>2. Lists_All(rows)' /\ Lists_All(unsettled)'
  BY <1>1, ListsStay DEF Lists_All, Excused
<1>3. Shaped(rows)' /\ Shaped(unsettled)'
  BY DEF ListedInv, Shaped
<1> QED
  BY <1>2, <1>3 DEF ListedInv

(* An order that is accepted is newer than both lists.                     *)
LEMMA AcceptedStep ==
  ASSUME ListedInv,
         placed < MaxOrders, placed' = placed + 1,
         pending' = [pending EXCEPT ![placed + 1] = Units],
         UNCHANGED <<rows, unsettled>>
  PROVE  ListedInv'
<1> USE SessionAssumption
<1>1. /\ placed \in Nat /\ placed' \in Nat /\ placed' >= placed /\ placed' <= MaxOrders
  BY DEF ListedInv
<1>2. DOMAIN pending' = Order /\ \A o \in Order : pending'[o] \in Nat
  BY DEF ListedInv, Order
<1>3. \A o \in 1..placed : pending'[o] <= pending[o]
  BY <1>1 DEF ListedInv, Order
<1> QED
  BY <1>1, <1>2, <1>3, ExchangeListed

(* An order that is traded or closed.                                      *)
LEMMA LessOpenStep ==
  ASSUME ListedInv, UNCHANGED <<rows, unsettled, placed>>,
         NEW o, NEW n \in Nat, o \in Order => n <= pending[o],
         pending' = [pending EXCEPT ![o] = n]
  PROVE  ListedInv'
<1> USE SessionAssumption
<1>1. placed' \in Nat /\ placed' >= placed /\ placed' <= MaxOrders
  BY DEF ListedInv
<1>2. DOMAIN pending' = Order /\ \A p \in Order : pending'[p] \in Nat
  BY DEF ListedInv
<1>3. \A p \in 1..placed : pending'[p] <= pending[p]
  BY DEF ListedInv, Order
<1> QED
  BY <1>1, <1>2, <1>3, ExchangeListed

(* A row is taken away because its order is closed or was refused.         *)
LEMMA RemovedStep ==
  ASSUME ListedInv, UNCHANGED <<unsettled, placed>>,
         NEW done \in BOOLEAN,
         pending' = IF done THEN [pending EXCEPT ![target] = 0] ELSE pending,
         rows' = RowRemoved(done, TRUE)
  PROVE  ListedInv'
<1> USE SessionAssumption
<1>1. /\ placed \in Nat /\ placed <= MaxOrders /\ rows.upto \in Nat /\ rows.upto <= placed
      /\ DOMAIN pending = Order /\ DOMAIN rows.pending = Order
      /\ \A o \in Order : pending[o] \in Nat
  BY DEF ListedInv, Shaped
<1>2. /\ DOMAIN pending' = Order
      /\ \A o \in Order : /\ pending'[o] \in Nat /\ pending'[o] <= pending[o]
                          /\ done /\ o = target => pending'[o] = 0
  BY <1>1
<1>3. \A o \in 1..placed : o \in Order
  BY <1>1 DEF Order
<1>4. \A list \in {rows, unsettled} :
        \A o \in 1..list.upto :
          pending'[o] > 0 /\ list.pending[o] = 0 => Excused(list, o)
  BY <1>2, <1>3, ListsStay
<1>5. rows = [pending |-> rows.pending, upto |-> rows.upto,
              answered |-> rows.answered, refused |-> rows.refused]
  BY DEF ListedInv, Shaped
<1>6. /\ rows'.pending = [rows.pending EXCEPT ![target] = 0]
      /\ rows'.upto = rows.upto /\ rows'.answered = rows.answered
      /\ rows'.refused = IF done THEN rows.refused ELSE rows.refused \cup {target}
      /\ rows' = [pending |-> rows'.pending, upto |-> rows'.upto,
                  answered |-> rows'.answered, refused |-> rows'.refused]
  BY <1>5 DEF RowRemoved
<1>7. DOMAIN rows'.pending = Order
  BY <1>1, <1>6
<1>8. Shaped(rows)' /\ Shaped(unsettled)'
  BY <1>1, <1>6, <1>7 DEF ListedInv, Shaped
<1>9. Lists_All(unsettled)'
  BY <1>4 DEF Lists_All, Excused
<1>10. ASSUME NEW o \in 1..rows'.upto, pending'[o] > 0, rows'.pending[o] = 0
       PROVE  Excused(rows', o)
  <2>1. o \in Order /\ o \in 1..rows.upto
    <3>1. rows'.upto = rows.upto
      BY <1>6
    <3>2. o \in 1..rows.upto
      BY <1>10, <3>1
    <3>3. o \in 1..placed
      BY <1>1, <3>2
    <3> QED
      BY <1>3, <3>2, <3>3
  <2>2. CASE o = target
    <3>1. ~done
      BY <1>2, <1>10, <2>1, <2>2
    <3>2. rows'.refused = rows.refused \cup {target}
      BY <1>6, <3>1
    <3> QED
      BY <2>2, <3>2 DEF Excused
  <2>3. CASE o # target
    <3>1. rows.pending[o] = 0
      BY <1>1, <1>6, <1>10, <2>1, <2>3
    <3>2. Excused(rows, o)
      BY <1>4, <1>10, <2>1, <3>1
    <3>3. rows.pending = NothingPending => rows'.pending = NothingPending
      BY <1>1, <1>6 DEF NothingPending
    <3> QED
      BY <1>6, <3>2, <3>3 DEF Excused
  <2> QED
    BY <2>2, <2>3
<1>11. Lists_All(rows)'
  BY <1>10 DEF Lists_All, Excused
<1> QED
  BY <1>1, <1>2, <1>8, <1>9, <1>11 DEF ListedInv

LEMMA ListedStep ==
  ASSUME ListedInv, [BothNext]_all
  PROVE  ListedInv'
<1> USE DEF exchange, lists, panel
<1>0. UNCHANGED <<placed, pending, unsettled, rows>> => ListedInv'
  BY DEF ListedInv, Shaped, Lists_All, Excused
<1>1. ASSUME NEW o \in Order, Fill(o)
      PROVE  ListedInv'
  <2>1. pending[o] \in Nat /\ pending[o] > 0
    BY <1>1 DEF Fill, ListedInv
  <2>2. PICK n \in Nat : n = pending[o] - 1
    BY <2>1
  <2>3. UNCHANGED <<rows, unsettled, placed>> /\ pending' = [pending EXCEPT ![o] = n]
    BY <1>1, <2>2 DEF Fill
  <2>4. n <= pending[o]
    BY <2>1, <2>2
  <2> QED
    BY <2>3, <2>4, LessOpenStep
<1>2. CASE on_clicked \/ on_refresh \/ \E o \in Order : on_row_activated(o)
  BY <1>0, <1>2 DEF on_clicked, on_refresh, on_row_activated
<1>3. ASSUME NEW accepted \in BOOLEAN, NEW replied \in BOOLEAN, new_order(accepted, replied)
      PROVE  ListedInv'
  <2>1. CASE accepted
    BY <1>3, <2>1, AcceptedStep DEF new_order
  <2>2. CASE ~accepted
    BY <1>0, <1>3, <2>2 DEF new_order
  <2> QED
    BY <2>1, <2>2
<1>4. ASSUME NEW done \in BOOLEAN, NEW rc0 \in BOOLEAN, cancel_order(done, rc0)
      PROVE  ListedInv'
  <2>1. CASE rc0
    BY <1>4, <2>1, RemovedStep DEF cancel_order, RowRemoved
  <2>2. CASE ~rc0 /\ done
    <3>1. target \in Order => 0 <= pending[target]
      BY DEF ListedInv
    <3> QED
      BY <1>4, <2>2, <3>1, LessOpenStep DEF cancel_order
  <2>3. CASE ~rc0 /\ ~done
    BY <1>0, <1>4, <2>3 DEF cancel_order
  <2> QED
    BY <2>1, <2>2, <2>3
<1>5. CASE update_balance
  BY <1>0, <1>5 DEF update_balance
<1>6. ASSUME NEW ok \in BOOLEAN, get_order_history(ok)
      PROVE  ListedInv'
  BY <1>0, <1>6 DEF get_order_history
<1>7. ASSUME NEW ok \in BOOLEAN, get_unsettled_orders(ok)
      PROVE  ListedInv'
  <2>1. UNCHANGED <<placed, pending, rows>>
    BY <1>7 DEF get_unsettled_orders
  <2>2. /\ unsettled'.pending = IF ok THEN pending ELSE NothingPending
        /\ unsettled'.upto = placed /\ unsettled'.answered = ok
        /\ unsettled' = [pending |-> unsettled'.pending, upto |-> unsettled'.upto,
                         answered |-> unsettled'.answered, refused |-> unsettled'.refused]
    BY <1>7 DEF get_unsettled_orders
  <2>3. DOMAIN unsettled'.pending = Order
    BY <2>2 DEF ListedInv, NothingPending
  <2>4. Shaped(rows)' /\ Shaped(unsettled)'
    BY <2>1, <2>2, <2>3, SessionAssumption DEF ListedInv, Shaped
  <2>5. Lists_All(unsettled)'
    <3>1. CASE ok
      BY <2>1, <2>2, <3>1 DEF Lists_All
    <3>2. CASE ~ok
      BY <2>1, <2>2, <3>2 DEF Lists_All, Excused
    <3> QED
      BY <3>1, <3>2
  <2>6. Lists_All(rows)'
    BY <2>1 DEF ListedInv, Lists_All, Excused
  <2> QED
    BY <2>1, <2>4, <2>5, <2>6 DEF ListedInv
<1>8. CASE order_history_update
  <2>1. rows' = unsettled /\ UNCHANGED <<placed, pending, unsettled>>
    BY <1>8 DEF order_history_update
  <2> QED
    BY <2>1 DEF ListedInv, Shaped, Lists_All, Excused
<1>9. ASSUME NEW ps \in Lists(Name), cli_btc_buy(ps)
      PROVE  ListedInv'
  BY <1>0, <1>9 DEF cli_btc_buy
<1>10. ASSUME NEW ids \in Lists(Order), cli_cancel_order(ids)
      PROVE  ListedInv'
  BY <1>0, <1>10 DEF cli_cancel_order
<1>11. ASSUME NEW accepted \in BOOLEAN, NEW rc0 \in BOOLEAN, cli_order(accepted, rc0)
      PROVE  ListedInv'
  <2>1. CASE accepted
    BY <1>11, <2>1, AcceptedStep DEF cli_order
  <2>2. CASE ~accepted
    BY <1>0, <1>11, <2>2 DEF cli_order
  <2> QED
    BY <2>1, <2>2
<1>12. ASSUME NEW done \in BOOLEAN, NEW rc0 \in BOOLEAN, cli_cancel(done, rc0)
      PROVE  ListedInv'
  <2>1. CASE done
    <3>1. Cancelled \in Order => 0 <= pending[Cancelled]
      BY DEF ListedInv
    <3> QED
      BY <1>12, <2>1, <3>1, LessOpenStep DEF cli_cancel
  <2>2. CASE ~done
    BY <1>0, <1>12, <2>2 DEF cli_cancel
  <2> QED
    BY <2>1, <2>2
<1>13. CASE UNCHANGED all
  BY <1>0, <1>13 DEF all, vars
<1> QED
  BY <1>1, <1>2, <1>3, <1>4, <1>5, <1>6, <1>7, <1>8, <1>9, <1>10, <1>11, <1>12, <1>13
     DEF BothNext, Next, CliNext

LEMMA ListedAlways == BothSpec => []ListedInv
<1>1. BothInit => ListedInv
  BY SessionAssumption
     DEF BothInit, Init, ListedInv, Shaped, Lists_All, NoListing, NothingPending, Order
<1> QED
  BY <1>1, ListedStep, PTL DEF BothSpec, all

(* An open order that had been accepted when the rows were fetched has no  *)
(* row only if it was refused a cancellation since or the fetch failed.    *)
THEOREM OpenOrdersShown == BothSpec => []OpenOrdersListed
<1>1. ListedInv => OpenOrdersListed
  BY DEF ListedInv, Lists_All, Excused, OpenOrdersListed
<1> QED
  BY <1>1, ListedAlways, PTL

-----------------------------------------------------------------------------
(* With two parameters the value of a name is the second one's, else the   *)
(* first one's, else none.                                                 *)
LEMMA NamedOfTwo ==
  ASSUME NEW a, NEW b, NEW n
  PROVE  Named(<<a, b>>, n) = IF b = n THEN 2 ELSE IF a = n THEN 1 ELSE 0
<1> DEFINE at == {i \in DOMAIN <<a, b>> : <<a, b>>[i] = n}
           m == IF b = n THEN 2 ELSE IF a = n THEN 1 ELSE 0
<1>1. DOMAIN <<a, b>> = {1, 2} /\ <<a, b>>[1] = a /\ <<a, b>>[2] = b
  OBVIOUS
<1>2. at = {i \in {1, 2} : (i = 1 /\ a = n) \/ (i = 2 /\ b = n)}
  BY <1>1
<1>3. m \in at \cup {0} /\ \A j \in at \cup {0} : j <= m
  BY <1>2
<1>4. at \cup {0} \subseteq Int
  BY <1>2
<1> HIDE DEF at, m
<1>5. \A k \in at \cup {0} : (\A j \in at \cup {0} : j <= k) => k = m
  BY <1>3, <1>4
<1>6. (CHOOSE k \in at \cup {0} : \A j \in at \cup {0} : j <= k) = m
  BY <1>3, <1>5
<1> QED
  BY <1>6 DEF Named, at, m

PostedInv ==
  command = "btc_buy" =>
    /\ params \in Lists(Name) /\ Len(params) = 2
    /\ order = Parsed(params)
    /\ order.rate # 0 /\ order.amount # 0

(* An order is never posted with its rate and amount exchanged.            *)
THEOREM NeverExchanged == BothSpec => []PostedAsGiven
<1>1. BothInit => PostedInv
  BY DEF BothInit, CliInit, PostedInv
<1>2. PostedInv /\ [BothNext]_all => PostedInv'
  <2> SUFFICES ASSUME PostedInv, [BothNext]_all
               PROVE  PostedInv'
    OBVIOUS
  <2>1. ASSUME NEW ps \in Lists(Name), cli_btc_buy(ps)
        PROVE  PostedInv'
    BY <2>1 DEF cli_btc_buy, Begin, PostedInv
  <2>2. ASSUME NEW ids \in Lists(Order), cli_cancel_order(ids)
        PROVE  PostedInv'
    BY <2>2 DEF cli_cancel_order, Begin, PostedInv
  <2>3. ASSUME NEW accepted \in BOOLEAN, NEW rc0 \in BOOLEAN, cli_order(accepted, rc0)
        PROVE  PostedInv'
    BY <2>3 DEF cli_order, Exit, PostedInv
  <2>4. ASSUME NEW done \in BOOLEAN, NEW rc0 \in BOOLEAN, cli_cancel(done, rc0)
        PROVE  PostedInv'
    <3>1. command = "cancel_order" /\ command' \in {"cancel_order", "none"}
      BY <2>4 DEF cli_cancel, after_cancel, Exit, NextId
    <3> QED
      BY <3>1 DEF PostedInv
  <2>5. CASE UNCHANGED cli
    BY <2>5 DEF cli, PostedInv
  <2> QED
    BY <2>1, <2>2, <2>3, <2>4, <2>5 DEF BothNext, CliNext, all
<1>3. PostedInv => PostedAsGiven
  <2> SUFFICES ASSUME PostedInv, command = "btc_buy"
               PROVE  /\ order.rate # order.amount
                      /\ params[order.rate] # "amount"
                      /\ params[order.amount] # "rate"
    BY DEF PostedAsGiven
  <2>1. PICK a, b \in Name : params = <<a, b>>
    BY DEF PostedInv, Lists
  <2>2. /\ Named(params, "rate") = IF b = "rate" THEN 2 ELSE IF a = "rate" THEN 1 ELSE 0
        /\ Named(params, "amount") = IF b = "amount" THEN 2 ELSE IF a = "amount" THEN 1 ELSE 0
    BY <2>1, NamedOfTwo
  <2>3. params[1] = a /\ params[2] = b
    BY <2>1
  <2>4. order = Parsed(params) /\ order.rate # 0 /\ order.amount # 0
    BY DEF PostedInv
  <2> QED
    BY <2>2, <2>3, <2>4 DEF Parsed
<1> QED
  BY <1>1, <1>2, <1>3, PTL DEF BothSpec, all

-----------------------------------------------------------------------------
(* What a callback may still have to do; while the lists are newer than    *)
(* the tree, showing them is among it.                                     *)
Fetched == {<<"unsettled", "show", "balance">>, <<"show", "balance">>,
            <<"unsettled", "show">>, <<"show">>}
Unfetched == {<<>>, <<"new_order">>, <<"cancel">>, <<"balance">>,
              <<"history", "unsettled", "show", "balance">>,
              <<"history", "unsettled", "show">>,
              <<"balance", "history", "unsettled", "show">>}

LiveInv ==
  /\ todo \in Fetched \cup Unfetched
  /\ todo \in Unfetched => tree.generation = generation

(* The first step of each of these queues, and what is left after it.      *)
LEMMA QueueOfSteps ==
  /\ Head(<<"new_order">>) = "new_order"
  /\ Head(<<"cancel">>) = "cancel"
  /\ Head(<<"balance">>) = "balance" /\ Tail(<<"balance">>) = <<>>
  /\ Head(<<"show">>) = "show" /\ Tail(<<"show">>) = <<>>
  /\ Head(<<"show", "balance">>) = "show"
  /\ Tail(<<"show", "balance">>) = <<"balance">>
  /\ Head(<<"unsettled", "show">>) = "unsettled"
  /\ Tail(<<"unsettled", "show">>) = <<"show">>
  /\ Head(<<"unsettled", "show", "balance">>) = "unsettled"
  /\ Tail(<<"unsettled", "show", "balance">>) = <<"show", "balance">>
  /\ Head(<<"history", "unsettled", "show">>) = "history"
  /\ Tail(<<"history", "unsettled", "show">>) = <<"unsettled", "show">>
  /\ Head(<<"history", "unsettled", "show", "balance">>) = "history"
  /\ Tail(<<"history", "unsettled", "show", "balance">>) = <<"unsettled", "show", "balance">>
  /\ Head(<<"balance", "history", "unsettled", "show">>) = "balance"
  /\ Tail(<<"balance", "history", "unsettled", "show">>) = <<"history", "unsettled", "show">>
  /\ <<"balance">> \o get_orders = <<"balance", "history", "unsettled", "show">>
  /\ get_orders \o <<"balance">> = <<"history", "unsettled", "show", "balance">>
<1> DEFINE S == {"balance", "show", "unsettled", "history"}
<1>1. /\ <<>> \in Seq(S)
      /\ <<"balance">> \in Seq(S)
      /\ <<"show">> \in Seq(S)
      /\ <<"show", "balance">> \in Seq(S)
      /\ <<"unsettled", "show">> \in Seq(S)
      /\ <<"unsettled", "show", "balance">> \in Seq(S)
      /\ <<"history", "unsettled", "show">> \in Seq(S)
      /\ <<"history", "unsettled", "show", "balance">> \in Seq(S)
      /\ <<"balance", "history", "unsettled", "show">> \in Seq(S)
  OBVIOUS
<1>2. /\ Head(<<"new_order">>) = "new_order"
      /\ Head(<<"cancel">>) = "cancel"
      /\ Head(<<"balance">>) = "balance"
      /\ Head(<<"show">>) = "show"
      /\ Head(<<"show", "balance">>) = "show"
      /\ Head(<<"unsettled", "show">>) = "unsettled"
      /\ Head(<<"unsettled", "show", "balance">>) = "unsettled"
      /\ Head(<<"history", "unsettled", "show">>) = "history"
      /\ Head(<<"history", "unsettled", "show", "balance">>) = "history"
      /\ Head(<<"balance", "history", "unsettled", "show">>) = "balance"
  OBVIOUS
<1> HIDE DEF S
<1>3. Tail(<<"balance">>) = <<>>
  BY <1>1, HeadTailProperties, SeqEqual, EmptySeq
<1>4. Tail(<<"show">>) = <<>>
  BY <1>1, HeadTailProperties, SeqEqual, EmptySeq
<1>5. Tail(<<"show", "balance">>) = <<"balance">>
  BY <1>1, HeadTailProperties, SeqEqual
<1>6. Tail(<<"unsettled", "show">>) = <<"show">>
  BY <1>1, HeadTailProperties, SeqEqual
<1>7. Tail(<<"unsettled", "show", "balance">>) = <<"show", "balance">>
  BY <1>1, HeadTailProperties, SeqEqual
<1>8. Tail(<<"history", "unsettled", "show">>) = <<"unsettled", "show">>
  BY <1>1, HeadTailProperties, SeqEqual
<1>9. Tail(<<"history", "unsettled", "show", "balance">>) = <<"unsettled", "show", "balance">>
  BY <1>1, HeadTailProperties, SeqEqual
<1>10. Tail(<<"balance", "history", "unsettled", "show">>) = <<"history", "unsettled", "show">>
  BY <1>1, HeadTailProperties, SeqEqual
<1>11. <<"balance">> \o <<"history", "unsettled", "show">> = <<"balance", "history", "unsettled", "show">>
  <2> DEFINE s == <<"balance">> \o <<"history", "unsettled", "show">>
             t == <<"balance", "history", "unsettled", "show">>
  <2>1. s \in Seq(S) /\ t \in Seq(S) /\ Len(s) = 4 /\ Len(t) = 4
    BY <1>1, ConcatProperties
  <2>2. s[1] = "balance" /\ s[2] = "history" /\ s[3] = "unsettled" /\ s[4] = "show"
    BY <1>1, ConcatProperties
  <2>3. t[1] = "balance" /\ t[2] = "history" /\ t[3] = "unsettled" /\ t[4] = "show"
    OBVIOUS
  <2> HIDE DEF s, t
  <2>4. \A i \in 1..4 : s[i] = t[i]
    BY <2>2, <2>3
  <2> QED
    BY <2>1, <2>4, SeqEqual DEF s, t
<1>12. <<"history", "unsettled", "show">> \o <<"balance">> = <<"history", "unsettled", "show", "balance">>
  <2> DEFINE s == <<"history", "unsettled", "show">> \o <<"balance">>
             t == <<"history", "unsettled", "show", "balance">>
  <2>1. s \in Seq(S) /\ t \in Seq(S) /\ Len(s) = 4 /\ Len(t) = 4
    BY <1>1, ConcatProperties
  <2>2. s[1] = "history" /\ s[2] = "unsettled" /\ s[3] = "show" /\ s[4] = "balance"
    BY <1>1, ConcatProperties
  <2>3. t[1] = "history" /\ t[2] = "unsettled" /\ t[3] = "show" /\ t[4] = "balance"
    OBVIOUS
  <2> HIDE DEF s, t
  <2>4. \A i \in 1..4 : s[i] = t[i]
    BY <2>2, <2>3
  <2> QED
    BY <2>1, <2>4, SeqEqual DEF s, t
<1> QED
  BY <1>2, <1>3, <1>4, <1>5, <1>6, <1>7, <1>8, <1>9, <1>10, <1>11, <1>12 DEF get_orders

LEMMA LiveStep ==
  ASSUME LiveInv, [BothNext]_all
  PROVE  LiveInv'
<1>1. CASE UNCHANGED <<todo, generation, tree>>
  BY <1>1 DEF LiveInv
<1>2. CASE on_clicked
  BY <1>2 DEF on_clicked, Idle, lists, LiveInv, Unfetched
<1>3. CASE on_refresh
  <2>1. todo = <<>> /\ todo' = <<"history", "unsettled", "show", "balance">>
    BY <1>3, QueueOfSteps DEF on_refresh, Idle, get_orders
  <2> QED
    BY <1>3, <2>1 DEF on_refresh, lists, LiveInv, Unfetched
<1>4. ASSUME NEW o \in Order, on_row_activated(o)
      PROVE  LiveInv'
  BY <1>4 DEF on_row_activated, Idle, lists, LiveInv, Unfetched
<1>5. ASSUME NEW accepted \in BOOLEAN, NEW replied \in BOOLEAN, new_order(accepted, replied)
      PROVE  LiveInv'
  <2>1. todo' \in {<<>>, <<"balance", "history", "unsettled", "show">>}
    BY <1>5, QueueOfSteps DEF new_order, get_orders
  <2>2. todo = <<"new_order">>
    BY <1>5, QueueOfSteps DEF new_order, Step, LiveInv, Fetched, Unfetched
  <2> QED
    BY <1>5, <2>1, <2>2 DEF new_order, lists, LiveInv, Unfetched
<1>6. ASSUME NEW done \in BOOLEAN, NEW rc0 \in BOOLEAN, cancel_order(done, rc0)
      PROVE  LiveInv'
  <2>1. todo = <<"cancel">>
    BY <1>6, QueueOfSteps DEF cancel_order, Step, LiveInv, Fetched, Unfetched
  <2> QED
    BY <1>6, <2>1 DEF cancel_order, lists, LiveInv, Unfetched
<1>7. CASE update_balance
  <2>1. todo \in {<<"balance">>, <<"balance", "history", "unsettled", "show">>}
    BY <1>7, QueueOfSteps DEF update_balance, Step, LiveInv, Fetched, Unfetched
  <2>2. todo' \in {<<>>, <<"history", "unsettled", "show">>}
    BY <1>7, <2>1, QueueOfSteps DEF update_balance
  <2> QED
    BY <1>7, <2>1, <2>2 DEF update_balance, lists, LiveInv, Unfetched
<1>8. ASSUME NEW ok \in BOOLEAN, get_order_history(ok)
      PROVE  LiveInv'
  <2>1. todo \in {<<"history", "unsettled", "show", "balance">>,
                  <<"history", "unsettled", "show">>}
    BY <1>8, QueueOfSteps DEF get_order_history, Step, LiveInv, Fetched, Unfetched
  <2>2. todo' \in {<<"unsettled", "show", "balance">>, <<"unsettled", "show">>}
    BY <1>8, <2>1, QueueOfSteps DEF get_order_history
  <2>3. todo' \notin Unfetched
    BY <2>2, QueueOfSteps DEF Unfetched
  <2> QED
    BY <2>2, <2>3 DEF LiveInv, Fetched
<1>9. ASSUME NEW ok \in BOOLEAN, get_unsettled_orders(ok)
      PROVE  LiveInv'
  <2>1. todo \in {<<"unsettled", "show", "balance">>, <<"unsettled", "show">>}
    BY <1>9, QueueOfSteps DEF get_unsettled_orders, Step, LiveInv, Fetched, Unfetched
  <2>2. todo' \in {<<"show", "balance">>, <<"show">>}
    BY <1>9, <2>1, QueueOfSteps DEF get_unsettled_orders
  <2>3. todo' \notin Unfetched
    BY <2>2, QueueOfSteps DEF Unfetched
  <2> QED
    BY <2>2, <2>3 DEF LiveInv, Fetched
<1>10. CASE order_history_update
  <2>1. todo \in {<<"show", "balance">>, <<"show">>}
    BY <1>10, QueueOfSteps DEF order_history_update, Step, LiveInv, Fetched, Unfetched
  <2>2. todo' \in {<<"balance">>, <<>>}
    BY <1>10, <2>1, QueueOfSteps DEF order_history_update
  <2>3. tree'.generation = generation /\ generation' = generation
    BY <1>10 DEF order_history_update, lists
  <2> QED
    BY <2>2, <2>3 DEF LiveInv, Unfetched
<1>11. CliNext => UNCHANGED <<todo, generation, tree>>
  BY DEF CliNext, cli_btc_buy, cli_cancel_order, cli_order, cli_cancel, panel, lists
<1>12. (\E o \in Order : Fill(o)) \/ UNCHANGED all => UNCHANGED <<todo, generation, tree>>
  BY DEF Fill, all, vars, lists
<1> QED
  BY <1>1, <1>2, <1>3, <1>4, <1>5, <1>6, <1>7, <1>8, <1>9, <1>10, <1>11, <1>12
     DEF BothNext, Next

LEMMA LiveAlways == BothSpec => []LiveInv
<1>1. BothInit => LiveInv
  BY DEF BothInit, Init, LiveInv, Unfetched
<1> QED
  BY <1>1, LiveStep, PTL DEF BothSpec, all

(* Whatever the steps of a callback, no row points to freed details when   *)
(* it ends.                                                                *)
THEOREM RowsLive == BothSpec => []DataPtrsLive
<1>1. LiveInv => DataPtrsLive
  BY DEF LiveInv, DataPtrsLive, Idle, Unfetched
<1> QED
  BY <1>1, LiveAlways, PTL

-----------------------------------------------------------------------------
(* Only orders that were accepted are open.                                *)
OpenedInv ==
  /\ placed \in Nat
  /\ DOMAIN pending = Order
  /\ \A o \in Order : pending[o] \in Nat
  /\ \A o \in Order : o > placed => pending[o] = 0

(* What the tool was told of an order it cancelled stays true: the order   *)
(* was accepted, it is closed, and it is not opened again.                 *)
ClosedInv ==
  command = "cancel_order" =>
    /\ params \in Seq(Order)
    /\ answers \in Seq({"done", "refused"})
    /\ Len(answers) < Len(params)
    /\ \A i \in DOMAIN answers :
         answers[i] = "done" => params[i] <= placed /\ pending[params[i]] = 0

(* No step takes an acceptance back or opens more of an accepted order.    *)
Onward ==
  /\ placed <= placed'
  /\ \A o \in Order : o <= placed => pending'[o] <= pending[o]

LEMMA OrdersStep ==
  ASSUME OpenedInv, [BothNext]_all
  PROVE  OpenedInv' /\ Onward
<1> USE SessionAssumption DEF OpenedInv, Onward
<1>1. CASE UNCHANGED <<placed, pending>>
  BY <1>1
<1>2. CASE /\ placed < MaxOrders /\ placed' = placed + 1
           /\ pending' = [pending EXCEPT ![placed + 1] = Units]
  BY <1>2 DEF Order
<1>3. ASSUME NEW o, placed' = placed, pending' = [pending EXCEPT ![o] = 0]
      PROVE  OpenedInv' /\ Onward
  BY <1>3 DEF Order
<1>4. ASSUME NEW o \in Order, Fill(o)
      PROVE  OpenedInv' /\ Onward
  BY <1>4 DEF Fill, Order
<1>5. ASSUME NEW done \in BOOLEAN, NEW rc0 \in BOOLEAN, cancel_order(done, rc0)
      PROVE  OpenedInv' /\ Onward
  BY <1>1, <1>3, <1>5 DEF cancel_order
<1>6. ASSUME NEW done \in BOOLEAN, NEW rc0 \in BOOLEAN, cli_cancel(done, rc0)
      PROVE  OpenedInv' /\ Onward
  BY <1>1, <1>3, <1>6 DEF cli_cancel
<1>7. ASSUME NEW accepted \in BOOLEAN, NEW replied \in BOOLEAN, new_order(accepted, replied)
      PROVE  OpenedInv' /\ Onward
  BY <1>1, <1>2, <1>7 DEF new_order
<1>8. ASSUME NEW accepted \in BOOLEAN, NEW rc0 \in BOOLEAN, cli_order(accepted, rc0)
      PROVE  OpenedInv' /\ Onward
  BY <1>1, <1>2, <1>8 DEF cli_order
<1> HIDE DEF OpenedInv, Onward
<1>9. CASE on_clicked \/ on_refresh \/ \E o \in Order : on_row_activated(o)
  BY <1>1, <1>9 DEF on_clicked, on_refresh, on_row_activated, exchange
<1>10. CASE update_balance \/ order_history_update
  BY <1>1, <1>10 DEF update_balance, order_history_update, exchange
<1>11. CASE (\E ok \in BOOLEAN : get_order_history(ok)) \/ (\E ok \in BOOLEAN : get_unsettled_orders(ok))
  BY <1>1, <1>11 DEF get_order_history, get_unsettled_orders, exchange
<1>12. CASE (\E ps \in Lists(Name) : cli_btc_buy(ps)) \/ (\E ids \in Lists(Order) : cli_cancel_order(ids))
  BY <1>1, <1>12 DEF cli_btc_buy, cli_cancel_order, exchange
<1>13. CASE UNCHANGED all
  BY <1>1, <1>13 DEF all, vars, exchange
<1> QED
  BY <1>4, <1>5, <1>6, <1>7, <1>8, <1>9, <1>10, <1>11, <1>12, <1>13 DEF BothNext, Next, CliNext

LEMMA ClosedStep ==
  ASSUME OpenedInv, ClosedInv, [BothNext]_all
  PROVE  ClosedInv'
<1> USE DEF ClosedInv
<1>0. OpenedInv' /\ Onward
  BY OrdersStep
<1>1. ASSUME NEW ids \in Lists(Order), cli_cancel_order(ids)
      PROVE  ClosedInv'
  <2>1. (\E a \in Order : ids = <<a>>) \/ (\E a, b \in Order : ids = <<a, b>>)
    BY DEF Lists
  <2>2. ids \in Seq(Order) /\ Len(ids) > 0
    <3>1. ASSUME NEW a \in Order, ids = <<a>>
          PROVE  ids \in Seq(Order) /\ Len(ids) > 0
      BY <3>1
    <3>2. ASSUME NEW a \in Order, NEW b \in Order, ids = <<a, b>>
          PROVE  ids \in Seq(Order) /\ Len(ids) > 0
      BY <3>2
    <3> QED
      BY <2>1, <3>1, <3>2
  <2> QED
    BY <1>1, <2>2 DEF cli_cancel_order, Begin
<1>2. CASE \E ps \in Lists(Name) : cli_btc_buy(ps)
  BY <1>2 DEF cli_btc_buy, Begin
<1>3. CASE \E accepted, rc0 \in BOOLEAN : cli_order(accepted, rc0)
  BY <1>3 DEF cli_order, Exit
<1>4. CASE UNCHANGED cli
  <2> SUFFICES ASSUME command = "cancel_order"
               PROVE  ClosedInv'
    BY <1>4 DEF cli
  <2>1. ASSUME NEW i \in DOMAIN answers, answers[i] = "done"
        PROVE  params[i] <= placed' /\ pending'[params[i]] = 0
    <3>1. i \in DOMAIN params /\ params[i] \in Order
      OBVIOUS
    <3> QED
      BY <1>0, <2>1, <3>1, SessionAssumption DEF Onward, OpenedInv, Order
  <2> QED
    BY <1>4, <2>1 DEF cli
<1>5. ASSUME NEW done \in BOOLEAN, NEW rc0 \in BOOLEAN, cli_cancel(done, rc0)
      PROVE  ClosedInv'
  <2> SUFFICES ASSUME command' = "cancel_order"
               PROVE  ClosedInv'
    OBVIOUS
  <2> DEFINE n == Len(answers) + 1
             answer == IF done THEN "done" ELSE "refused"
  <2>1. /\ command = "cancel_order" /\ params' = params
        /\ answers' = Append(answers, answer)
        /\ n # Len(params)
        /\ done => pending[params[n]] > 0
        /\ pending' = IF done THEN [pending EXCEPT ![params[n]] = 0] ELSE pending
        /\ placed' = placed
    BY <1>5 DEF cli_cancel, after_cancel, Exit, NextId, LastId, Cancelled
  <2>2. /\ params \in Seq(Order) /\ answers \in Seq({"done", "refused"})
        /\ Len(answers) \in Nat /\ Len(params) \in Nat /\ n < Len(params)
    BY <2>1
  <2>3. answer \in {"done", "refused"}
    OBVIOUS
  <2> HIDE DEF answer
  <2>4. /\ answers' \in Seq({"done", "refused"}) /\ Len(answers') = n
        /\ DOMAIN answers' = 1..n
        /\ \A i \in 1..n : answers'[i] = IF i = n THEN answer ELSE answers[i]
    BY <2>1, <2>2, <2>3
  <2>5. ASSUME NEW i \in 1..n, answers'[i] = "done"
        PROVE  params[i] <= placed /\ pending'[params[i]] = 0
    <3>1. params[i] \in Order /\ params[n] \in Order
      BY <2>2
    <3>2. CASE i = n
      <4>1. done
        BY <2>4, <2>5, <3>2 DEF answer
      <4> QED
        BY <2>1, <3>1, <3>2, <4>1, SessionAssumption DEF OpenedInv, Order
    <3>3. CASE i # n
      <4>1. i \in DOMAIN answers /\ answers[i] = "done"
        BY <2>2, <2>4, <2>5, <3>3
      <4> QED
        BY <1>0, <2>1, <3>1, <4>1, SessionAssumption DEF Onward, OpenedInv, Order
    <3> QED
      BY <3>2, <3>3
  <2> QED
    BY <2>1, <2>2, <2>4, <2>5
<1> QED
  BY <1>1, <1>2, <1>3, <1>4, <1>5 DEF BothNext, CliNext, all

(* When the tool ends with 0, every id was answered, and what it cancelled *)
(* is closed.                                                              *)
THEOREM ClosedWhenZero == BothSpec => ExitZeroClosed
<1> DEFINE IInv == OpenedInv /\ ClosedInv
           A == command = "cancel_order" /\ command' = "none" /\ exit_code' = 0 =>
                  /\ Len(answers) + 1 = Len(params)
                  /\ \A i \in DOMAIN params :
                       \/ pending'[params[i]] = 0
                       \/ i \in DOMAIN answers /\ answers[i] = "refused"
                       \/ i > Len(answers) /\ UNCHANGED pending
<1>1. BothInit => IInv
  BY SessionAssumption DEF BothInit, Init, CliInit, NothingPending, OpenedInv, ClosedInv, Order
<1>2. IInv /\ [BothNext]_all => IInv'
  BY OrdersStep, ClosedStep
<1>3. IInv /\ [BothNext]_all => [A]_all
  <2> SUFFICES ASSUME IInv, BothNext,
                      command = "cancel_order", command' = "none", exit_code' = 0
               PROVE  A
    OBVIOUS
  <2>1. PICK done, rc0 \in BOOLEAN : cli_cancel(done, rc0)
    <3>1. ~(Next /\ UNCHANGED cli)
      BY DEF cli
    <3>2. ~(\E ps \in Lists(Name) : cli_btc_buy(ps))
      BY DEF cli_btc_buy, Begin
    <3>3. ~(\E ids \in Lists(Order) : cli_cancel_order(ids))
      BY DEF cli_cancel_order, Begin
    <3>4. ~(\E accepted, r \in BOOLEAN : cli_order(accepted, r))
      BY DEF cli_order
    <3> QED
      BY <3>1, <3>2, <3>3, <3>4 DEF BothNext, CliNext
  <2> DEFINE n == Len(answers) + 1
  <2>2. /\ params \in Seq(Order) /\ answers \in Seq({"done", "refused"})
        /\ Len(answers) \in Nat /\ Len(params) \in Nat
        /\ \A i \in DOMAIN answers :
             answers[i] = "done" => params[i] <= placed /\ pending[params[i]] = 0
    BY DEF ClosedInv
  <2>3. /\ n = Len(params)
        /\ pending' = IF done THEN [pending EXCEPT ![params[n]] = 0] ELSE pending
    BY <2>1 DEF cli_cancel, after_cancel, Exit, NextId, LastId, Cancelled
  <2>4. OpenedInv' /\ Onward
    BY OrdersStep
  <2>5. ASSUME NEW i \in DOMAIN params
        PROVE  \/ pending'[params[i]] = 0
               \/ i \in DOMAIN answers /\ answers[i] = "refused"
               \/ i > Len(answers) /\ UNCHANGED pending
    <3>1. params[i] \in Order /\ i \in 1..n
      BY <2>2, <2>3
    <3>2. CASE i = n
      BY <2>2, <2>3, <3>1, <3>2 DEF OpenedInv
    <3>3. CASE i # n /\ answers[i] = "done"
      <4>1. i \in DOMAIN answers
        BY <2>2, <3>1, <3>3
      <4> QED
        BY <2>2, <2>4, <3>1, <3>3, <4>1, SessionAssumption DEF Onward, OpenedInv, Order
    <3>4. CASE i # n /\ answers[i] # "done"
      <4>1. i \in DOMAIN answers /\ answers[i] \in {"done", "refused"}
        BY <2>2, <3>1, <3>4
      <4> QED
        BY <3>4, <4>1
    <3> QED
      BY <3>2, <3>3, <3>4
  <2> QED
    BY <2>3, <2>5
<1> QED
  BY <1>1, <1>2, <1>3, PTL DEF BothSpec, ExitZeroClosed, all

-----------------------------------------------------------------------------
(* A unit that was traded, at whatever time.                               *)
Entry == [order : Order, created_at : Nat]

(* The j-th entry comes no later than the i-th when they are sorted.       *)
NoLater(ts, j, i) ==
  Before(ts[j], ts[i]) \/ (j <= i /\ ~Before(ts[i], ts[j]))

LEMMA SortingOrder ==
  ASSUME NEW ts \in Seq(Entry),
         NEW i \in DOMAIN ts, NEW j \in DOMAIN ts, NEW k \in DOMAIN ts
  PROVE  /\ NoLater(ts, i, i)
         /\ NoLater(ts, i, j) \/ NoLater(ts, j, i)
         /\ NoLater(ts, i, j) /\ NoLater(ts, j, i) => i = j
         /\ NoLater(ts, i, j) /\ NoLater(ts, j, k) => NoLater(ts, i, k)
<1>1. i \in Nat /\ j \in Nat /\ k \in Nat
  OBVIOUS
<1>2. /\ ts[i].order \in Nat /\ ts[i].created_at \in Nat
      /\ ts[j].order \in Nat /\ ts[j].created_at \in Nat
      /\ ts[k].order \in Nat /\ ts[k].created_at \in Nat
  <2>1. ts[i] \in Entry /\ ts[j] \in Entry /\ ts[k] \in Entry
    OBVIOUS
  <2> QED
    BY <2>1, SessionAssumption DEF Entry, Order
<1> QED
  BY <1>1, <1>2 DEF NoLater, Before

(* The rank of an entry is the number of those that come no later.         *)
LEMMA RankOrder ==
  ASSUME NEW ts \in Seq(Entry)
  PROVE  /\ \A i \in DOMAIN ts : Rank(ts, i) \in DOMAIN ts
         /\ \A i, j \in DOMAIN ts : NoLater(ts, i, j) => Rank(ts, i) <= Rank(ts, j)
         /\ \A i, j \in DOMAIN ts : Rank(ts, i) = Rank(ts, j) => i = j
<1> DEFINE D(i) == {j \in DOMAIN ts : NoLater(ts, j, i)}
<1>1. DOMAIN ts = 1..Len(ts) /\ Len(ts) \in Nat
  OBVIOUS
<1>2. IsFiniteSet(DOMAIN ts) /\ Cardinality(DOMAIN ts) = Len(ts)
  BY <1>1, FS_Interval
<1>3. ASSUME NEW i \in DOMAIN ts
      PROVE  /\ Rank(ts, i) = Cardinality(D(i))
             /\ IsFiniteSet(D(i)) /\ i \in D(i)
             /\ Rank(ts, i) \in Nat /\ Rank(ts, i) <= Len(ts) /\ Rank(ts, i) # 0
  <2>1. Rank(ts, i) = Cardinality(D(i))
    BY DEF Rank, NoLater
  <2>2. D(i) \in SUBSET DOMAIN ts /\ i \in D(i)
    BY SortingOrder
  <2> HIDE DEF D
  <2> QED
    BY <1>2, <2>1, <2>2, FS_Subset, FS_CardinalityType, FS_EmptySet
<1>4. ASSUME NEW i \in DOMAIN ts, NEW j \in DOMAIN ts, NoLater(ts, i, j)
      PROVE  Rank(ts, i) <= Rank(ts, j) /\ (Rank(ts, i) = Rank(ts, j) => i = j)
  <2>1. D(i) \in SUBSET D(j)
    BY <1>4, SortingOrder
  <2>2. D(i) = D(j) => i = j
    BY <1>4, SortingOrder
  <2> HIDE DEF D
  <2>3. IsFiniteSet(D(j)) /\ Rank(ts, i) = Cardinality(D(i)) /\ Rank(ts, j) = Cardinality(D(j))
    BY <1>3
  <2>4. Cardinality(D(i)) <= Cardinality(D(j))
        /\ (Cardinality(D(j)) = Cardinality(D(i)) => D(j) = D(i))
    BY <2>1, <2>3, FS_Subset
  <2> QED
    BY <2>2, <2>3, <2>4
<1>5. \A i, j \in DOMAIN ts : Rank(ts, i) = Rank(ts, j) => i = j
  BY <1>4, SortingOrder
<1>6. ASSUME NEW i \in DOMAIN ts
      PROVE  Rank(ts, i) \in DOMAIN ts
  <2>1. Rank(ts, i) \in Nat /\ Rank(ts, i) <= Len(ts) /\ Rank(ts, i) # 0
    BY <1>3
  <2>2. Rank(ts, i) \in 1..Len(ts)
    BY <1>1, <2>1
  <2> QED
    BY <1>1, <2>2
<1> QED
  BY <1>4, <1>5, <1>6

(* Every rank is some entry's.                                             *)
LEMMA EveryRank ==
  ASSUME NEW ts \in Seq(Entry), NEW k \in DOMAIN ts
  PROVE  \E i \in DOMAIN ts : Rank(ts, i) = k
<1> DEFINE S == DOMAIN ts
           r == [i \in S |-> Rank(ts, i)]
<1>1. r \in [S -> S] /\ \A i, j \in S : r[i] = r[j] => i = j
  BY RankOrder
<1>2. IsFiniteSet(S)
  BY FS_Interval
<1>3. k \in S
  OBVIOUS
<1>4. \A i \in S : r[i] = Rank(ts, i)
  OBVIOUS
<1> HIDE DEF S, r
<1>5. r \in Injection(S, S)
  BY <1>1 DEF Injection, IsInjective
<1>6. r \in Surjection(S, S)
  BY <1>2, <1>5, FS_Injection
<1>7. PICK i \in S : r[i] = k
  BY <1>3, <1>6 DEF Surjection
<1> QED
  BY <1>4, <1>7 DEF S

(* Sorting a list of trades, whatever it is, rearranges its entries, and   *)
(* then none compares as before an earlier one.                            *)
THEOREM SortedRearranges ==
  ASSUME NEW ts \in Seq(Entry)
  PROVE  /\ sorted(ts) \in Seq(Entry) /\ Len(sorted(ts)) = Len(ts)
         /\ \E p \in Bijection(DOMAIN ts, DOMAIN ts) :
              \A k \in DOMAIN ts : sorted(ts)[k] = ts[p[k]]
         /\ \A k, l \in DOMAIN ts : k < l => ~Before(sorted(ts)[l], sorted(ts)[k])
<1> DEFINE S == DOMAIN ts
           p == [k \in S |-> CHOOSE i \in S : Rank(ts, i) = k]
<1>1. \A k \in S : p[k] \in S /\ Rank(ts, p[k]) = k
  BY EveryRank
<1>2. \A k \in S : sorted(ts)[k] = ts[p[k]]
  BY DEF sorted
<1>3. DOMAIN p = S /\ p \in [S -> S]
  BY <1>1
<1>4. DOMAIN sorted(ts) = S /\ S = 1..Len(ts) /\ Len(ts) \in Nat
  BY DEF sorted
<1> HIDE DEF p
<1>5. \A k \in S : sorted(ts)[k] \in Entry
  BY <1>1, <1>2
<1>6. sorted(ts) \in Seq(Entry) /\ Len(sorted(ts)) = Len(ts)
  <2>1. sorted(ts) = [k \in S |-> sorted(ts)[k]]
    BY <1>4 DEF sorted
  <2>2. sorted(ts) \in [1..Len(ts) -> Entry]
    BY <1>4, <1>5, <2>1
  <2> QED
    BY <1>4, <2>2, SeqDef, LenProperties
<1>7. \A i \in S : p[Rank(ts, i)] = i
  BY <1>1, RankOrder
<1>8. \A k, l \in S : p[k] = p[l] => k = l
  BY <1>1
<1>9. \A i \in S : \E k \in S : p[k] = i
  BY <1>7, RankOrder
<1>10. p \in Bijection(S, S)
  <2> HIDE DEF S
  <2> QED
    BY <1>3, <1>8, <1>9 DEF Bijection, Injection, Surjection, IsInjective
<1>11. ASSUME NEW k \in S, NEW l \in S, k < l
       PROVE  ~Before(sorted(ts)[l], sorted(ts)[k])
  <2>1. p[k] \in S /\ p[l] \in S /\ k \in Nat /\ l \in Nat
    BY <1>1
  <2>2. ~NoLater(ts, p[l], p[k])
    BY <1>1, <1>11, <2>1, RankOrder
  <2> QED
    BY <1>2, <2>1, <2>2 DEF NoLater
<1> QED
  BY <1>2, <1>6, <1>10, <1>11

(* Rearranging trades keeps how many units of each order were traded.      *)
LEMMA RearrangedTraded ==
  ASSUME NEW s \in Seq(Entry), NEW ts \in Seq(Entry), Len(s) = Len(ts), NEW o,
         NEW p \in Bijection(DOMAIN ts, DOMAIN ts),
         \A k \in DOMAIN ts : s[k] = ts[p[k]]
  PROVE  Traded(s, o) = Traded(ts, o)
<1> DEFINE S == DOMAIN ts
           A == {i \in S : s[i].order = o}
           B == {i \in S : ts[i].order = o}
           q == [i \in A |-> p[i]]
<1>1. DOMAIN s = S /\ IsFiniteSet(S)
  BY FS_Interval
<1>2. /\ \A i \in S : p[i] \in S /\ (s[i].order = o <=> ts[p[i]].order = o)
      /\ \A i, j \in S : p[i] = p[j] => i = j
      /\ \A j \in S : \E i \in S : p[i] = j
  <2>1. /\ \A i \in S : p[i] \in S
        /\ \A i, j \in S : p[i] = p[j] => i = j
        /\ \A j \in S : \E i \in S : p[i] = j
    <3> HIDE DEF S
    <3>1. p \in Bijection(S, S)
      BY DEF S
    <3> QED
      BY <3>1 DEF Bijection, Injection, Surjection, IsInjective
  <2> QED
    BY <2>1
<1>3. /\ q \in [A -> B]
      /\ \A i, j \in A : q[i] = q[j] => i = j
      /\ \A j \in B : \E i \in A : q[i] = j
  <2> HIDE DEF S
  <2>1. \A i \in A : i \in S /\ p[i] \in B /\ q[i] = p[i]
    BY <1>2
  <2>2. q \in [A -> B]
    <3> HIDE DEF A, B
    <3> QED
      BY <2>1
  <2>3. \A i, j \in A : q[i] = q[j] => i = j
    <3> HIDE DEF A, B, q
    <3> QED
      BY <1>2, <2>1
  <2>4. ASSUME NEW j \in B PROVE \E i \in A : q[i] = j
    <3>1. PICK i \in S : p[i] = j
      BY <1>2
    <3>2. i \in A
      BY <1>2, <3>1
    <3> HIDE DEF A, B, q
    <3> QED
      BY <2>1, <3>1, <3>2
  <2> QED
    BY <2>2, <2>3, <2>4
<1>4. IsFiniteSet(A)
  <2>1. A \in SUBSET S
    OBVIOUS
  <2> HIDE DEF A
  <2> QED
    BY <1>1, <2>1, FS_Subset
<1>5. Traded(s, o) = Cardinality(A) /\ Traded(ts, o) = Cardinality(B)
  BY <1>1 DEF Traded
<1> HIDE DEF A, B, q
<1>6. q \in Bijection(A, B)
  BY <1>3 DEF Bijection, Injection, Surjection, IsInjective
<1>7. ExistsBijection(A, B)
  BY <1>6 DEF ExistsBijection
<1> QED
  BY <1>4, <1>5, <1>7, FS_Bijection

(* The newest-first list that the exchange sends is a rearrangement too.   *)
LEMMA ReversedTraded ==
  ASSUME NEW ts \in Seq(Entry)
  PROVE  /\ Reverse(ts) \in Seq(Entry) /\ Len(Reverse(ts)) = Len(ts)
         /\ \A o : Traded(Reverse(ts), o) = Traded(ts, o)
<1> DEFINE S == DOMAIN ts
           n == Len(ts)
           p == [i \in S |-> n - i + 1]
<1>1. n \in Nat /\ S = 1..n
  OBVIOUS
<1>2. Reverse(ts) = [i \in 1..n |-> ts[n - i + 1]]
  BY DEF Reverse
<1>3. \A i \in S : n - i + 1 \in S /\ n - (n - i + 1) + 1 = i
  BY <1>1
<1>4. Reverse(ts) \in [1..n -> Entry]
  BY <1>1, <1>2, <1>3
<1>5. Reverse(ts) \in Seq(Entry) /\ Len(Reverse(ts)) = n
  BY <1>1, <1>4, SeqDef, LenProperties
<1>6. p \in [S -> S] /\ \A i \in S : p[p[i]] = i
  BY <1>3
<1>7. \A i \in S : Reverse(ts)[i] = ts[p[i]]
  BY <1>1, <1>2
<1> HIDE DEF p
<1>8. p \in Bijection(S, S)
  <2> HIDE DEF S
  <2>1. \A i, j \in S : p[i] = p[j] => i = j
    BY <1>6
  <2>2. \A j \in S : \E i \in S : p[i] = j
    BY <1>6
  <2> QED
    BY <1>6, <2>1, <2>2 DEF Bijection, Injection, Surjection, IsInjective
<1> QED
  BY <1>5, <1>7, <1>8, RearrangedTraded

(* A history is descending: the trades of newer orders come first.         *)
Descending(h) == \A i, j \in DOMAIN h : i < j => h[i].order >= h[j].order

LEMMA HistoryOfTrades ==
  ASSUME NEW ts \in Seq(Entry)
  PROVE  /\ sorted(Reverse(ts)) \in Seq(Entry)
         /\ Descending(sorted(Reverse(ts)))
         /\ \A o : Traded(sorted(Reverse(ts)), o) = Traded(ts, o)
<1>1. PICK r \in Seq(Entry) : r = Reverse(ts)
  BY ReversedTraded
<1>2. PICK h \in Seq(Entry) : h = sorted(r)
  BY SortedRearranges
<1>3. /\ Len(h) = Len(r)
      /\ \A k, l \in DOMAIN r : k < l => ~Before(h[l], h[k])
      /\ \A o : Traded(h, o) = Traded(r, o)
  BY <1>2, SortedRearranges, RearrangedTraded
<1>4. \A k \in DOMAIN h : h[k].order \in Nat
  <2>1. \A k \in DOMAIN h : h[k] \in Entry
    OBVIOUS
  <2> QED
    BY <2>1, SessionAssumption DEF Entry, Order
<1>5. DOMAIN h = DOMAIN r
  BY <1>3
<1>6. Descending(h)
  BY <1>3, <1>4, <1>5 DEF Descending, Before
<1> QED
  BY <1>1, <1>2, <1>3, <1>6, ReversedTraded

LEMMA TradedNat ==
  ASSUME NEW ts \in Seq(Entry), NEW o
  PROVE  Traded(ts, o) \in Nat
<1> DEFINE A == {i \in DOMAIN ts : ts[i].order = o}
<1>1. IsFiniteSet(DOMAIN ts) /\ A \in SUBSET DOMAIN ts
  BY FS_Interval
<1>2. Traded(ts, o) = Cardinality(A)
  BY DEF Traded
<1> HIDE DEF A
<1> QED
  BY <1>1, <1>2, FS_Subset, FS_CardinalityType

(* One more trade of an order counts once.                                 *)
LEMMA OneMoreTraded ==
  ASSUME NEW ts \in Seq(Entry), NEW e \in Entry, NEW o
  PROVE  /\ Append(ts, e) \in Seq(Entry)
         /\ Traded(Append(ts, e), o) =
              IF e.order = o THEN Traded(ts, o) + 1 ELSE Traded(ts, o)
<1> DEFINE n == Len(ts) + 1
           A == {i \in DOMAIN ts : ts[i].order = o}
           B == {i \in DOMAIN Append(ts, e) : Append(ts, e)[i].order = o}
<1>1. /\ DOMAIN ts = 1..Len(ts) /\ DOMAIN Append(ts, e) = 1..n /\ Len(ts) \in Nat
      /\ Append(ts, e)[n] = e /\ \A i \in 1..Len(ts) : Append(ts, e)[i] = ts[i]
  OBVIOUS
<1>2. A \in SUBSET 1..Len(ts) /\ n \notin A
  BY <1>1
<1>3. B = IF e.order = o THEN A \cup {n} ELSE A
  BY <1>1
<1>4. Traded(ts, o) = Cardinality(A) /\ Traded(Append(ts, e), o) = Cardinality(B)
  BY DEF Traded
<1> HIDE DEF A, B
<1>5. IsFiniteSet(A)
  <2>1. IsFiniteSet(1..Len(ts))
    BY <1>1, FS_Interval
  <2> QED
    BY <1>2, <2>1, FS_Subset
<1>6. Cardinality(A) \in Nat /\ Cardinality(A \cup {n}) = Cardinality(A) + 1
  BY <1>2, <1>5, FS_AddElement, FS_CardinalityType
<1> QED
  BY <1>3, <1>4, <1>6

LEMMA NothingTraded ==
  ASSUME NEW o
  PROVE  /\ <<>> \in Seq(Entry)
         /\ Traded(<<>>, o) = 0
<1>1. {i \in DOMAIN <<>> : <<>>[i].order = o} = {}
  OBVIOUS
<1> QED
  BY <1>1, FS_EmptySet DEF Traded

-----------------------------------------------------------------------------
(* What the exchange counts: of an order no more is traded and open than   *)
(* was ordered, and of one that was not accepted yet nothing is traded.    *)
ExchangeInv ==
  /\ trades \in Seq(Entry)
  /\ \A o \in Order : Traded(trades, o) + pending[o] <= Units
  /\ \A o \in Order : o > placed => Traded(trades, o) = 0

TradedOnward == \A o \in Order : Traded(trades, o) <= Traded(trades', o)

LEMMA ExchangeStep ==
  ASSUME OpenedInv, ExchangeInv, [BothNext]_all
  PROVE  ExchangeInv' /\ TradedOnward
<1>0. /\ placed \in Nat
      /\ \A o \in Order : pending[o] \in Nat /\ Traded(trades, o) \in Nat
  BY TradedNat DEF OpenedInv, ExchangeInv
<1>1. ASSUME UNCHANGED trades, placed <= placed', placed' \in Nat,
             \A o \in Order : pending'[o] \in Nat /\
                              (pending'[o] <= pending[o] \/ (o = placed + 1 /\ pending'[o] = Units))
      PROVE  ExchangeInv' /\ TradedOnward
  <2>1. \A o \in Order : Traded(trades', o) = Traded(trades, o)
    BY <1>1
  <2>2. \A o \in Order : Traded(trades', o) + pending'[o] <= Units
    BY <1>0, <1>1, <2>1, SessionAssumption DEF ExchangeInv, Order
  <2>3. \A o \in Order : o > placed' => Traded(trades', o) = 0
    BY <1>0, <1>1, <2>1, SessionAssumption DEF ExchangeInv, Order
  <2> QED
    BY <1>0, <1>1, <2>1, <2>2, <2>3 DEF ExchangeInv, TradedOnward
<1>2. CASE UNCHANGED <<placed, pending, trades>>
  BY <1>0, <1>1, <1>2
<1>3. CASE /\ placed < MaxOrders /\ placed' = placed + 1 /\ UNCHANGED trades
           /\ pending' = [pending EXCEPT ![placed + 1] = Units]
  BY <1>0, <1>1, <1>3, SessionAssumption DEF Order, OpenedInv
<1>4. ASSUME NEW a, UNCHANGED <<placed, trades>>, pending' = [pending EXCEPT ![a] = 0]
      PROVE  ExchangeInv' /\ TradedOnward
  BY <1>0, <1>1, <1>4 DEF OpenedInv
<1>5. ASSUME NEW a \in Order, Fill(a)
      PROVE  ExchangeInv' /\ TradedOnward
  <2>1. PICK e \in Entry : e.order = a /\ trades' = Append(trades, e)
    BY <1>5 DEF Fill, ExchangeInv, Entry
  <2>2. \A o \in Order : Traded(trades', o) = IF o = a THEN Traded(trades, o) + 1 ELSE Traded(trades, o)
    BY <2>1, OneMoreTraded DEF ExchangeInv
  <2>3. trades' \in Seq(Entry)
    BY <2>1, OneMoreTraded DEF ExchangeInv
  <2>4. /\ placed' = placed /\ pending[a] > 0
        /\ \A o \in Order : pending'[o] = IF o = a THEN pending[o] - 1 ELSE pending[o]
    BY <1>5 DEF Fill, OpenedInv
  <2>5. \A o \in Order : Traded(trades', o) + pending'[o] <= Units
    BY <1>0, <2>2, <2>4, SessionAssumption DEF ExchangeInv
  <2>6. a <= placed
    BY <1>0, <2>4, SessionAssumption DEF OpenedInv, Order
  <2>7. \A o \in Order : o > placed' => Traded(trades', o) = 0
    BY <1>0, <2>2, <2>4, <2>6, SessionAssumption DEF ExchangeInv, Order
  <2>8. TradedOnward
    BY <1>0, <2>2 DEF TradedOnward
  <2> QED
    BY <2>3, <2>5, <2>7, <2>8 DEF ExchangeInv
<1>6. ASSUME NEW done \in BOOLEAN, NEW rc0 \in BOOLEAN, cancel_order(done, rc0)
      PROVE  ExchangeInv' /\ TradedOnward
  BY <1>2, <1>4, <1>6 DEF cancel_order
<1>7. ASSUME NEW done \in BOOLEAN, NEW rc0 \in BOOLEAN, cli_cancel(done, rc0)
      PROVE  ExchangeInv' /\ TradedOnward
  BY <1>2, <1>4, <1>7 DEF cli_cancel
<1>8. ASSUME NEW accepted \in BOOLEAN, NEW replied \in BOOLEAN, new_order(accepted, replied)
      PROVE  ExchangeInv' /\ TradedOnward
  BY <1>2, <1>3, <1>8 DEF new_order
<1>9. ASSUME NEW accepted \in BOOLEAN, NEW rc0 \in BOOLEAN, cli_order(accepted, rc0)
      PROVE  ExchangeInv' /\ TradedOnward
  BY <1>2, <1>3, <1>9 DEF cli_order
<1>10. CASE on_clicked \/ on_refresh \/ \E o \in Order : on_row_activated(o)
  BY <1>2, <1>10 DEF on_clicked, on_refresh, on_row_activated, exchange
<1>11. CASE update_balance \/ order_history_update
  BY <1>2, <1>11 DEF update_balance, order_history_update, exchange
<1>12. CASE (\E ok \in BOOLEAN : get_order_history(ok)) \/ (\E ok \in BOOLEAN : get_unsettled_orders(ok))
  BY <1>2, <1>12 DEF get_order_history, get_unsettled_orders, exchange
<1>13. CASE (\E ps \in Lists(Name) : cli_btc_buy(ps)) \/ (\E ids \in Lists(Order) : cli_cancel_order(ids))
  BY <1>2, <1>13 DEF cli_btc_buy, cli_cancel_order, exchange
<1>14. CASE UNCHANGED all
  BY <1>2, <1>14 DEF all, vars, exchange
<1> QED
  BY <1>5, <1>6, <1>7, <1>8, <1>9, <1>10, <1>11, <1>12, <1>13, <1>14 DEF BothNext, Next, CliNext

-----------------------------------------------------------------------------
Shown == {<<"show">>, <<"show", "balance">>}

(* What the panel counts.  The history is fetched before the open orders,  *)
(* and what is traded after it only moves units out of the second list:    *)
(* when both are there, no unit is in both.                                *)
PanelInv ==
  /\ history \in Seq(Entry) /\ tree.trades \in Seq(Entry)
  /\ \A o \in Order : unsettled.pending[o] \in Nat /\ rows.pending[o] \in Nat
  /\ \A o \in Order : Traded(history, o) <= Traded(trades, o)
  /\ todo \in Shown =>
       \A o \in Order : Traded(history, o) + unsettled.pending[o] <= Units
  /\ NoDoubleCount

LEMMA PanelStep ==
  ASSUME PanelInv, ListedInv, ExchangeInv, LiveInv, TradedOnward, ExchangeInv',
         [BothNext]_all
  PROVE  PanelInv'
<1>0. /\ \A o \in Order : pending[o] \in Nat
      /\ \A o \in Order : /\ Traded(trades, o) \in Nat /\ Traded(trades', o) \in Nat
                           /\ Traded(history, o) \in Nat /\ Traded(tree.trades, o) \in Nat
  BY TradedNat DEF ListedInv, ExchangeInv, PanelInv
<1>1. ASSUME UNCHANGED <<lists, tree>>, todo' = todo \/ todo' \notin Shown,
             \A o \in Order : rows'.pending[o] \in {0, rows.pending[o]}
      PROVE  PanelInv'
  <2>1. \A o \in Order : Traded(history', o) <= Traded(trades', o)
    BY <1>0, <1>1 DEF lists, PanelInv, TradedOnward
  <2>2. NoDoubleCount'
    BY <1>0, <1>1, SessionAssumption DEF lists, PanelInv, NoDoubleCount
  <2>3. todo' \in Shown =>
          \A o \in Order : Traded(history', o) + unsettled'.pending[o] <= Units
    BY <1>1 DEF lists, PanelInv
  <2> QED
    BY <1>1, <2>1, <2>2, <2>3 DEF lists, PanelInv
<1>2. ASSUME NEW o \in Order, Fill(o)
      PROVE  PanelInv'
  BY <1>1, <1>2 DEF Fill
<1>3. CASE on_clicked \/ on_refresh \/ \E o \in Order : on_row_activated(o)
  <2>1. todo' \in {<<"new_order">>, <<"history", "unsettled", "show", "balance">>, <<"cancel">>}
    BY <1>3, QueueOfSteps DEF on_clicked, on_refresh, on_row_activated
  <2>2. todo' \notin Shown
    BY <2>1, QueueOfSteps DEF Shown
  <2> QED
    BY <1>1, <1>3, <2>2 DEF on_clicked, on_refresh, on_row_activated
<1>4. ASSUME NEW accepted \in BOOLEAN, NEW replied \in BOOLEAN, new_order(accepted, replied)
      PROVE  PanelInv'
  <2>1. todo' \in {<<>>, <<"balance", "history", "unsettled", "show">>}
    BY <1>4, QueueOfSteps DEF new_order
  <2>2. todo' \notin Shown
    BY <2>1, QueueOfSteps DEF Shown
  <2> QED
    BY <1>1, <1>4, <2>2 DEF new_order
<1>5. ASSUME NEW done \in BOOLEAN, NEW rc0 \in BOOLEAN, cancel_order(done, rc0)
      PROVE  PanelInv'
  <2>1. todo' \in {<<>>, <<"balance">>}
    BY <1>5 DEF cancel_order
  <2>2. todo' \notin Shown
    BY <2>1, QueueOfSteps DEF Shown
  <2>3. \A o \in Order : rows'.pending[o] \in {0, rows.pending[o]}
    <3>1. /\ DOMAIN rows.pending = Order
          /\ rows = [pending |-> rows.pending, upto |-> rows.upto,
                     answered |-> rows.answered, refused |-> rows.refused]
      BY DEF ListedInv, Shaped
    <3>2. rows'.pending = [rows.pending EXCEPT ![target] = 0] \/ rows' = rows
      BY <1>5, <3>1 DEF cancel_order, RowRemoved
    <3> QED
      BY <3>1, <3>2
  <2> QED
    BY <1>1, <1>5, <2>2, <2>3 DEF cancel_order
<1>6. CASE update_balance
  <2>1. todo \in {<<"balance">>, <<"balance", "history", "unsettled", "show">>}
    BY <1>6, QueueOfSteps DEF update_balance, Step, LiveInv, Fetched, Unfetched
  <2>2. todo' \in {<<>>, <<"history", "unsettled", "show">>}
    BY <1>6, <2>1, QueueOfSteps DEF update_balance
  <2>3. todo' \notin Shown
    BY <2>2, QueueOfSteps DEF Shown
  <2> QED
    BY <1>1, <1>6, <2>3 DEF update_balance
<1>7. ASSUME NEW ok \in BOOLEAN, get_order_history(ok)
      PROVE  PanelInv'
  <2>1. todo \in {<<"history", "unsettled", "show", "balance">>,
                  <<"history", "unsettled", "show">>}
    BY <1>7, QueueOfSteps DEF get_order_history, Step, LiveInv, Fetched, Unfetched
  <2>2. todo' \in {<<"unsettled", "show", "balance">>, <<"unsettled", "show">>}
    BY <1>7, <2>1, QueueOfSteps DEF get_order_history
  <2>3. todo' \notin Shown
    BY <2>2, QueueOfSteps DEF Shown
  <2>4. history' \in Seq(Entry) /\ \A o \in Order : Traded(history', o) <= Traded(trades, o)
    <3>1. CASE ok
      BY <1>0, <1>7, <3>1, HistoryOfTrades DEF get_order_history, ExchangeInv
    <3>2. CASE ~ok
      BY <1>0, <1>7, <3>2, NothingTraded DEF get_order_history
    <3> QED
      BY <3>1, <3>2
  <2> QED
    BY <1>7, <2>3, <2>4 DEF get_order_history, exchange, PanelInv, NoDoubleCount
<1>8. ASSUME NEW ok \in BOOLEAN, get_unsettled_orders(ok)
      PROVE  PanelInv'
  <2>1. \A o \in Order : unsettled'.pending[o] \in {0, pending[o]}
    BY <1>8 DEF get_unsettled_orders, NothingPending
  <2>2. \A o \in Order : unsettled'.pending[o] \in Nat
                         /\ Traded(history, o) + unsettled'.pending[o] <= Units
    BY <1>0, <2>1, SessionAssumption DEF PanelInv, ExchangeInv
  <2> QED
    BY <1>8, <2>2 DEF get_unsettled_orders, exchange, PanelInv, NoDoubleCount
<1>9. CASE order_history_update
  <2>1. todo \in {<<"show", "balance">>, <<"show">>}
    BY <1>9, QueueOfSteps DEF order_history_update, Step, LiveInv, Fetched, Unfetched
  <2>2. todo' \in {<<"balance">>, <<>>}
    BY <1>9, <2>1, QueueOfSteps DEF order_history_update
  <2>3. todo' \notin Shown
    BY <2>2, QueueOfSteps DEF Shown
  <2>4. /\ tree'.trades = history /\ rows' = unsettled
        /\ UNCHANGED <<history, unsettled, trades>>
    BY <1>9 DEF order_history_update, lists, exchange
  <2> QED
    BY <2>1, <2>3, <2>4 DEF PanelInv, NoDoubleCount, Shown
<1>10. CASE CliNext
  BY <1>1, <1>10 DEF CliNext, cli_btc_buy, cli_cancel_order, cli_order, cli_cancel, panel
<1>11. CASE UNCHANGED all
  BY <1>1, <1>11 DEF all, vars
<1> QED
  BY <1>2, <1>3, <1>4, <1>5, <1>6, <1>7, <1>8, <1>9, <1>10, <1>11 DEF BothNext, Next

(* No unit of an order is listed twice, as traded and as pending, whenever *)
(* the exchange trades, whatever is lost and whatever the tool does.       *)
THEOREM UnitsListedOnce == BothSpec => []NoDoubleCount
<1> DEFINE IInv == OpenedInv /\ ExchangeInv /\ PanelInv
<1>1. BothInit => IInv
  BY SessionAssumption, NothingTraded
     DEF BothInit, Init, OpenedInv, ExchangeInv, PanelInv, NoListing, NothingPending, NoDoubleCount, Order, Shown
<1>2. IInv /\ LiveInv /\ ListedInv /\ [BothNext]_all => IInv'
  BY OrdersStep, ExchangeStep, PanelStep
<1>3. IInv => NoDoubleCount
  BY DEF PanelInv
<1> QED
  BY <1>1, <1>2, <1>3, LiveAlways, ListedAlways, PTL DEF BothSpec, all

-----------------------------------------------------------------------------
(* The history is sorted, and so is what the tree was filled from.         *)
ParentsInv ==
  /\ trades \in Seq(Entry) /\ history \in Seq(Entry) /\ tree.trades \in Seq(Entry)
  /\ Descending(history) /\ Descending(tree.trades)
  /\ tree.parents = Parents(tree.trades)

(* In a descending list each order has one first entry.                    *)
LEMMA ParentsOnce ==
  ASSUME NEW h \in Seq(Entry), Descending(h),
         NEW i \in DOMAIN Parents(h), NEW j \in DOMAIN Parents(h),
         Parents(h)[i] = Parents(h)[j]
  PROVE  i = j
<1>1. \A k \in DOMAIN h : h[k].order \in Nat
  <2>1. \A k \in DOMAIN h : h[k] \in Entry
    OBVIOUS
  <2> QED
    BY <2>1, SessionAssumption DEF Entry, Order
<1>2. ASSUME NEW k \in DOMAIN Parents(h)
      PROVE  /\ k \in DOMAIN h /\ Parents(h)[k] = h[k].order
             /\ k = 1 \/ h[k - 1].order # h[k].order
  BY DEF Parents
<1>3. ASSUME NEW k \in DOMAIN Parents(h), NEW l \in DOMAIN Parents(h), k < l
      PROVE  Parents(h)[k] # Parents(h)[l]
  <2>1. k \in DOMAIN h /\ l \in DOMAIN h /\ l - 1 \in DOMAIN h /\ k <= l - 1
    BY <1>2, <1>3
  <2>2. l - 1 < l /\ l # 1 /\ (k < l - 1 \/ k = l - 1)
    BY <1>3, <2>1
  <2>3. h[k].order >= h[l - 1].order /\ h[l - 1].order >= h[l].order
    BY <1>1, <2>1, <2>2 DEF Descending
  <2>4. h[l - 1].order # h[l].order
    BY <1>2, <2>2
  <2> QED
    BY <1>1, <1>2, <2>1, <2>3, <2>4
<1>4. i \in DOMAIN h /\ j \in DOMAIN h
  BY <1>2
<1> QED
  BY <1>3, <1>4

(* The trades of an order are listed under one parent, though orders trade *)
(* in turns.                                                               *)
THEOREM OneParent == BothSpec => []OneParentPerOrder
<1>1. BothInit => ParentsInv
  <2>1. <<>> \in Seq(Entry) /\ Descending(<<>>)
    BY DEF Descending
  <2>2. <<>> = Parents(<<>>)
    BY DEF Parents
  <2> QED
    BY <2>1, <2>2 DEF BothInit, Init, ParentsInv
<1>2. ParentsInv /\ [BothNext]_all => ParentsInv'
  <2> SUFFICES ASSUME ParentsInv, [BothNext]_all
               PROVE  ParentsInv'
    OBVIOUS
  <2>1. CASE UNCHANGED <<trades, history, tree>>
    BY <2>1 DEF ParentsInv
  <2>2. ASSUME NEW o \in Order, Fill(o)
        PROVE  ParentsInv'
    <3>1. trades' \in Seq(Entry)
      BY <2>2 DEF Fill, Entry, ParentsInv
    <3> QED
      BY <2>2, <3>1 DEF Fill, lists, ParentsInv
  <2>3. ASSUME NEW ok \in BOOLEAN, get_order_history(ok)
        PROVE  ParentsInv'
    <3>1. <<>> \in Seq(Entry) /\ Descending(<<>>)
      BY DEF Descending
    <3>2. history' \in Seq(Entry) /\ Descending(history')
      BY <2>3, <3>1, HistoryOfTrades DEF get_order_history, ParentsInv
    <3> QED
      BY <2>3, <3>2 DEF get_order_history, exchange, ParentsInv
  <2>4. CASE order_history_update
    <3>1. /\ tree'.trades = history /\ tree'.parents = Parents(history)
          /\ UNCHANGED <<trades, history>>
      BY <2>4 DEF order_history_update, lists, exchange
    <3> QED
      BY <3>1 DEF ParentsInv
  <2>5. CASE UNCHANGED all
    BY <2>1, <2>5 DEF all, vars, exchange, lists
  <2>6. CASE CliNext
    BY <2>1, <2>6 DEF CliNext, cli_btc_buy, cli_cancel_order, cli_order, cli_cancel, panel, exchange, lists
  <2>7. CASE on_clicked \/ on_refresh \/ \E o \in Order : on_row_activated(o)
    BY <2>1, <2>7 DEF on_clicked, on_refresh, on_row_activated, exchange, lists
  <2>8. CASE \/ \E accepted, replied \in BOOLEAN : new_order(accepted, replied)
             \/ \E done, rc0 \in BOOLEAN : cancel_order(done, rc0)
             \/ update_balance
             \/ \E ok \in BOOLEAN : get_unsettled_orders(ok)
    BY <2>1, <2>8 DEF new_order, cancel_order, update_balance, get_unsettled_orders, exchange, lists
  <2> QED
    BY <2>2, <2>3, <2>4, <2>5, <2>6, <2>7, <2>8 DEF BothNext, Next
<1>3. ParentsInv => OneParentPerOrder
  BY ParentsOnce DEF ParentsInv, OneParentPerOrder
<1> QED
  BY <1>1, <1>2, <1>3, PTL DEF BothSpec, all
=============================================================================
