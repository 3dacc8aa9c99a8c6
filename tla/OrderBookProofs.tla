-------------------------- MODULE OrderBookProofs --------------------------
(***************************************************************************)
(* Theorems about the order form and the order book, for every set of      *)
(* answers, every depth and every pair of minima.                          *)
(***************************************************************************)
EXTENDS OrderBook, SequenceTheorems, WellFoundedInduction, TLAPS

(* The smaller of two numbers, as Min of the pair finds it. *)
LEMMA MinOfTwo ==
  ASSUME NEW a \in Nat, NEW b \in Nat
  PROVE  /\ Min({a, b}) \in {a, b}
         /\ Min({a, b}) <= a /\ Min({a, b}) <= b
<1>1. \E m \in {a, b} : \A y \in {a, b} : m <= y
  <2>1. CASE a <= b
    BY <2>1
  <2>2. CASE b <= a
    BY <2>2
  <2> QED
    BY <2>1, <2>2
<1> QED
  BY <1>1 DEF Min

(* What is listed of a side is the head of the answer, up to the depth. *)
LEMMA ListedHead ==
  ASSUME NEW d \in Documents, NEW t \in Tree
  PROVE  /\ Len(Listed(d, t)) \in Nat
         /\ DOMAIN Listed(d, t) = 1..Len(Listed(d, t))
         /\ Len(Listed(d, t)) = Min({Len(d[t]), Depth})
         /\ Len(Listed(d, t)) <= Len(d[t])
         /\ \A i \in 1..Len(Listed(d, t)) : Listed(d, t)[i] = d[t][i]
<1> DEFINE R == [rate : Rate, amount : Nat]
           m == Min({Len(d[t]), Depth})
<1>1. d[t] \in Seq(R) /\ Depth \in Nat
  BY BookAssumption
<1> HIDE DEF R
<1>2. Len(d[t]) \in Nat
  BY <1>1
<1>3. m \in Nat /\ m <= Len(d[t])
  BY <1>1, <1>2, MinOfTwo
<1> HIDE DEF m
<1>4. Listed(d, t) = SubSeq(d[t], 1, m)
  BY DEF Listed, m
<1>5. \A i \in 1..m : d[t][i] \in R
  BY <1>1, <1>3
<1>6. /\ SubSeq(d[t], 1, m) \in Seq(R)
      /\ Len(SubSeq(d[t], 1, m)) = IF 1 <= m THEN m - 1 + 1 ELSE 0
      /\ \A i \in 1..(m - 1 + 1) : SubSeq(d[t], 1, m)[i] = d[t][1 + i - 1]
  BY <1>3, <1>5, SubSeqProperties
<1>7. Len(SubSeq(d[t], 1, m)) = m /\ \A i \in 1..m : SubSeq(d[t], 1, m)[i] = d[t][i]
  BY <1>3, <1>6
<1>8. DOMAIN SubSeq(d[t], 1, m) = 1..Len(SubSeq(d[t], 1, m))
  BY <1>6
<1> QED
  BY <1>3, <1>4, <1>7, <1>8 DEF m

(* A side on display is the head of the answer, row by row, whatever the   *)
(* bars are.                                                               *)
LEMMA ScaledRows ==
  ASSUME NEW d \in Documents, NEW t \in Tree
  PROVE  /\ Len(Scaled(d, t)) = Min({Len(d[t]), Depth})
         /\ DOMAIN Scaled(d, t) = 1..Len(Scaled(d, t))
         /\ \A i \in DOMAIN Scaled(d, t) :
              /\ Scaled(d, t)[i].rate = d[t][i].rate
              /\ Scaled(d, t)[i].amount = d[t][i].amount
<1> DEFINE rows == Listed(d, t)
           most == max_amount(d, t)
           Bar(row) == IF most = 0 THEN 0 ELSE Min({100, (100 * row.amount) \div most})
<1>1. /\ Len(rows) \in Nat /\ DOMAIN rows = 1..Len(rows)
      /\ Len(rows) = Min({Len(d[t]), Depth})
      /\ \A i \in 1..Len(rows) : rows[i] = d[t][i]
  BY ListedHead
<1>2. Scaled(d, t) = [i \in DOMAIN rows |->
        [rate |-> rows[i].rate, amount |-> rows[i].amount, scales |-> Bar(rows[i])]]
  BY DEF Scaled
<1> HIDE DEF rows, most, Bar
<1>3. DOMAIN Scaled(d, t) = 1..Len(rows)
  BY <1>1, <1>2
<1>4. Len(Scaled(d, t)) = Len(rows)
  BY <1>1, <1>2
<1>5. \A i \in 1..Len(rows) : /\ Scaled(d, t)[i].rate = rows[i].rate
                              /\ Scaled(d, t)[i].amount = rows[i].amount
  BY <1>1, <1>2
<1> QED
  BY <1>1, <1>3, <1>4, <1>5

-----------------------------------------------------------------------------
(* No order leaves the form with a rate below 1 or less than the minimum,  *)
(* whatever the buttons, the refreshes and the selections left behind.     *)
THEOREM NoInvalidOrder == Spec => []OnlyValidOrders
<1>1. Init => OnlyValidOrders
  BY DEF Init, FormInit, OnlyValidOrders
<1>2. OnlyValidOrders /\ [Next]_vars => OnlyValidOrders'
  <2> SUFFICES ASSUME OnlyValidOrders, [Next]_vars PROVE OnlyValidOrders'
    OBVIOUS
  <2>h. ASSUME UNCHANGED sent PROVE OnlyValidOrders'
    BY <2>h DEF OnlyValidOrders
  <2>1. CASE FormNext /\ UNCHANGED book
    <3>1. ASSUME NEW s \in Side, Submit(s) PROVE OnlyValidOrders'
      BY <3>1 DEF Submit, Valid, OnlyValidOrders
    <3>2. ASSUME NEW s \in Side,
                 \/ \E text \in Text : EditRate(s, text)
                 \/ ActivateRate(s)
                 \/ \E x \in Amount : ChangeAmount(s, x)
                 \/ Refuse(s)
          PROVE  UNCHANGED sent
      BY <3>2 DEF EditRate, ActivateRate, ChangeAmount, Refuse
    <3> QED
      BY <2>1, <2>h, <3>1, <3>2 DEF FormNext
  <2>2. ASSUME NEW d \in Documents, update_order_book(d) PROVE UNCHANGED sent
    BY <2>2 DEF update_order_book, update_orders, form
  <2>3. CASE update_order_book_aborts
    BY <2>3, <2>h DEF update_order_book_aborts
  <2>4. ASSUME NEW t \in Tree, NEW i \in DOMAIN store[t], SelectRow(t, i)
        PROVE  UNCHANGED sent
    BY <2>4 DEF SelectRow, SelectAsk, SelectBid, Select
  <2>5. CASE UNCHANGED vars
    BY <2>5, <2>h DEF vars, form
  <2> QED
    BY <2>1, <2>2, <2>3, <2>4, <2>5, <2>h DEF Next
<1> QED
  BY <1>1, <1>2, PTL DEF Spec

(* The rows of both trees are those of one answer.                         *)
BookInv ==
  /\ source \in Documents \cup {NoRows}
  /\ \A t \in Tree : DOMAIN store[t] = 1..Len(store[t])
  /\ OneAnswer

LEMMA BookStep == BookInv /\ [Next]_vars => BookInv'
<1> SUFFICES ASSUME BookInv, [Next]_vars PROVE BookInv'
  OBVIOUS
<1>h. ASSUME UNCHANGED <<store, source>> PROVE BookInv'
  BY <1>h DEF BookInv, OneAnswer
<1>1. CASE FormNext /\ UNCHANGED book
  BY <1>1, <1>h DEF book
<1>2. ASSUME NEW d \in Documents, update_order_book(d) PROVE BookInv'
  <2>1. source' = d /\ \A t \in Tree : store'[t] = Scaled(d, t)
    BY <1>2 DEF update_order_book, update_orders
  <2>2. source' \in Documents \cup {NoRows}
    BY <2>1
  <2>3. \A t \in Tree : DOMAIN store'[t] = 1..Len(store'[t])
    BY <2>1, ScaledRows
  <2>4. OneAnswer'
    BY <2>1, ScaledRows DEF OneAnswer
  <2> QED
    BY <2>2, <2>3, <2>4 DEF BookInv
<1>3. CASE update_order_book_aborts
  BY <1>3, <1>h DEF update_order_book_aborts, book
<1>4. ASSUME NEW t \in Tree, NEW i \in DOMAIN store[t], SelectRow(t, i)
      PROVE  BookInv'
  BY <1>4, <1>h DEF SelectRow
<1>5. CASE UNCHANGED vars
  BY <1>5, <1>h DEF vars, book
<1> QED
  BY <1>1, <1>2, <1>3, <1>4, <1>5 DEF Next

(* The stores, the answer they show and the selection always agree.        *)
THEOREM BookInvariance == Spec => []BookInv
<1>1. Init => BookInv
  <2> SUFFICES ASSUME Init PROVE BookInv
    OBVIOUS
  <2>1. source = NoRows /\ \A t \in Tree : store[t] = <<>> /\ source[t] = <<>>
    BY DEF Init, NoRows
  <2>2. Depth \in Nat /\ Min({0, Depth}) = 0
    BY BookAssumption, MinOfTwo
  <2>3. Len(<<>>) = 0 /\ DOMAIN <<>> = 1..0
    OBVIOUS
  <2>4. source \in Documents \cup {NoRows}
    BY <2>1
  <2>5. \A t \in Tree : DOMAIN store[t] = 1..Len(store[t])
    BY <2>1, <2>3
  <2>6. OneAnswer
    BY <2>1, <2>2, <2>3 DEF OneAnswer
  <2> QED
    BY <2>4, <2>5, <2>6 DEF BookInv
<1> QED
  BY <1>1, BookStep, PTL DEF Spec

(* Both trees always show one answer, cut off at the depth.                *)
THEOREM OneAnswerShown == Spec => []OneAnswer
<1>1. BookInv => OneAnswer
  BY DEF BookInv
<1> QED
  BY <1>1, BookInvariance, PTL

-----------------------------------------------------------------------------
(* What the callbacks leave behind is a sensitivity for each button.       *)
LEMMA RateChangedType ==
  ASSUME NEW b \in [Side -> BOOLEAN], NEW s \in Side, NEW text, NEW a
  PROVE  rate_changed(b, s, text, a) \in [Side -> BOOLEAN]
<1>1. (text # Below /\ a[s] >= GuiMinimum) \in BOOLEAN
  OBVIOUS
<1> QED
  BY <1>1 DEF rate_changed

LEMMA SetValueType ==
  ASSUME NEW b \in [Side -> BOOLEAN], NEW s \in Side, NEW r, NEW x
  PROVE  set_value(b, s, r, x) \in [Side -> BOOLEAN]
BY DEF set_value, amount_changed

LEMMA ClipType == ASSUME NEW x \in Nat PROVE Clip(x) \in Amount
BY FormAssumption DEF Clip, Amount

(* A row on display has a rate of at least 1 and an amount.                *)
LEMMA RowType ==
  ASSUME BookInv, NEW t \in Tree, NEW i \in DOMAIN store[t]
  PROVE  store[t][i].rate \in Rate /\ store[t][i].amount \in Nat
<1> DEFINE R == [rate : Rate, amount : Nat]
<1>1. source[t] \in Seq(R)
  <2>1. CASE source \in Documents
    BY <2>1, BookAssumption
  <2>2. CASE source = NoRows
    BY <2>2 DEF NoRows
  <2> QED
    BY <2>1, <2>2 DEF BookInv
<1>2. /\ DOMAIN store[t] = 1..Len(store[t])
      /\ Len(store[t]) = Min({Len(source[t]), Depth})
      /\ store[t][i].rate = source[t][i].rate
      /\ store[t][i].amount = source[t][i].amount
  BY DEF BookInv, OneAnswer
<1> HIDE DEF R
<1>3. Len(source[t]) \in Nat /\ Depth \in Nat
  BY <1>1, BookAssumption
<1>4. i \in 1..Len(source[t])
  BY <1>2, <1>3, MinOfTwo
<1>5. source[t][i] \in R
  BY <1>1, <1>4
<1> QED
  BY <1>2, <1>5 DEF R

LEMMA SelectType ==
  ASSUME FormTypeOK, NEW s \in Side, NEW text \in Text, NEW x \in Nat,
         Select(s, text, x)
  PROVE  FormTypeOK'
<1> DEFINE r == [rate EXCEPT ![s] = text]
           a == [amount EXCEPT ![s] = Clip(x)]
           b == set_value(sensitive, s, r, x)
<1>1. r \in [Side -> Text] /\ a \in [Side -> Amount]
  BY ClipType DEF FormTypeOK
<1>2. rate' = r /\ amount' = a /\ UNCHANGED <<sent, aborted>>
      /\ sensitive' = rate_changed(b, "buy", text, a)
  BY DEF Select
<1>3. b \in [Side -> BOOLEAN]
  BY SetValueType DEF FormTypeOK
<1> HIDE DEF r, a, b
<1>4. sensitive' \in [Side -> BOOLEAN]
  BY <1>2, <1>3, RateChangedType DEF Side
<1> QED
  BY <1>1, <1>2, <1>4 DEF FormTypeOK

LEMMA FormStep == FormTypeOK /\ BookInv /\ [Next]_vars => FormTypeOK'
<1> SUFFICES ASSUME FormTypeOK, BookInv, [Next]_vars PROVE FormTypeOK'
  OBVIOUS
<1>h. ASSUME UNCHANGED form PROVE FormTypeOK'
  BY <1>h DEF form, FormTypeOK
<1>1. CASE FormNext /\ UNCHANGED book
  <2>1. ASSUME NEW s \in Side, NEW text \in Text, EditRate(s, text) PROVE FormTypeOK'
    BY <2>1 DEF EditRate, FormTypeOK
  <2>2. ASSUME NEW s \in Side, ActivateRate(s) PROVE FormTypeOK'
    <3>1. sensitive' \in [Side -> BOOLEAN]
      BY <2>2, RateChangedType DEF ActivateRate, FormTypeOK
    <3> QED
      BY <2>2, <3>1 DEF ActivateRate, FormTypeOK
  <2>3. ASSUME NEW s \in Side, NEW x \in Amount, ChangeAmount(s, x) PROVE FormTypeOK'
    <3>1. sensitive' \in [Side -> BOOLEAN]
      BY <2>3, SetValueType DEF ChangeAmount, FormTypeOK
    <3> QED
      BY <2>3, <3>1 DEF ChangeAmount, FormTypeOK
  <2>4. ASSUME NEW s \in Side, Refuse(s) PROVE FormTypeOK'
    BY <2>4 DEF Refuse, FormTypeOK
  <2>5. ASSUME NEW s \in Side, Submit(s) PROVE FormTypeOK'
    <3>1. rate[s] \in Text /\ amount[s] \in Amount
      BY DEF FormTypeOK
    <3>2. [side |-> s, rate |-> rate[s], amount |-> amount[s]] \in Order
      BY <3>1 DEF Order
    <3> QED
      BY <2>5, <3>2 DEF Submit, FormTypeOK
  <2> QED
    BY <1>1, <2>1, <2>2, <2>3, <2>4, <2>5 DEF FormNext
<1>2. ASSUME NEW d \in Documents, update_order_book(d) PROVE FormTypeOK'
  BY <1>2, <1>h DEF update_order_book, update_orders
<1>3. CASE update_order_book_aborts
  BY <1>3 DEF update_order_book_aborts, FormTypeOK
<1>4. ASSUME NEW t \in Tree, NEW i \in DOMAIN store[t], SelectRow(t, i)
      PROVE  FormTypeOK'
  <2>1. store[t][i].rate \in Text /\ store[t][i].amount \in Nat
    BY RowType DEF Text
  <2>2. \E s \in Side : Select(s, store[t][i].rate, store[t][i].amount)
    BY <1>4 DEF SelectRow, SelectAsk, SelectBid, Side
  <2> QED
    BY <2>1, <2>2, SelectType
<1>5. CASE UNCHANGED vars
  BY <1>5, <1>h DEF vars
<1> QED
  BY <1>1, <1>2, <1>3, <1>4, <1>5 DEF Next

(* The form's variables have their types whatever the book offers.         *)
THEOREM FormTypeCorrect == Spec => []FormTypeOK
<1>1. Init => FormTypeOK
  <2> SUFFICES ASSUME Init PROVE FormTypeOK
    OBVIOUS
  <2>1. 0 \in Amount /\ Empty \in Text
    BY FormAssumption DEF Amount, Text
  <2>2. rate \in [Side -> Text] /\ amount \in [Side -> Amount]
    BY <2>1 DEF Init, FormInit
  <2>3. sensitive \in [Side -> BOOLEAN] /\ aborted \in BOOLEAN
    BY DEF Init, FormInit
  <2>4. sent \in Order \cup {NoOrder}
    BY DEF Init, FormInit
  <2> QED
    BY <2>2, <2>3, <2>4 DEF FormTypeOK
<1> QED
  BY <1>1, FormStep, BookInvariance, PTL DEF Spec

(* Selecting an ask judges the buy button afresh, whatever stale           *)
(* sensitivity it had.                                                     *)
THEOREM AskJudgesBuy == Spec => AskArmsBuy
<1> DEFINE Judged ==
      \A i \in DOMAIN store["asks"] :
        SelectRow("asks", i) => (sensitive'["buy"] <=> amount'["buy"] >= GuiMinimum)
<1>1. FormTypeOK /\ BookInv => Judged
  <2> SUFFICES ASSUME FormTypeOK, BookInv, NEW i \in DOMAIN store["asks"],
                      SelectRow("asks", i)
               PROVE  sensitive'["buy"] <=> amount'["buy"] >= GuiMinimum
    OBVIOUS
  <2> DEFINE text == store["asks"][i].rate
             x == store["asks"][i].amount
             r == [rate EXCEPT !["buy"] = text]
             a == [amount EXCEPT !["buy"] = Clip(x)]
             b == set_value(sensitive, "buy", r, x)
  <2>1. "asks" \in Tree /\ "buy" \in Side
    BY DEF Tree, Side
  <2>2. text \in Rate /\ text # Empty /\ text # Below
    BY <2>1, RowType, FormAssumption
  <2>3. b \in [Side -> BOOLEAN]
    BY <2>1, SetValueType DEF FormTypeOK
  <2>4. amount' = a /\ sensitive' = rate_changed(b, "buy", text, a)
    BY DEF SelectRow, SelectAsk, Select
  <2> HIDE DEF text, x, r, a, b
  <2>5. sensitive' = [b EXCEPT !["buy"] = text # Below /\ a["buy"] >= GuiMinimum]
    BY <2>2, <2>4 DEF rate_changed
  <2>6. sensitive'["buy"] = (text # Below /\ a["buy"] >= GuiMinimum)
    BY <2>1, <2>3, <2>5
  <2> QED
    BY <2>2, <2>4, <2>6
<1>2. FormTypeOK /\ BookInv /\ [Next]_vars => [Judged]_vars
  BY <1>1
<1> QED
  BY <1>2, FormTypeCorrect, BookInvariance, PTL DEF Spec, AskArmsBuy

(* What selecting a bid does instead, since its handler ends in the buy    *)
(* callback: the buy button is judged by the buy side's own amount and the *)
(* bid's rate, and the sell button is only ever armed, by an amount that   *)
(* changes, and never made insensitive.                                    *)
THEOREM BidJudgesBuyToo ==
  Spec => [][\A i \in DOMAIN store["bids"] : SelectRow("bids", i) =>
               /\ sensitive'["buy"] <=> amount["buy"] >= GuiMinimum
               /\ sensitive'["sell"] <=>
                    \/ sensitive["sell"]
                    \/ amount'["sell"] # amount["sell"] /\ amount'["sell"] >= GuiMinimum]_vars
<1> DEFINE Judged ==
      \A i \in DOMAIN store["bids"] : SelectRow("bids", i) =>
        /\ sensitive'["buy"] <=> amount["buy"] >= GuiMinimum
        /\ sensitive'["sell"] <=>
             \/ sensitive["sell"]
             \/ amount'["sell"] # amount["sell"] /\ amount'["sell"] >= GuiMinimum
<1>1. ASSUME FormTypeOK, BookInv, NEW i \in DOMAIN store["bids"], SelectRow("bids", i)
      PROVE  /\ sensitive'["buy"] <=> amount["buy"] >= GuiMinimum
             /\ sensitive'["sell"] <=>
                  \/ sensitive["sell"]
                  \/ amount'["sell"] # amount["sell"] /\ amount'["sell"] >= GuiMinimum
  <2> DEFINE text == store["bids"][i].rate
             x == store["bids"][i].amount
             r == [rate EXCEPT !["sell"] = text]
             a == [amount EXCEPT !["sell"] = Clip(x)]
             b == set_value(sensitive, "sell", r, x)
  <2>1. "bids" \in Tree /\ "buy" \in Side /\ "sell" \in Side
    BY DEF Tree, Side
  <2>2. text \in Rate /\ text # Empty /\ text # Below
    BY <1>1, <2>1, RowType, FormAssumption
  <2>3. b \in [Side -> BOOLEAN]
    BY <1>1, <2>1, SetValueType DEF FormTypeOK
  <2>4. amount' = a /\ sensitive' = rate_changed(b, "buy", text, a)
    BY <1>1 DEF SelectRow, SelectBid, Select
  <2>5. r["sell"] = text /\ a["sell"] = Clip(x) /\ a["buy"] = amount["buy"]
    BY <1>1, <2>1 DEF FormTypeOK
  <2>6. b["sell"] <=> \/ sensitive["sell"]
                      \/ Clip(x) # amount["sell"] /\ Clip(x) >= GuiMinimum
    <3>1. sensitive \in [Side -> BOOLEAN] /\ r["sell"] \in Rate
      BY <1>1, <2>2, <2>5 DEF FormTypeOK
    <3> HIDE DEF r, x, text, a
    <3>2. CASE Clip(x) = amount["sell"]
      BY <3>2 DEF b, set_value
    <3>3. CASE Clip(x) # amount["sell"]
      <4>1. b = IF Clip(x) >= GuiMinimum THEN [sensitive EXCEPT !["sell"] = TRUE] ELSE sensitive
        BY <2>1, <3>1, <3>3, <1>1 DEF b, set_value, amount_changed, FormTypeOK
      <4> HIDE DEF b
      <4> QED
        BY <2>1, <3>1, <3>3, <4>1
    <3> QED
      BY <3>2, <3>3
  <2> HIDE DEF text, x, r, a, b
  <2>7. sensitive' = [b EXCEPT !["buy"] = text # Below /\ a["buy"] >= GuiMinimum]
    BY <2>2, <2>4 DEF rate_changed
  <2>8. sensitive'["buy"] = (text # Below /\ a["buy"] >= GuiMinimum)
    BY <2>1, <2>3, <2>7
  <2>9. sensitive'["sell"] = b["sell"]
    BY <2>1, <2>3, <2>7
  <2>10. sensitive'["buy"] <=> amount["buy"] >= GuiMinimum
    BY <2>2, <2>5, <2>8
  <2>11. sensitive'["sell"] <=>
           \/ sensitive["sell"]
           \/ amount'["sell"] # amount["sell"] /\ amount'["sell"] >= GuiMinimum
    BY <2>4, <2>5, <2>6, <2>9
  <2> QED
    BY <2>10, <2>11
<1>2. FormTypeOK /\ BookInv /\ [Next]_vars => [Judged]_vars
  BY <1>1
<1> QED
  BY <1>2, FormTypeCorrect, BookInvariance, PTL DEF Spec

-----------------------------------------------------------------------------
(* A set of naturals has a least member. *)
LEMMA MinOfNats ==
  ASSUME NEW S \in SUBSET Nat, S # {}
  PROVE  Min(S) \in S /\ \A y \in S : Min(S) <= y
<1> DEFINE Less == {p \in Nat \X Nat : p[1] < p[2]}
<1>1. IsWellFoundedOn(Less, Nat)
  BY NatLessThanWellFounded DEF OpToRel
<1>2. PICK x \in S : \A y \in S : ~ (<<y, x>> \in Less)
  <2> HIDE DEF Less
  <2> QED
    BY <1>1, WFMin
<1>3. ASSUME NEW y \in S PROVE x <= y
  <2>1. ~ (y < x)
    BY <1>2
  <2> QED
    BY <2>1
<1> QED
  BY <1>3 DEF Min

(* One with an upper bound has a greatest one: the least upper bound. *)
LEMMA MaxOfNats ==
  ASSUME NEW S \in SUBSET Nat, S # {}, NEW b \in Nat, \A y \in S : y <= b
  PROVE  Max(S) \in S /\ \A y \in S : y <= Max(S)
<1> DEFINE U == {u \in Nat : \A y \in S : y <= u}
           m == Min(U)
<1>1. U \in SUBSET Nat /\ b \in U
  OBVIOUS
<1>2. m \in U /\ \A u \in U : m <= u
  <2> HIDE DEF U
  <2> QED
    BY <1>1, MinOfNats
<1> HIDE DEF m
<1>3. m \in Nat /\ \A y \in S : y <= m
  BY <1>2
<1>4. m \in S
  <2> SUFFICES ASSUME m \notin S PROVE FALSE
    OBVIOUS
  <2>1. \A y \in S : y < m
    BY <1>3
  <2>2. m > 0
    <3>1. PICK y \in S : TRUE
      OBVIOUS
    <3>2. y \in Nat /\ y < m
      BY <2>1
    <3> QED
      BY <1>3, <3>2
  <2>3. m - 1 \in U
    BY <1>3, <2>1, <2>2
  <2> QED
    BY <1>2, <1>3, <2>3
<1> QED
  BY <1>3, <1>4 DEF Max

(* What a sequence holds is bounded: a shortest prefix without a bound     *)
(* would have one.                                                         *)
LEMMA PrefixesBounded ==
  ASSUME NEW n \in Nat, NEW f, \A i \in 1..n : f[i] \in Nat
  PROVE  \E b \in Nat : \A i \in 1..n : f[i] <= b
<1> DEFINE Bounded(k) == \E b \in Nat : \A i \in 1..k : f[i] <= b
           B == {k \in 0..n : ~Bounded(k)}
           k == Min(B)
<1> SUFFICES ASSUME B # {} PROVE FALSE
  <2>1. n \notin B => Bounded(n)
    OBVIOUS
  <2> QED
    BY <2>1
<1>1. B \in SUBSET Nat
  OBVIOUS
<1>2. k \in B /\ \A y \in B : k <= y
  <2> HIDE DEF B
  <2> QED
    BY <1>1, MinOfNats
<1> HIDE DEF k
<1>3. k \in 0..n /\ ~Bounded(k)
  BY <1>2
<1>4. k # 0
  <2>1. \A i \in 1..0 : f[i] <= 0
    OBVIOUS
  <2>2. Bounded(0)
    BY <2>1
  <2> QED
    BY <1>3, <2>2
<1>5. k - 1 \in 0..n /\ k - 1 \notin B
  <2>1. k \in Nat /\ k - 1 \in 0..n /\ ~ (k <= k - 1)
    BY <1>3, <1>4
  <2> HIDE DEF B
  <2> QED
    BY <1>2, <2>1
<1>6. PICK b \in Nat : \A i \in 1..(k - 1) : f[i] <= b
  BY <1>5
<1>7. f[k] \in Nat
  BY <1>3, <1>4
<1>8. PICK c \in Nat : b <= c /\ f[k] <= c
  <2>1. CASE b <= f[k]
    BY <1>7, <2>1
  <2>2. CASE f[k] <= b
    BY <1>7, <2>2
  <2> QED
    BY <1>7, <2>1, <2>2
<1>9. ASSUME NEW i \in 1..k PROVE f[i] <= c
  <2>1. i = k \/ i \in 1..(k - 1)
    BY <1>3
  <2>2. f[i] \in Nat
    BY <1>3
  <2>3. CASE i \in 1..(k - 1)
    BY <1>6, <1>8, <2>2, <2>3
  <2> QED
    BY <1>8, <2>1, <2>3
<1> QED
  BY <1>3, <1>8, <1>9

(* Whole percents of the greatest amount: rounded down, a full bar only    *)
(* for that amount itself.                                                 *)
LEMMA Quotient ==
  ASSUME NEW x \in Nat, NEW m \in Nat \ {0}
  PROVE  /\ x \div m \in Nat
         /\ m * (x \div m) <= x
         /\ x < m * (x \div m) + m
OBVIOUS

LEMMA GreaterFactor ==
  ASSUME NEW m \in Nat, NEW p \in Nat, NEW q \in Nat, p <= q
  PROVE  m * p <= m * q
<1> DEFINE r == q - p
<1>1. r \in Nat /\ q = p + r
  OBVIOUS
<1> HIDE DEF r
<1>2. m * q = m * p + m * r /\ m * r \in Nat /\ m * p \in Nat
  BY <1>1
<1> QED
  BY <1>2

LEMMA Percents ==
  ASSUME NEW m \in Nat \ {0}, NEW a \in Nat, NEW b \in Nat, a <= m, b <= m
  PROVE  /\ (100 * a) \div m \in 0..100
         /\ a >= b => (100 * a) \div m >= (100 * b) \div m
         /\ (100 * a) \div m = 100 <=> a = m
<1> DEFINE p == (100 * a) \div m
           q == (100 * b) \div m
<1>1. p \in Nat /\ m * p <= 100 * a /\ 100 * a < m * p + m
  BY Quotient
<1>2. q \in Nat /\ m * q <= 100 * b /\ 100 * b < m * q + m
  BY Quotient
<1> HIDE DEF p, q
<1>3. m * p \in Nat /\ m * q \in Nat
  BY <1>1, <1>2
<1>4. ASSUME NEW u \in Nat, NEW v \in Nat, u < v, m * u \in Nat
      PROVE  m * u + m <= m * v
  <2>1. m * (u + 1) <= m * v
    BY <1>4, GreaterFactor
  <2>2. m * (u + 1) = m * u + m
    OBVIOUS
  <2> QED
    BY <2>1, <2>2
<1>5. p <= 100
  <2> SUFFICES ASSUME 100 < p PROVE FALSE
    BY <1>1
  <2>1. m * 100 + m <= m * p
    BY <1>1, <1>4
  <2> QED
    BY <1>1, <1>3, <2>1
<1>6. ASSUME a >= b PROVE p >= q
  <2> SUFFICES ASSUME p < q PROVE FALSE
    BY <1>1, <1>2
  <2>1. m * p + m <= m * q
    BY <1>1, <1>2, <1>3, <1>4
  <2> QED
    BY <1>1, <1>2, <1>3, <1>6, <2>1
<1>7. ASSUME p = 100 PROVE a = m
  BY <1>1, <1>7
<1>8. ASSUME a = m PROVE p = 100
  <2> SUFFICES ASSUME p < 100 PROVE FALSE
    BY <1>5, <1>1
  <2>1. m * p + m <= m * 100
    BY <1>1, <1>3, <1>4
  <2> QED
    BY <1>1, <1>3, <1>8, <2>1
<1> QED
  BY <1>1, <1>5, <1>6, <1>7, <1>8 DEF p, q

(* The measure of the bars is one for both sides: the greatest amount that *)
(* is listed on either, and no row has more.                               *)
LEMMA Measure ==
  ASSUME NEW d \in Documents
  PROVE  \E m \in Nat :
           /\ \A t \in Tree : max_amount(d, t) = m
           /\ \A t \in Tree : \A i \in DOMAIN Listed(d, t) :
                Listed(d, t)[i].amount \in Nat /\ Listed(d, t)[i].amount <= m
           /\ m = 0 \/ \E t \in Tree : \E i \in DOMAIN Listed(d, t) :
                         Listed(d, t)[i].amount = m
<1> DEFINE A == {0} \cup UNION {AmountsOf(Listed(d, u)) : u \in Tree}
           m == Max(A)
<1>1. ASSUME NEW t \in Tree
      PROVE  /\ Len(Listed(d, t)) \in Nat
             /\ DOMAIN Listed(d, t) = 1..Len(Listed(d, t))
             /\ \A i \in DOMAIN Listed(d, t) : Listed(d, t)[i].amount \in Nat
  <2> DEFINE R == [rate : Rate, amount : Nat]
  <2>1. d[t] \in Seq(R)
    BY BookAssumption
  <2>2. /\ Len(Listed(d, t)) \in Nat
        /\ DOMAIN Listed(d, t) = 1..Len(Listed(d, t))
        /\ Len(Listed(d, t)) <= Len(d[t])
        /\ \A i \in 1..Len(Listed(d, t)) : Listed(d, t)[i] = d[t][i]
    BY ListedHead
  <2> HIDE DEF R
  <2>3. \A i \in DOMAIN Listed(d, t) : Listed(d, t)[i] \in R
    BY <2>1, <2>2
  <2> QED
    BY <2>2, <2>3 DEF R
<1>2. ASSUME NEW t \in Tree
      PROVE  \E b \in Nat : \A y \in AmountsOf(Listed(d, t)) : y <= b
  <2> DEFINE n == Len(Listed(d, t))
             f == [i \in 1..n |-> Listed(d, t)[i].amount]
  <2>1. n \in Nat /\ \A i \in 1..n : f[i] \in Nat
    BY <1>1
  <2>2. \E b \in Nat : \A i \in 1..n : f[i] <= b
    <3> HIDE DEF n, f
    <3> QED
      BY <2>1, PrefixesBounded
  <2> QED
    BY <1>1, <2>2 DEF AmountsOf
<1>3. PICK a \in Nat : \A y \in AmountsOf(Listed(d, "asks")) : y <= a
  BY <1>2 DEF Tree
<1>4. PICK b \in Nat : \A y \in AmountsOf(Listed(d, "bids")) : y <= b
  BY <1>2 DEF Tree
<1>5. A \in SUBSET Nat /\ A # {}
  BY <1>1 DEF AmountsOf
<1>6. \A y \in A : y <= a + b
  <2> SUFFICES ASSUME NEW y \in A PROVE y <= a + b
    OBVIOUS
  <2>1. y \in Nat
    BY <1>5
  <2>2. y = 0 \/ y \in AmountsOf(Listed(d, "asks")) \/ y \in AmountsOf(Listed(d, "bids"))
    BY DEF Tree
  <2> HIDE DEF A
  <2> QED
    BY <1>3, <1>4, <2>1, <2>2
<1>7. m \in A /\ \A y \in A : y <= m
  <2>1. a + b \in Nat
    OBVIOUS
  <2> HIDE DEF A
  <2> QED
    BY <1>5, <1>6, <2>1, MaxOfNats
<1>8. \A t \in Tree : max_amount(d, t) = m
  BY DEF max_amount
<1> HIDE DEF m
<1>9. m \in Nat
  BY <1>5, <1>7
<1>10. \A t \in Tree : \A i \in DOMAIN Listed(d, t) : Listed(d, t)[i].amount \in A
  BY DEF AmountsOf
<1>11. m = 0 \/ \E t \in Tree : \E i \in DOMAIN Listed(d, t) :
                  Listed(d, t)[i].amount = m
  BY <1>7 DEF AmountsOf
<1> HIDE DEF A
<1> QED
  BY <1>1, <1>7, <1>8, <1>9, <1>10, <1>11

(* A full bar is 100, and a bar's length follows its amount. *)
LEMMA ScaledBars ==
  ASSUME NEW d \in Documents
  PROVE  \E m \in Nat :
           /\ \A t \in Tree : \A i \in DOMAIN Scaled(d, t) :
                /\ Scaled(d, t)[i].amount \in Nat
                /\ Scaled(d, t)[i].amount <= m
                /\ Scaled(d, t)[i].scales =
                     IF m = 0 THEN 0 ELSE (100 * Scaled(d, t)[i].amount) \div m
           /\ m = 0 \/ \E t \in Tree : \E i \in DOMAIN Scaled(d, t) :
                         Scaled(d, t)[i].amount = m
<1>1. PICK m \in Nat :
           /\ \A t \in Tree : max_amount(d, t) = m
           /\ \A t \in Tree : \A i \in DOMAIN Listed(d, t) :
                Listed(d, t)[i].amount \in Nat /\ Listed(d, t)[i].amount <= m
           /\ m = 0 \/ \E t \in Tree : \E i \in DOMAIN Listed(d, t) :
                         Listed(d, t)[i].amount = m
  BY Measure
<1>2. ASSUME NEW t \in Tree
      PROVE  /\ DOMAIN Scaled(d, t) = DOMAIN Listed(d, t)
             /\ \A i \in DOMAIN Listed(d, t) :
                  /\ Scaled(d, t)[i].amount = Listed(d, t)[i].amount
                  /\ Scaled(d, t)[i].scales =
                       IF m = 0 THEN 0
                       ELSE Min({100, (100 * Listed(d, t)[i].amount) \div m})
  BY <1>1 DEF Scaled
<1>3. ASSUME m # 0, NEW a \in Nat, a <= m
      PROVE  Min({100, (100 * a) \div m}) = (100 * a) \div m
  <2> DEFINE p == (100 * a) \div m
  <2>1. p \in 0..100
    BY <1>3, Percents
  <2> HIDE DEF p
  <2>2. Min({100, p}) = p
    BY <2>1, MinOfTwo
  <2> QED
    BY <2>2 DEF p
<1>4. \A t \in Tree : \A i \in DOMAIN Scaled(d, t) :
        /\ Scaled(d, t)[i].amount \in Nat
        /\ Scaled(d, t)[i].amount <= m
        /\ Scaled(d, t)[i].scales =
             IF m = 0 THEN 0 ELSE (100 * Scaled(d, t)[i].amount) \div m
  <2> SUFFICES ASSUME NEW t \in Tree, NEW i \in DOMAIN Scaled(d, t)
               PROVE  /\ Scaled(d, t)[i].amount \in Nat
                      /\ Scaled(d, t)[i].amount <= m
                      /\ Scaled(d, t)[i].scales =
                           IF m = 0 THEN 0 ELSE (100 * Scaled(d, t)[i].amount) \div m
    OBVIOUS
  <2> DEFINE a == Listed(d, t)[i].amount
  <2>1. i \in DOMAIN Listed(d, t)
    BY <1>2
  <2>2. a \in Nat /\ a <= m
    BY <1>1, <2>1
  <2>3. /\ Scaled(d, t)[i].amount = a
        /\ Scaled(d, t)[i].scales =
             IF m = 0 THEN 0 ELSE Min({100, (100 * a) \div m})
    BY <1>2, <2>1
  <2> HIDE DEF a
  <2> QED
    BY <1>3, <2>2, <2>3
<1>5. m = 0 \/ \E t \in Tree : \E i \in DOMAIN Scaled(d, t) :
                 Scaled(d, t)[i].amount = m
  <2> SUFFICES ASSUME m # 0
               PROVE  \E t \in Tree : \E i \in DOMAIN Scaled(d, t) :
                        Scaled(d, t)[i].amount = m
    OBVIOUS
  <2>1. PICK t \in Tree : \E i \in DOMAIN Listed(d, t) : Listed(d, t)[i].amount = m
    BY <1>1
  <2>2. PICK i \in DOMAIN Listed(d, t) : Listed(d, t)[i].amount = m
    BY <2>1
  <2>3. i \in DOMAIN Scaled(d, t) /\ Scaled(d, t)[i].amount = m
    BY <1>2, <2>2
  <2> QED
    BY <2>3
<1> QED
  BY <1>4, <1>5

(* The bars of both sides can be compared, in every answer. *)
THEOREM BarsAlwaysComparable == Spec => []BarsComparable
<1>1. Init => BarsComparable
  <2> SUFFICES ASSUME Init PROVE BarsComparable
    OBVIOUS
  <2>1. store["asks"] = <<>> /\ store["bids"] = <<>>
    BY DEF Init, NoRows, Tree
  <2>2. ToSet(store["asks"]) = {} /\ ToSet(store["bids"]) = {}
    BY <2>1 DEF ToSet
  <2> QED
    BY <2>2 DEF BarsComparable
<1>2. ASSUME NEW d \in Documents, update_order_book(d) PROVE BarsComparable'
  <2>1. \A t \in Tree : store'[t] = Scaled(d, t)
    BY <1>2 DEF update_order_book, update_orders
  <2> DEFINE shown == ToSet(store'["asks"]) \cup ToSet(store'["bids"])
  <2>2. PICK m \in Nat :
           /\ \A t \in Tree : \A i \in DOMAIN Scaled(d, t) :
                /\ Scaled(d, t)[i].amount \in Nat
                /\ Scaled(d, t)[i].amount <= m
                /\ Scaled(d, t)[i].scales =
                     IF m = 0 THEN 0 ELSE (100 * Scaled(d, t)[i].amount) \div m
           /\ m = 0 \/ \E t \in Tree : \E i \in DOMAIN Scaled(d, t) :
                         Scaled(d, t)[i].amount = m
    BY ScaledBars
  <2>3. \A r \in shown : /\ r.amount \in Nat /\ r.amount <= m
                         /\ r.scales = IF m = 0 THEN 0 ELSE (100 * r.amount) \div m
    BY <2>1, <2>2 DEF ToSet, Tree
  <2>4. m = 0 \/ \E r \in shown : r.amount = m
    BY <2>1, <2>2 DEF ToSet, Tree
  <2> HIDE DEF shown
  <2>5. ASSUME NEW r \in shown, NEW q \in shown
        PROVE  /\ r.amount >= q.amount => r.scales >= q.scales
               /\ r.scales = 100 => r.amount >= q.amount
               /\ (\A x \in shown : r.amount >= x.amount) /\ r.amount > 0 => r.scales = 100
    <3>1. CASE m = 0
      BY <2>3, <3>1
    <3>2. CASE m # 0
      <4> DEFINE a == r.amount
                 b == q.amount
      <4>1. /\ a \in Nat /\ b \in Nat /\ a <= m /\ b <= m
            /\ r.scales = (100 * a) \div m /\ q.scales = (100 * b) \div m
        BY <2>3, <3>2
      <4>2. (\A x \in shown : a >= x.amount) => a = m
        BY <2>4, <3>2, <4>1
      <4> HIDE DEF a, b
      <4>3. /\ a >= b => r.scales >= q.scales
            /\ r.scales = 100 <=> a = m
        BY <3>2, <4>1, Percents
      <4> QED
        BY <4>1, <4>2, <4>3 DEF a, b
    <3> QED
      BY <3>1, <3>2
  <2> QED
    BY <2>5 DEF BarsComparable, shown
<1>3. BarsComparable /\ [Next]_vars => BarsComparable'
  <2> SUFFICES ASSUME BarsComparable, [Next]_vars PROVE BarsComparable'
    OBVIOUS
  <2>h. ASSUME UNCHANGED store PROVE BarsComparable'
    BY <2>h DEF BarsComparable
  <2>1. CASE FormNext /\ UNCHANGED book
    BY <2>1, <2>h DEF book
  <2>2. CASE update_order_book_aborts
    BY <2>2, <2>h DEF update_order_book_aborts, book
  <2>3. ASSUME NEW t \in Tree, NEW i \in DOMAIN store[t], SelectRow(t, i)
        PROVE  BarsComparable'
    BY <2>3, <2>h DEF SelectRow
  <2>4. CASE UNCHANGED vars
    BY <2>4, <2>h DEF vars, book
  <2> QED
    BY <1>2, <2>1, <2>2, <2>3, <2>4 DEF Next
<1> QED
  BY <1>1, <1>3, PTL DEF Spec

(* The rows of a side are a sequence of rows. *)
LEMMA ScaledType ==
  ASSUME NEW d \in Documents, NEW t \in Tree
  PROVE  Scaled(d, t) \in Seq(Row) /\ Len(Scaled(d, t)) <= Depth
<1> DEFINE rows == Listed(d, t)
           R == [rate : Rate, amount : Nat]
<1>1. PICK n \in Nat : /\ DOMAIN rows = 1..n /\ n = Min({Len(d[t]), Depth})
                       /\ n <= Len(d[t]) /\ \A i \in 1..n : rows[i] = d[t][i]
  BY ListedHead
<1>2. d[t] \in Seq(R) /\ Depth \in Nat
  BY BookAssumption
<1>3. \A i \in 1..n : rows[i] \in R
  <2> HIDE DEF R, rows
  <2>1. Len(d[t]) \in Nat /\ \A i \in 1..Len(d[t]) : d[t][i] \in R
    BY <1>2
  <2>2. n <= Len(d[t])
    BY <1>1
  <2>3. \A i \in 1..n : i \in 1..Len(d[t])
    BY <2>1, <2>2
  <2>4. \A i \in 1..n : rows[i] = d[t][i]
    BY <1>1
  <2> QED
    BY <2>1, <2>3, <2>4
<1>4. /\ Scaled(d, t) = [i \in 1..n |-> Scaled(d, t)[i]]
      /\ \A i \in 1..n :
           Scaled(d, t)[i] = [rate |-> rows[i].rate, amount |-> rows[i].amount,
                              scales |-> Scaled(d, t)[i].scales]
  <2>1. \A i \in DOMAIN rows :
           Scaled(d, t)[i] = [rate |-> rows[i].rate, amount |-> rows[i].amount,
                              scales |-> Scaled(d, t)[i].scales]
    BY DEF Scaled
  <2>2. Scaled(d, t) = [i \in DOMAIN rows |-> Scaled(d, t)[i]]
    BY DEF Scaled
  <2> HIDE DEF rows
  <2> QED
    BY <1>1, <2>1, <2>2
<1>5. \A i \in 1..n : Scaled(d, t)[i].scales \in 0..100
  <2> HIDE DEF R, rows
  <2>1. PICK m \in Nat :
          \A u \in Tree : \A i \in DOMAIN Scaled(d, u) :
            /\ Scaled(d, u)[i].amount \in Nat
            /\ Scaled(d, u)[i].amount <= m
            /\ Scaled(d, u)[i].scales =
                 IF m = 0 THEN 0 ELSE (100 * Scaled(d, u)[i].amount) \div m
    BY ScaledBars
  <2>2. DOMAIN Scaled(d, t) = 1..n
    BY <1>4
  <2> SUFFICES ASSUME NEW i \in 1..n PROVE Scaled(d, t)[i].scales \in 0..100
    OBVIOUS
  <2> DEFINE a == Scaled(d, t)[i].amount
  <2>3. a \in Nat /\ a <= m
        /\ Scaled(d, t)[i].scales = IF m = 0 THEN 0 ELSE (100 * a) \div m
    BY <2>1, <2>2
  <2> HIDE DEF a
  <2>4. m # 0 => (100 * a) \div m \in 0..100
    BY <2>3, Percents
  <2> QED
    BY <2>3, <2>4
<1>6. \A i \in 1..n : Scaled(d, t)[i] \in Row
  BY <1>3, <1>4, <1>5 DEF Row
<1> HIDE DEF R, rows
<1>7. n <= Depth
  <2>1. Len(d[t]) \in Nat
    BY <1>2
  <2> QED
    BY <1>1, <1>2, <2>1, MinOfTwo
<1> DEFINE S == Scaled(d, t)
<1>8. S = [i \in 1..n |-> S[i]] /\ \A i \in 1..n : S[i] \in Row
  BY <1>4, <1>6
<1> HIDE DEF S
<1>9. S \in Seq(Row) /\ Len(S) = n
  BY <1>8
<1> QED
  BY <1>7, <1>9 DEF S

(* The book's variables have their types: no selection beyond the rows     *)
(* that are shown, no bar beyond full.                                     *)
BookTypeOK ==
  /\ \A t \in Tree : store[t] \in Seq(Row) /\ Len(store[t]) <= Depth
  /\ store = [t \in Tree |-> store[t]]
  /\ selected \in [Tree -> 0..Depth]
  /\ source \in Documents \cup {NoRows}

LEMMA BookTypeStep == BookTypeOK /\ [Next]_vars => BookTypeOK'
<1> SUFFICES ASSUME BookTypeOK, [Next]_vars PROVE BookTypeOK'
  OBVIOUS
<1>h. ASSUME UNCHANGED book PROVE BookTypeOK'
  BY <1>h DEF book, BookTypeOK
<1>1. CASE FormNext /\ UNCHANGED book
  BY <1>1, <1>h
<1>2. ASSUME NEW d \in Documents, update_order_book(d) PROVE BookTypeOK'
  <2>1. /\ store' = [t \in Tree |-> Scaled(d, t)] /\ source' = d
        /\ selected' = [t \in Tree |-> 0]
    BY <1>2 DEF update_order_book, update_orders
  <2>2. \A t \in Tree : store'[t] \in Seq(Row) /\ Len(store'[t]) <= Depth
    BY <2>1, ScaledType
  <2>3. selected' \in [Tree -> 0..Depth]
    BY <2>1, BookAssumption
  <2> QED
    BY <2>1, <2>2, <2>3 DEF BookTypeOK
<1>3. CASE update_order_book_aborts
  BY <1>3, <1>h DEF update_order_book_aborts, book
<1>4. ASSUME NEW t \in Tree, NEW i \in DOMAIN store[t], SelectRow(t, i)
      PROVE  BookTypeOK'
  <2>1. /\ selected' = [selected EXCEPT ![t] = i] /\ store' = store
        /\ source' = source
    BY <1>4 DEF SelectRow
  <2>2. i \in 0..Depth
    <3>1. store[t] \in Seq(Row) /\ Len(store[t]) <= Depth /\ Depth \in Nat
      BY BookAssumption DEF BookTypeOK
    <3> HIDE DEF Row
    <3>2. i \in 1..Len(store[t]) /\ Len(store[t]) \in Nat
      BY <3>1
    <3> QED
      BY <3>1, <3>2
  <2>3. selected' \in [Tree -> 0..Depth]
    BY <2>1, <2>2 DEF BookTypeOK
  <2> QED
    BY <2>1, <2>3 DEF BookTypeOK
<1>5. CASE UNCHANGED vars
  BY <1>5, <1>h DEF vars
<1> QED
  BY <1>1, <1>2, <1>3, <1>4, <1>5 DEF Next

(* Form and book have their types in every reachable state: no selection   *)
(* beyond the depth, no bar longer than full.                              *)
THEOREM TypeCorrect == Spec => []TypeOK
<1>1. Init => BookTypeOK
  <2> SUFFICES ASSUME Init PROVE BookTypeOK
    OBVIOUS
  <2>1. store = [t \in Tree |-> <<>>] /\ source = NoRows /\ selected = [t \in Tree |-> 0]
    BY DEF Init, NoRows
  <2>2. selected \in [Tree -> 0..Depth] /\ Depth \in Nat
    BY <2>1, BookAssumption
  <2>3. \A t \in Tree : store[t] \in Seq(Row) /\ Len(store[t]) = 0
    BY <2>1
  <2>4. \A t \in Tree : store[t] \in Seq(Row) /\ Len(store[t]) <= Depth
    BY <2>2, <2>3
  <2> QED
    BY <2>1, <2>2, <2>4 DEF BookTypeOK
<1>2. BookTypeOK /\ FormTypeOK => TypeOK
  BY DEF BookTypeOK, TypeOK
<1> QED
  BY <1>1, <1>2, BookTypeStep, FormTypeCorrect, PTL DEF Spec
=============================================================================
