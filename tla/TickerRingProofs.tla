-------------------------- MODULE TickerRingProofs --------------------------
(***************************************************************************)
(* Theorems about the ticker ring and the chart drawn from it, for every   *)
(* history size, set of samples, number of points and height.              *)
(***************************************************************************)
EXTENDS Chart, SequenceTheorems, WellFoundedInduction, TLAPS

(* The two remainders ticker_history_append takes. *)
LEMMA ModSmall ==
  ASSUME NEW h \in Nat \ {0}, NEW x \in 0..(h - 1)
  PROVE  x % h = x
OBVIOUS

LEMMA ModWrapped ==
  ASSUME NEW h \in Nat \ {0}, NEW x \in 0..(h - 1)
  PROVE  (x + h) % h = x
OBVIOUS

(* Where an append writes: behind the last sample while there is room, on  *)
(* the oldest one when there is none.                                      *)
LEMMA AppendPosition ==
  ASSUME Live
  PROVE  /\ length < HistorySize => (start_pos + length) % history_size = length
         /\ length = HistorySize => (start_pos + length) % history_size = start_pos
<1> USE RingAssumption DEF Live, Slots
<1>1. CASE length < HistorySize
  <2>1. start_pos + length = length /\ length \in 0..(HistorySize - 1)
    BY <1>1
  <2> QED
    BY <1>1, <2>1, ModSmall
<1>2. CASE length = HistorySize
  BY <1>2, ModWrapped
<1> QED
  BY <1>1, <1>2

(* What an append does to a ring in use. *)
LEMMA AppendStep ==
  ASSUME Live, NEW t \in Ticker, ticker_history_append(t)
  PROVE  /\ history_size' = HistorySize
         /\ length < HistorySize =>
              /\ start_pos = 0 /\ start_pos' = 0 /\ length' = length + 1
              /\ tickers_history' = [tickers_history EXCEPT ![length] = t]
         /\ length = HistorySize =>
              /\ start_pos' = IF start_pos + 1 = HistorySize
                              THEN 0 ELSE start_pos + 1
              /\ length' = HistorySize
              /\ tickers_history' = [tickers_history EXCEPT ![start_pos] = t]
<1> USE RingAssumption DEF Live, Slots
<1>1. history_size = HistorySize /\ history_size' = HistorySize
  BY DEF ticker_history_append
<1>2. CASE length < HistorySize
  BY <1>1, <1>2, AppendPosition DEF ticker_history_append
<1>3. CASE length = HistorySize
  BY <1>1, <1>3, AppendPosition DEF ticker_history_append
<1> QED
  BY <1>1, <1>2, <1>3

(* Appending keeps a ring in use. *)
LEMMA AppendLive ==
  ASSUME Live, NEW t \in Ticker, ticker_history_append(t)
  PROVE  Live'
<1> USE RingAssumption, AppendStep DEF Live, Slots
<1>1. CASE length < HistorySize
  BY <1>1
<1>2. CASE length = HistorySize
  BY <1>2
<1> QED
  BY <1>1, <1>2

(* The ring is always in use or cleaned up. *)
THEOREM TypeCorrect == Spec => []TypeOK
<1>1. Init => TypeOK
  BY RingAssumption DEF Init, TypeOK, Live, Slots
<1>2. TypeOK /\ [Next]_vars => TypeOK'
  <2> SUFFICES ASSUME TypeOK, [Next]_vars PROVE TypeOK'
    OBVIOUS
  <2>1. CASE Cleanup
    BY <2>1 DEF Cleanup, TypeOK, Dead
  <2>2. ASSUME NEW t \in Ticker, ticker_history_append(t) PROVE TypeOK'
    <3>1. Live
      BY <2>2 DEF TypeOK, Dead, ticker_history_append
    <3> QED
      BY <2>2, <3>1, AppendLive DEF TypeOK
  <2>3. CASE UNCHANGED vars
    BY <2>3 DEF vars, TypeOK, Live, Dead
  <2> QED
    BY <2>1, <2>2, <2>3 DEF Next
<1> QED
  BY <1>1, <1>2, PTL DEF Spec

(* The contents are a sequence of as many samples as the ring holds. *)
LEMMA ContentsType ==
  Live => /\ Contents \in Seq(Ticker \cup {NoTicker})
          /\ Len(Contents) = length
          /\ \A i \in 1..length : /\ Slot(i) \in Slots
                                  /\ Contents[i] = tickers_history[Slot(i)]
<1> SUFFICES ASSUME Live
             PROVE  /\ Contents \in Seq(Ticker \cup {NoTicker})
                    /\ Len(Contents) = length
                    /\ \A i \in 1..length :
                         /\ Slot(i) \in Slots
                         /\ Contents[i] = tickers_history[Slot(i)]
  OBVIOUS
<1> USE RingAssumption DEF Live, Slots
<1>1. \A i \in 1..length : Slot(i) \in Slots
  BY DEF Slot
<1>2. \A i \in 1..length : tickers_history[Slot(i)] \in Ticker \cup {NoTicker}
  BY <1>1
<1>3. Contents \in [1..length -> Ticker \cup {NoTicker}]
  BY <1>2 DEF Contents
<1> QED
  BY <1>1, <1>3 DEF Contents

LEMMA ContentsTypeNext ==
  Live' => Contents' \in Seq(Ticker \cup {NoTicker}) /\ Len(Contents') = length'
<1>1. Live => Contents \in Seq(Ticker \cup {NoTicker}) /\ Len(Contents) = length
  BY ContentsType
<1>2. (Live => Contents \in Seq(Ticker \cup {NoTicker}) /\ Len(Contents) = length)'
  BY <1>1, PTL
<1> QED
  BY <1>2

(* While there is room an append grows the contents. *)
LEMMA AppendGrows ==
  ASSUME Live, NEW t \in Ticker, ticker_history_append(t), length < HistorySize
  PROVE  Contents' = Append(Contents, t)
<1> DEFINE T == Ticker \cup {NoTicker}
<1> USE RingAssumption
<1>1. Live' /\ length' = length + 1 /\ start_pos = 0 /\ start_pos' = 0
      /\ tickers_history' = [tickers_history EXCEPT ![length] = t]
  BY AppendStep, AppendLive
<1>2. Contents \in Seq(T) /\ Len(Contents) = length
  BY ContentsType
<1>3. Contents' \in Seq(T) /\ Len(Contents') = length + 1
  BY <1>1, ContentsTypeNext
<1>4. Append(Contents, t) \in Seq(T) /\ Len(Append(Contents, t)) = length + 1
  BY <1>2
<1>5. ASSUME NEW i \in 1..(length + 1)
      PROVE  Contents'[i] = Append(Contents, t)[i]
  <2>1. length \in Nat /\ length < HistorySize
        /\ tickers_history \in [Slots -> T]
    BY DEF Live
  <2>2. Slot(i)' = i - 1 /\ (i <= length => Slot(i) = i - 1)
    BY <1>1, <2>1 DEF Slot
  <2>3. Contents'[i] = tickers_history'[i - 1]
    BY <1>1, <2>2 DEF Contents
  <2>4. CASE i <= length
    BY <1>1, <1>2, <2>1, <2>2, <2>3, <2>4 DEF Contents, Slots
  <2>5. CASE i = length + 1
    BY <1>1, <1>2, <2>1, <2>3, <2>5 DEF Slots
  <2>6. i <= length \/ i = length + 1
    BY <2>1
  <2> QED
    BY <2>4, <2>5, <2>6
<1> QED
  BY <1>3, <1>4, <1>5, SeqEqual

(* When it is full an append replaces the oldest sample. *)
LEMMA AppendSlides ==
  ASSUME Live, NEW t \in Ticker, ticker_history_append(t), length = HistorySize
  PROVE  Contents' = Append(Tail(Contents), t)
<1> DEFINE T == Ticker \cup {NoTicker}
<1> USE RingAssumption
<1>1. Live' /\ length' = HistorySize
      /\ start_pos' = (IF start_pos + 1 = HistorySize THEN 0 ELSE start_pos + 1)
      /\ tickers_history' = [tickers_history EXCEPT ![start_pos] = t]
  BY AppendStep, AppendLive
<1>2. Contents \in Seq(T) /\ Len(Contents) = HistorySize
  BY ContentsType
<1>3. Contents' \in Seq(T) /\ Len(Contents') = HistorySize
  BY <1>1, ContentsTypeNext
<1>4. /\ Tail(Contents) \in Seq(T)
      /\ Len(Tail(Contents)) = HistorySize - 1
      /\ \A i \in 1..(HistorySize - 1) : Tail(Contents)[i] = Contents[i + 1]
  BY <1>2
<1>5. /\ Append(Tail(Contents), t) \in Seq(T)
      /\ Len(Append(Tail(Contents), t)) = HistorySize
      /\ Append(Tail(Contents), t)[HistorySize] = t
      /\ \A i \in 1..(HistorySize - 1) :
           Append(Tail(Contents), t)[i] = Contents[i + 1]
  BY <1>4
<1>6. ASSUME NEW i \in 1..HistorySize
      PROVE  Contents'[i] = Append(Tail(Contents), t)[i]
  <2>1. start_pos \in Slots /\ tickers_history \in [Slots -> T]
    BY DEF Live
  <2>2. Contents'[i] = tickers_history'[Slot(i)']
    BY <1>1 DEF Contents
  <2>3. CASE i < HistorySize
    <3>1. Slot(i)' = Slot(i + 1) /\ Slot(i + 1) # start_pos
          /\ Slot(i + 1) \in Slots /\ i + 1 \in 1..HistorySize
      BY <1>1, <2>1, <2>3 DEF Slot, Slots
    <3>2. Contents[i + 1] = tickers_history[Slot(i + 1)]
      BY <3>1 DEF Contents
    <3> QED
      BY <1>1, <1>5, <2>1, <2>2, <2>3, <3>1, <3>2
  <2>4. CASE i = HistorySize
    <3>1. Slot(i)' = start_pos
      BY <1>1, <2>1, <2>4 DEF Slot, Slots
    <3> QED
      BY <1>1, <1>5, <2>1, <2>2, <2>4, <3>1
  <2>5. i < HistorySize \/ i = HistorySize
    OBVIOUS
  <2> QED
    BY <2>3, <2>4, <2>5
<1> QED
  BY <1>3, <1>5, <1>6, SeqEqual

(* The ring implements the sliding window: whatever was appended, it holds *)
(* the last HistorySize samples in order.                                  *)
THEOREM Refinement == Spec => ImplementsWindow
<1>1. Init => Window!Init
  BY DEF Init, Window!Init, Contents
<1>2. TypeOK /\ [Next]_vars => [Window!Next]_Contents
  <2> SUFFICES ASSUME TypeOK, [Next]_vars PROVE [Window!Next]_Contents
    OBVIOUS
  <2>1. CASE Cleanup
    <3>1. Contents' = <<>>
      BY <2>1 DEF Cleanup, Contents
    <3> QED
      BY <3>1 DEF Window!Next, Window!Clear
  <2>2. ASSUME NEW t \in Ticker, ticker_history_append(t) PROVE Window!Next
    <3>1. Live
      BY <2>2 DEF TypeOK, Dead, ticker_history_append
    <3>2. Len(Contents) = length /\ length \in 0..HistorySize
      BY <3>1, ContentsType DEF Live
    <3>3. CASE length < HistorySize
      <4>1. Contents' = Append(Contents, t)
        BY <2>2, <3>1, <3>3, AppendGrows
      <4> QED
        BY <3>2, <3>3, <4>1 DEF Window!Next, Window!Append1
    <3>4. CASE length = HistorySize
      <4>1. Contents' = Append(Tail(Contents), t)
        BY <2>2, <3>1, <3>4, AppendSlides
      <4> QED
        BY <3>2, <3>4, <4>1, RingAssumption DEF Window!Next, Window!Append1
    <3> QED
      BY <3>2, <3>3, <3>4, RingAssumption
  <2>3. CASE UNCHANGED vars
    BY <2>3 DEF vars, Contents, Slot
  <2> QED
    BY <2>1, <2>2, <2>3 DEF Next
<1> QED
  BY <1>1, <1>2, TypeCorrect, PTL DEF Spec, ImplementsWindow, Window!Spec

(* Where the reader copies from, sample by sample. *)
LEMMA ReaderPlaces ==
  ASSUME Live, NEW count \in Nat, Available(count) > 0, Reads(count)
  PROVE  /\ Available(count) \in 1..length
         /\ InBounds(count) /\ AssertHolds(count)
         /\ \A i \in 1..Available(count) :
              Slot(length - Available(count) + i) =
                IF Contiguous(count) \/ i <= history_size - First(count)
                THEN First(count) + i - 1
                ELSE i - (history_size - First(count)) - 1
<1> USE RingAssumption DEF Live, Slots
<1>1. Available(count) \in 1..length
  BY DEF Available
<1> DEFINE n == Available(count)
           F == start_pos + length - n
<1>2. First(count) = F /\ F \in 0..(HistorySize - 1)
  BY <1>1 DEF First, Reads
<1> HIDE DEF n
<1>3. CASE start_pos + length <= HistorySize
  <2>1. End(count) = F + n /\ F + n = start_pos + length
    BY <1>1, <1>2, <1>3 DEF End, n
  <2>2. Contiguous(count)
    BY <1>1, <1>2, <2>1 DEF Contiguous, n
  <2>3. InBounds(count) /\ AssertHolds(count)
    BY <1>1, <1>2, <1>3, <2>1, <2>2 DEF InBounds, AssertHolds, n
  <2>4. ASSUME NEW i \in 1..n PROVE Slot(length - n + i) = F + i - 1
    BY <1>1, <1>3 DEF Slot, n
  <2> QED
    BY <1>1, <1>2, <2>2, <2>3, <2>4 DEF n
<1>4. CASE start_pos + length > HistorySize
  <2>1. length = HistorySize /\ start_pos > 0
    BY <1>4
  <2>2. End(count) = start_pos
    BY <1>1, <1>2, <1>4, <2>1 DEF End, n
  <2>3. ~Contiguous(count)
    BY <1>1, <1>2, <2>1, <2>2 DEF Contiguous, n
  <2>4. InBounds(count) /\ AssertHolds(count)
    BY <1>2, <2>1, <2>2, <2>3 DEF InBounds, AssertHolds
  <2>5. ASSUME NEW i \in 1..n
        PROVE  Slot(length - n + i) =
                 IF i <= HistorySize - F THEN F + i - 1
                                         ELSE i - (HistorySize - F) - 1
    BY <1>1, <1>2, <2>1 DEF Slot, n
  <2> QED
    BY <1>1, <1>2, <2>3, <2>4, <2>5 DEF n
<1> QED
  BY <1>3, <1>4

LEMMA LatestCopied ==
  ASSUME TypeOK, NEW count \in Nat, Available(count) > 0, Reads(count)
  PROVE  /\ InBounds(count) /\ AssertHolds(count)
         /\ Copied(count) =
              SubSeq(Contents, length - Available(count) + 1, length)
         /\ \A i \in 1..Available(count) :
              Copied(count)[i] = Contents[length - Available(count) + i]
<1> USE RingAssumption
<1>1. Live
  BY DEF TypeOK, Dead, Available
<1>2. length \in Nat /\ Available(count) \in 1..length
  BY <1>1, ReaderPlaces DEF Live
<1> DEFINE n == Available(count)
           T == Ticker \cup {NoTicker}
           S == SubSeq(Contents, length - n + 1, length)
<1> HIDE DEF n
<1>3. /\ Contents \in Seq(T) /\ Len(Contents) = length
      /\ \A i \in 1..length : Contents[i] = tickers_history[Slot(i)]
  BY <1>1, ContentsType
<1>4. S = [i \in 1..n |-> Contents[length - n + i]]
  BY <1>2, <1>3 DEF n
<1>5. ASSUME NEW i \in 1..n
      PROVE  Copied(count)[i] = Contents[length - n + i]
  <2>1. length - n + i \in 1..length
    BY <1>2 DEF n
  <2> QED
    BY <1>1, <1>3, <2>1, ReaderPlaces DEF Copied, n
<1>6. Copied(count) = [i \in 1..n |-> Copied(count)[i]]
  BY DEF Copied, n
<1>7. Copied(count) = S
  BY <1>4, <1>5, <1>6
<1> QED
  BY <1>1, <1>5, <1>7, ReaderPlaces DEF n

(* A read that starts inside the array copies the most recent samples.     *)
THEOREM ReaderCorrect == Spec => []ReadsLatest
<1>1. TypeOK => ReadsLatest
  BY LatestCopied, RingAssumption DEF ReadsLatest
<1> QED
  BY <1>1, TypeCorrect, PTL

(* What the assertion before the copy guards: it fails exactly for a read  *)
(* whose first sample is the one right behind the end of the array, and    *)
(* every read that starts there or farther behind leaves the array.        *)
THEOREM AssertionDelimited ==
  Spec => [](\A count \in 0..HistorySize : Available(count) > 0 =>
              /\ AssertHolds(count) <=> First(count) # history_size
              /\ InBounds(count) <=> Reads(count))
<1> DEFINE Delimited(count) ==
      /\ AssertHolds(count) <=> First(count) # history_size
      /\ InBounds(count) <=> Reads(count)
<1>1. ASSUME TypeOK, NEW count \in 0..HistorySize, Available(count) > 0
      PROVE  Delimited(count)
  <2>1. Live
    BY <1>1 DEF TypeOK, Dead, Available
  <2>2. /\ length \in Nat /\ start_pos \in Nat /\ HistorySize \in Nat
        /\ history_size = HistorySize /\ length <= HistorySize /\ start_pos < HistorySize
        /\ length < HistorySize => start_pos = 0
    BY <2>1, RingAssumption DEF Live, Slots
  <2>3. /\ Available(count) \in Nat /\ Available(count) <= length
        /\ First(count) = start_pos + length - Available(count)
    BY <2>2 DEF Available, First
  <2> DEFINE n == Available(count)
             f == First(count)
  <2> HIDE DEF n, f
  <2>4. /\ n \in Nat /\ n > 0 /\ n <= length /\ f = start_pos + length - n
        /\ End(count) = IF f + n > HistorySize THEN f + n - HistorySize ELSE f + n
        /\ Contiguous(count) <=> End(count) > f
    BY <1>1, <2>2, <2>3 DEF n, f, End, Contiguous
  <2>5. /\ AssertHolds(count) <=> Contiguous(count) \/ (HistorySize # f /\ End(count) > 0)
        /\ InBounds(count) <=> IF Contiguous(count) THEN f + n <= HistorySize ELSE f < HistorySize
        /\ Reads(count) <=> f < HistorySize
    BY <2>2 DEF n, f, AssertHolds, InBounds, Reads
  <2>6. CASE f + n <= HistorySize
    BY <2>2, <2>4, <2>5, <2>6 DEF f
  <2>7. CASE f + n > HistorySize
    <3>1. f + n = start_pos + HistorySize /\ End(count) = start_pos
      BY <2>2, <2>4, <2>7
    <3>2. start_pos > 0 /\ ~ Contiguous(count)
      BY <2>2, <2>4, <2>7, <3>1
    <3> QED
      BY <2>2, <2>5, <3>1, <3>2 DEF f
  <2> QED
    BY <2>2, <2>4, <2>6, <2>7
<1> HIDE DEF Delimited
<1>2. TypeOK => \A count \in 0..HistorySize : Available(count) > 0 => Delimited(count)
  BY <1>1
<1> QED
  BY <1>2, TypeCorrect, PTL DEF Delimited

-----------------------------------------------------------------------------
(* A set of naturals has a least member. *)
LEMMA MinOfNats ==
  ASSUME NEW S \in SUBSET Nat, S # {}
  PROVE  Min(S) \in S /\ \A y \in S : Min(S) <= y
<1> DEFINE Less == {p \in Nat \X Nat : p[1] < p[2]}
<1>1. IsWellFoundedOn(Less, Nat)
  BY NatLessThanWellFounded DEF OpToRel
<1>2. PICK x \in S : \A y \in S : ~ (<<y, x>> \in Less)
  <2> HIDE DEF Less
  <2> QED
    BY <1>1, WFMin
<1>3. ASSUME NEW y \in S PROVE x <= y
  <2>1. ~ (y < x)
    BY <1>2
  <2> QED
    BY <2>1
<1> QED
  BY <1>3 DEF Min

(* A set of integers with a lower bound has a least member, one with an    *)
(* upper bound a greatest: the distances from the bound are naturals.      *)
LEMMA MinOfInts ==
  ASSUME NEW S \in SUBSET Int, S # {}, NEW b \in Int, \A y \in S : b <= y
  PROVE  Min(S) \in S /\ \A y \in S : Min(S) <= y
<1> DEFINE T == {y - b : y \in S}
<1>0. \A y \in S : y - b \in Nat
  OBVIOUS
<1>1. T \in SUBSET Nat /\ T # {}
  BY <1>0
<1>2. Min(T) \in T /\ \A z \in T : Min(T) <= z
  <2> HIDE DEF T
  <2> QED
    BY <1>1, MinOfNats
<1>3. PICK x \in S : Min(T) = x - b
  BY <1>2
<1>4. ASSUME NEW y \in S PROVE x <= y
  <2>1. x - b <= y - b
    BY <1>2, <1>3
  <2> QED
    BY <2>1
<1> QED
  BY <1>4 DEF Min

LEMMA MaxOfInts ==
  ASSUME NEW S \in SUBSET Int, S # {}, NEW b \in Int, \A y \in S : y <= b
  PROVE  Max(S) \in S /\ \A y \in S : y <= Max(S)
<1> DEFINE T == {b - y : y \in S}
<1>0. \A y \in S : b - y \in Nat
  OBVIOUS
<1>1. T \in SUBSET Nat /\ T # {}
  BY <1>0
<1>2. Min(T) \in T /\ \A z \in T : Min(T) <= z
  <2> HIDE DEF T
  <2> QED
    BY <1>1, MinOfNats
<1>3. PICK x \in S : Min(T) = b - x
  BY <1>2
<1>4. ASSUME NEW y \in S PROVE x >= y
  <2>1. b - x <= b - y
    BY <1>2, <1>3
  <2> QED
    BY <2>1
<1> QED
  BY <1>4 DEF Max

(* What a sequence holds is bounded: a shortest prefix without a bound     *)
(* would have one.                                                         *)
LEMMA PrefixesBounded ==
  ASSUME NEW n \in Nat, NEW f, \A i \in 1..n : f[i] \in Int
  PROVE  \E b \in Nat : \A i \in 1..n : f[i] <= b /\ -b <= f[i]
<1> DEFINE Bounded(k) == \E b \in Nat : \A i \in 1..k : f[i] <= b /\ -b <= f[i]
           B == {k \in 0..n : ~Bounded(k)}
           k == Min(B)
<1> SUFFICES ASSUME B # {} PROVE FALSE
  <2>1. n \notin B => Bounded(n)
    OBVIOUS
  <2> QED
    BY <2>1
<1>1. B \in SUBSET Nat
  OBVIOUS
<1>2. k \in B /\ \A y \in B : k <= y
  <2> HIDE DEF B
  <2> QED
    BY <1>1, MinOfNats
<1> HIDE DEF k
<1>3. k \in 0..n /\ ~Bounded(k)
  BY <1>2
<1>4. k # 0
  <2>1. \A i \in 1..0 : f[i] <= 0 /\ -0 <= f[i]
    OBVIOUS
  <2>2. Bounded(0)
    BY <2>1
  <2> QED
    BY <1>3, <2>2
<1>5. k - 1 \in 0..n /\ k - 1 \notin B
  <2>1. k \in Nat /\ k - 1 \in 0..n /\ ~ (k <= k - 1)
    BY <1>3, <1>4
  <2> HIDE DEF B
  <2> QED
    BY <1>2, <2>1
<1>6. PICK b \in Nat : \A i \in 1..(k - 1) : f[i] <= b /\ -b <= f[i]
  BY <1>5
<1>7. f[k] \in Int
  BY <1>3, <1>4
<1>8. PICK c \in Nat : b <= c /\ f[k] <= c /\ -c <= f[k]
  <2>1. CASE b <= f[k]
    <3>1. f[k] \in Nat /\ -f[k] <= f[k]
      BY <1>7, <2>1
    <3> QED
      BY <2>1, <3>1
  <2>2. CASE b <= -f[k]
    <3>1. -f[k] \in Nat /\ f[k] <= -f[k] /\ -(-f[k]) <= f[k]
      BY <1>7, <2>2
    <3> QED
      BY <2>2, <3>1
  <2>3. CASE f[k] <= b /\ -f[k] <= b
    BY <1>7, <2>3
  <2> QED
    BY <1>7, <2>1, <2>2, <2>3
<1>9. ASSUME NEW i \in 1..k PROVE f[i] <= c /\ -c <= f[i]
  <2>1. i = k \/ i \in 1..(k - 1)
    BY <1>3
  <2>2. f[i] \in Int
    BY <1>3
  <2>3. CASE i \in 1..(k - 1)
    <3>1. f[i] <= b /\ -b <= f[i]
      BY <1>6, <2>3
    <3> QED
      BY <1>8, <2>2, <3>1
  <2> QED
    BY <1>8, <2>1, <2>3
<1> QED
  BY <1>3, <1>8, <1>9

(* A point of a drawing lies between its lines. *)
Fits(D, i) ==
  D.points[i] >= 0 /\ D.points[i] * D.scale[1] <= Extent * D.scale[2]

Consistent(t) == t.low <= t.last /\ t.last <= t.high

(* The curve of any samples lies between its lines wherever they agree     *)
(* with themselves, and the title is the last price of the latest of them. *)
LEMMA DrawingInside ==
  ASSUME NEW n \in Nat \ {0}, NEW ts, ts = [i \in 1..n |-> ts[i]],
         \A i \in 1..n : ts[i] \in Ticker
  PROVE  /\ Len(Drawing(ts).points) = n
         /\ Drawing(ts).title = ts[n].last
         /\ \A i \in DOMAIN Drawing(ts).points : Consistent(ts[i]) => Fits(Drawing(ts), i)
<1> DEFINE lows == {ts[i].low : i \in DOMAIN ts}
           highs == {ts[i].high : i \in DOMAIN ts}
           least == min_tick(ts)
           most == max_tick(ts)
<1>1. \A i \in 1..n : ts[i].low \in Int /\ ts[i].last \in Int /\ ts[i].high \in Int
  <2>1. \A t \in Ticker : t.low \in Int /\ t.last \in Int /\ t.high \in Int
    BY ChartAssumption DEF Key
  <2> QED
    BY <2>1
<1>2. DOMAIN ts = 1..n /\ 1 \in DOMAIN ts
  OBVIOUS
<1>3. lows \in SUBSET Int /\ lows # {}
  BY <1>1, <1>2
<1>4. least \in lows /\ \A y \in lows : least <= y
  <2> DEFINE f == [i \in 1..n |-> ts[i].low]
  <2>1. \A i \in 1..n : f[i] \in Int
    BY <1>1
  <2>2. PICK b \in Nat : \A i \in 1..n : f[i] <= b /\ -b <= f[i]
    <3> HIDE DEF f
    <3> QED
      BY <2>1, PrefixesBounded
  <2>3. -b \in Int /\ \A y \in lows : -b <= y
    BY <1>2, <2>2
  <2> HIDE DEF lows
  <2>4. Min(lows) \in lows /\ \A y \in lows : Min(lows) <= y
    BY <1>3, <2>3, MinOfInts
  <2> QED
    BY <2>4 DEF min_tick, lows
<1>5. highs \in SUBSET Int /\ highs # {}
  BY <1>1, <1>2
<1>7. most \in highs /\ \A y \in highs : y <= most
  <2> DEFINE f == [i \in 1..n |-> ts[i].high]
  <2>1. \A i \in 1..n : f[i] \in Int
    BY <1>1
  <2>2. PICK b \in Nat : \A i \in 1..n : f[i] <= b /\ -b <= f[i]
    <3> HIDE DEF f
    <3> QED
      BY <2>1, PrefixesBounded
  <2>3. b \in Int /\ \A y \in highs : y <= b
    BY <1>2, <2>2
  <2> HIDE DEF highs
  <2>4. Max(highs) \in highs /\ \A y \in highs : y <= Max(highs)
    BY <1>5, <2>3, MaxOfInts
  <2> QED
    BY <2>4 DEF max_tick, highs
<1>8. least \in Int /\ most \in Int
  <2> HIDE DEF lows, highs, least, most
  <2> QED
    BY <1>3, <1>4, <1>5, <1>7
<1>9. \A i \in 1..n : Consistent(ts[i]) => least <= ts[i].last /\ ts[i].last <= most
  <2> SUFFICES ASSUME NEW i \in 1..n, Consistent(ts[i])
               PROVE  least <= ts[i].last /\ ts[i].last <= most
    OBVIOUS
  <2>1. ts[i].low \in lows /\ ts[i].high \in highs
    BY <1>2
  <2>2. least <= ts[i].low /\ ts[i].high <= most
    BY <1>4, <1>7, <2>1
  <2> HIDE DEF lows, highs, least, most
  <2> QED
    BY <1>1, <1>8, <2>2 DEF Consistent
<1>10. /\ Drawing(ts).points = [i \in 1..n |-> ts[i].last - least]
       /\ Drawing(ts).scale = IF most - least > Extent
                              THEN <<Extent, most - least>> ELSE <<1, 1>>
       /\ Drawing(ts).title = ts[Len(ts)].last
  BY <1>2 DEF Drawing, tick_scale
<1> HIDE DEF lows, highs, least, most
<1>11. Len(ts) = n
  OBVIOUS
<1>12. ASSUME NEW i \in 1..n, Consistent(ts[i])
       PROVE  Fits(Drawing(ts), i)
  <2> DEFINE x == ts[i].last - least
             s == most - least
  <2>1. x \in Nat /\ s \in Nat /\ x <= s /\ Extent \in Nat /\ Extent > 0
    BY <1>1, <1>8, <1>9, <1>12, ChartAssumption
  <2>2. Drawing(ts).points[i] = x
    BY <1>10
  <2> HIDE DEF x
  <2>3. CASE s > Extent
    <3>1. Drawing(ts).scale[1] = Extent /\ Drawing(ts).scale[2] = s
      BY <1>10, <2>3
    <3> HIDE DEF s
    <3>2. x * Extent <= Extent * s
      <4>1. x * Extent = Extent * x
        BY <2>1
      <4> DEFINE r == s - x
      <4>2. r \in Nat /\ s = x + r
        BY <2>1
      <4> HIDE DEF r
      <4>3. Extent * s = Extent * x + Extent * r /\ Extent * r >= 0
        BY <2>1, <4>2
      <4> QED
        BY <2>1, <4>1, <4>3
    <3> QED
      BY <2>1, <2>2, <3>1, <3>2 DEF Fits
  <2>4. CASE ~ (s > Extent)
    <3>1. Drawing(ts).scale[1] = 1 /\ Drawing(ts).scale[2] = 1
      BY <1>10, <2>4
    <3> QED
      BY <2>1, <2>2, <2>4, <3>1 DEF Fits
  <2> QED
    BY <2>3, <2>4
<1>13. Len(Drawing(ts).points) = n /\ DOMAIN Drawing(ts).points = 1..n
  <2> DEFINE P == Drawing(ts).points
  <2>1. P = [i \in 1..n |-> ts[i].last - least]
    BY <1>10
  <2> HIDE DEF P
  <2>2. DOMAIN P = 1..n /\ Len(P) = n
    BY <2>1
  <2> QED
    BY <2>2 DEF P
<1>14. Drawing(ts).title = ts[n].last
  BY <1>10, <1>11
<1> QED
  BY <1>12, <1>13, <1>14

(* The chart's reads start inside the array: always when it shows the      *)
(* whole ring, and otherwise until the ring has wrapped by as many samples *)
(* as it shows.                                                            *)
ReadsInside == length > 0 => Reads(MaxTickers)

LEMMA ReadsInsideWhen ==
  ASSUME TypeOK, MaxTickers >= HistorySize \/ length < HistorySize
  PROVE  ReadsInside
<1> SUFFICES ASSUME length > 0 PROVE First(MaxTickers) < history_size
  BY DEF ReadsInside, Reads
<1>1. Live
  BY DEF TypeOK, Dead
<1>2. /\ history_size = HistorySize /\ HistorySize \in Nat
      /\ length \in 0..HistorySize /\ start_pos \in 0..(HistorySize - 1)
      /\ length < HistorySize => start_pos = 0
  BY <1>1, RingAssumption DEF Live, Slots
<1>3. Available(MaxTickers) = IF MaxTickers > length THEN length ELSE MaxTickers
  BY ChartAssumption DEF Available
<1> QED
  BY <1>2, <1>3, ChartAssumption DEF First

(* Every sample of the ring was appended. *)
Filled == \A i \in 1..length : Contents[i] \in Ticker

(* The entries show the latest of them. *)
Latest ==
  current # NoTicker /\ history_size > 0 =>
    length > 0 /\ Contents[length] = current

(* The points of D, drawn of the samples ts, fit where ts is consistent. *)
Inside(D, ts) == \A i \in DOMAIN D.points : Consistent(ts[i]) => Fits(D, i)

(* What is drawn of a ring that is in use. *)
LEMMA RingDrawn ==
  TypeOK /\ ReadsInside /\ Filled /\ length > 0 =>
    /\ Available(MaxTickers) # 0 /\ AssertHolds(MaxTickers)
    /\ Inside(Drawing(Copied(MaxTickers)), Copied(MaxTickers))
    /\ Drawing(Copied(MaxTickers)).title = Contents[length].last
    /\ Len(Drawing(Copied(MaxTickers)).points) = Min({length, MaxTickers})
<1> SUFFICES ASSUME TypeOK, ReadsInside, Filled, length > 0
             PROVE  /\ Available(MaxTickers) # 0 /\ AssertHolds(MaxTickers)
                    /\ Inside(Drawing(Copied(MaxTickers)), Copied(MaxTickers))
                    /\ Drawing(Copied(MaxTickers)).title = Contents[length].last
                    /\ Len(Drawing(Copied(MaxTickers)).points) = Min({length, MaxTickers})
  OBVIOUS
<1> DEFINE n == Available(MaxTickers)
           ts == Copied(MaxTickers)
<1>1. length \in Nat /\ MaxTickers \in Nat \ {0}
  BY RingAssumption, ChartAssumption DEF TypeOK, Live, Dead
<1>2. n \in 1..length /\ n = IF MaxTickers > length THEN length ELSE MaxTickers
  BY <1>1 DEF Available
<1>3. n = Min({length, MaxTickers})
  <2> DEFINE S == {length, MaxTickers}
  <2>1. S \in SUBSET Nat /\ S # {}
    BY <1>1
  <2>2. Min(S) \in S /\ \A y \in S : Min(S) <= y
    <3> HIDE DEF S
    <3> QED
      BY <2>1, MinOfNats
  <2> HIDE DEF n
  <2> QED
    BY <1>1, <1>2, <2>2
<1>4. /\ AssertHolds(MaxTickers)
      /\ \A i \in 1..n : ts[i] = Contents[length - n + i]
  <2>1. MaxTickers \in Nat /\ Available(MaxTickers) > 0 /\ Reads(MaxTickers)
    BY <1>1, <1>2 DEF ReadsInside
  <2> HIDE DEF n, ts
  <2> QED
    BY <2>1, LatestCopied DEF n, ts
<1>5. ts = [i \in 1..n |-> ts[i]]
  BY DEF Copied
<1> HIDE DEF n, ts
<1>6. \A i \in 1..n : length - n + i \in 1..length /\ ts[i] \in Ticker
  BY <1>1, <1>2, <1>4 DEF Filled
<1>7. n \in Nat \ {0} /\ length - n + n = length /\ n \in 1..n
  BY <1>1, <1>2
<1>8. /\ Len(Drawing(ts).points) = n
      /\ Drawing(ts).title = ts[n].last
      /\ Inside(Drawing(ts), ts)
  BY <1>5, <1>6, <1>7, DrawingInside DEF Inside
<1>9. ts[n] = Contents[length]
  BY <1>4, <1>7
<1> QED
  BY <1>3, <1>4, <1>7, <1>8, <1>9 DEF n, ts

LEMMA RingDrawnNext ==
  TypeOK' /\ ReadsInside' /\ Filled' /\ length' > 0 =>
    /\ Available(MaxTickers)' # 0 /\ AssertHolds(MaxTickers)'
    /\ Inside(Drawing(Copied(MaxTickers)'), Copied(MaxTickers)')
    /\ Drawing(Copied(MaxTickers)').title = Contents'[length'].last
    /\ Len(Drawing(Copied(MaxTickers)').points) = Min({length', MaxTickers})
<1>1. (TypeOK /\ ReadsInside /\ Filled /\ length > 0 =>
    /\ Available(MaxTickers) # 0 /\ AssertHolds(MaxTickers)
    /\ Inside(Drawing(Copied(MaxTickers)), Copied(MaxTickers))
    /\ Drawing(Copied(MaxTickers)).title = Contents[length].last
    /\ Len(Drawing(Copied(MaxTickers)).points) = Min({length, MaxTickers}))'
  BY RingDrawn, PTL
<1> QED
  BY <1>1 DEF Drawing, Inside, Fits

(* After an append the ring still holds appended samples only, and the     *)
(* latest is the one just appended.                                        *)
LEMMA AppendFills ==
  ASSUME Live, Filled, NEW t \in Ticker, ticker_history_append(t)
  PROVE  Live' /\ Filled' /\ length' > 0 /\ Contents'[length'] = t
<1> DEFINE T == Ticker \cup {NoTicker}
<1> USE RingAssumption
<1>1. Live' /\ length \in Nat /\ length <= HistorySize
  BY AppendLive DEF Live
<1>2. Contents \in Seq(T) /\ Len(Contents) = length
  BY ContentsType
<1>3. CASE length < HistorySize
  <2>1. Contents' = Append(Contents, t) /\ length' = length + 1
    BY <1>3, AppendGrows, AppendStep
  <2>2. \A i \in 1..(length + 1) :
          Append(Contents, t)[i] = IF i = length + 1 THEN t ELSE Contents[i]
    BY <1>2
  <2>3. \A i \in 1..(length + 1) : Contents'[i] \in Ticker
    <3> SUFFICES ASSUME NEW i \in 1..(length + 1) PROVE Contents'[i] \in Ticker
      OBVIOUS
    <3>1. i = length + 1 \/ i \in 1..length
      BY <1>1
    <3> QED
      BY <2>1, <2>2, <3>1 DEF Filled
  <2>4. Filled'
    BY <2>1, <2>3 DEF Filled
  <2>5. length + 1 \in 1..(length + 1)
    BY <1>1
  <2>6. Append(Contents, t)[length + 1] = t
    BY <2>2, <2>5
  <2>7. Contents'[length'] = t
    BY <2>1, <2>6
  <2>8. length' > 0
    BY <1>1, <2>1
  <2> QED
    BY <1>1, <2>4, <2>7, <2>8
<1>4. CASE length = HistorySize
  <2>1. Contents' = Append(Tail(Contents), t) /\ length' = length
    BY <1>4, AppendSlides, AppendStep
  <2>2. /\ Tail(Contents) \in Seq(T) /\ Len(Tail(Contents)) = length - 1
        /\ \A i \in 1..(length - 1) : Tail(Contents)[i] = Contents[i + 1]
    BY <1>2, <1>4
  <2>3. \A i \in 1..length :
          Append(Tail(Contents), t)[i] = IF i = length THEN t ELSE Contents[i + 1]
    BY <1>1, <1>4, <2>2
  <2>4. \A i \in 1..length : i # length => i + 1 \in 1..length
    BY <1>1
  <2>5. \A i \in 1..length : Contents'[i] \in Ticker
    BY <2>1, <2>3, <2>4 DEF Filled
  <2>6. Filled'
    BY <2>1, <2>5 DEF Filled
  <2>7. length \in 1..length
    BY <1>1, <1>4
  <2>8. Append(Tail(Contents), t)[length] = t
    BY <2>3, <2>7
  <2>9. Contents'[length'] = t
    BY <2>1, <2>8
  <2>10. length' > 0
    BY <1>1, <1>4, <2>1
  <2> QED
    BY <1>1, <2>6, <2>9, <2>10
<1> QED
  BY <1>1, <1>3, <1>4

(* The start of the reads moves by one sample per append, so the first one *)
(* that leaves the array is at its end, which the assertion refuses.       *)
LEMMA EndRefused ==
  ASSUME Live, ReadsInside, NEW t \in Ticker, ticker_history_append(t)
  PROVE  ReadsInside' \/ (length' > 0 /\ ~AssertHolds(MaxTickers)')
<1> USE RingAssumption, ChartAssumption
<1>1. /\ history_size = HistorySize /\ history_size' = HistorySize
      /\ length \in 0..HistorySize /\ start_pos \in 0..(HistorySize - 1)
      /\ HistorySize \in Nat \ {0} /\ MaxTickers \in Nat \ {0}
  BY AppendStep DEF Live, Slots
<1>2. CASE length < HistorySize
  <2>1. length' = length + 1 /\ start_pos' = 0
    BY <1>2, AppendStep
  <2>2. First(MaxTickers)' < HistorySize
    BY <1>1, <1>2, <2>1 DEF First, Available
  <2> QED
    BY <1>1, <2>2 DEF ReadsInside, Reads
<1>3. CASE length = HistorySize
  <2> DEFINE n == IF MaxTickers > HistorySize THEN HistorySize ELSE MaxTickers
  <2>1. /\ length' = HistorySize
        /\ start_pos' = IF start_pos + 1 = HistorySize THEN 0 ELSE start_pos + 1
    BY <1>3, AppendStep
  <2>2. n \in 1..HistorySize
    BY <1>1
  <2>3. /\ First(MaxTickers) = start_pos + HistorySize - n
        /\ First(MaxTickers)' = start_pos' + HistorySize - n
        /\ Available(MaxTickers)' = n
    BY <1>1, <1>3, <2>1 DEF First, Available
  <2> HIDE DEF n
  <2>4. start_pos < n
    BY <1>1, <1>3, <2>2, <2>3 DEF ReadsInside, Reads
  <2>5. CASE start_pos' < n
    BY <1>1, <2>1, <2>2, <2>3, <2>5 DEF ReadsInside, Reads
  <2>6. CASE start_pos' = n
    <3>1. First(MaxTickers)' = HistorySize /\ End(MaxTickers)' = n
      BY <1>1, <2>2, <2>3, <2>6 DEF End
    <3> QED
      BY <1>1, <2>1, <2>2, <3>1 DEF AssertHolds, Contiguous
  <2>7. start_pos' < n \/ start_pos' = n
    BY <1>1, <2>1, <2>2, <2>4
  <2> QED
    BY <2>5, <2>6, <2>7
<1> QED
  BY <1>1, <1>2, <1>3

(* While the program runs, the chart reads inside the array.               *)
ReadsWhileRunning == aborted \/ ReadsInside

ChartInv ==
  /\ TypeOK /\ Filled /\ Latest /\ CurveInside /\ ChartIsCurrent
  /\ ReadsWhileRunning

(* Drawing a ring whose latest sample the entries show, or failing to.     *)
LEMMA DrawStep ==
  ASSUME TypeOK', Filled', Latest', draw_tickers, ~aborted,
         ReadsInside' \/ (length' > 0 /\ ~AssertHolds(MaxTickers)')
  PROVE  CurveInside' /\ ChartIsCurrent' /\ ReadsWhileRunning'
<1>1. length' \in Nat
  BY RingAssumption DEF TypeOK, Live, Dead
<1>4. CASE length' > 0 /\ ~AssertHolds(MaxTickers)'
  <2>1. Available(MaxTickers)' # 0
    BY <1>1, <1>4, ChartAssumption DEF Available
  <2>2. aborted' = TRUE /\ image' = image
    BY <1>4, <2>1 DEF draw_tickers
  <2> QED
    BY <2>2 DEF CurveInside, ChartIsCurrent, ReadsWhileRunning
<1>2. CASE length' > 0 /\ ReadsInside'
  <2>1. image' = Drawing(Copied(MaxTickers)') /\ UNCHANGED aborted
    BY <1>2, RingDrawnNext DEF draw_tickers
  <2>2. /\ Inside(image', Copied(MaxTickers)') /\ image'.title = Contents'[length'].last
        /\ Len(image'.points) = Min({length', MaxTickers})
    BY <1>2, <2>1, RingDrawnNext
  <2> QED
    BY <1>2, <2>2 DEF Inside, Fits, Consistent, CurveInside, ChartIsCurrent, Latest, ReadsWhileRunning
<1>3. CASE length' = 0
  <2>1. Available(MaxTickers)' = 0
    BY <1>3, ChartAssumption DEF Available
  <2>2. image' = Black
    BY <2>1 DEF draw_tickers
  <2>3. ~ (current' # NoTicker /\ history_size' > 0)
    BY <1>3 DEF Latest
  <2> QED
    BY <1>3, <2>2, <2>3 DEF Black, CurveInside, ChartIsCurrent, ReadsWhileRunning, ReadsInside
<1> QED
  BY <1>1, <1>2, <1>3, <1>4

LEMMA ChartInvariance == ChartSpec => []ChartInv
<1>1. ChartInit => ChartInv
  <2> SUFFICES ASSUME ChartInit PROVE ChartInv
    OBVIOUS
  <2>1. TypeOK /\ length = 0 /\ current = NoTicker /\ image = Black
    BY RingAssumption DEF ChartInit, Init, TypeOK, Live, Slots
  <2> QED
    BY <2>1 DEF ChartInv, Filled, Latest, CurveInside, ChartIsCurrent, Black,
                ReadsWhileRunning, ReadsInside
<1>2. ChartInv /\ [ChartNext]_<<vars, chart>> => ChartInv'
  <2> SUFFICES ASSUME ChartInv, [ChartNext]_<<vars, chart>>
               PROVE  ChartInv'
    OBVIOUS
  <2>1. ASSUME NEW d \in Documents, update_tickers(d) PROVE ChartInv'
    <3>0. PICK t \in Ticker : t = Read(d)
      BY ChartAssumption
    <3>1. Live
      BY <2>1 DEF update_tickers, ChartInv, TypeOK, Dead
    <3>2. /\ ticker_history_append(t) /\ current' = t
          /\ draw_tickers /\ ~aborted
      BY <2>1, <3>0 DEF update_tickers, panel_ticker_append
    <3>3. Live' /\ Filled' /\ length' > 0 /\ Contents'[length'] = t
      BY <3>1, <3>2, AppendFills DEF ChartInv
    <3>4. TypeOK' /\ Latest'
      BY <3>2, <3>3 DEF TypeOK, Latest
    <3>5. ReadsInside' \/ (length' > 0 /\ ~AssertHolds(MaxTickers)')
      BY <3>1, <3>2, EndRefused DEF ChartInv, ReadsWhileRunning
    <3> QED
      BY <3>2, <3>3, <3>4, <3>5, DrawStep DEF ChartInv
  <2>2. CASE update_tickers_failed
    <3>1. UNCHANGED <<vars, current>> /\ draw_tickers /\ ~aborted
      BY <2>2 DEF update_tickers_failed
    <3>2. Contents' = Contents
      BY <3>1 DEF vars, Contents, Slot
    <3>3. TypeOK' /\ Filled' /\ Latest' /\ ReadsInside'
      BY <3>1, <3>2 DEF ChartInv, vars, TypeOK, Live, Dead, Filled, Latest,
                        ReadsWhileRunning, ReadsInside, Reads, First, Available
    <3> QED
      BY <3>1, <3>3, DrawStep DEF ChartInv
  <2>3. CASE panel_view_cleanup
    <3>1. /\ tickers_history' = <<>> /\ history_size' = 0
          /\ start_pos' = 0 /\ length' = 0 /\ UNCHANGED chart
      BY <2>3 DEF panel_view_cleanup, Cleanup
    <3> QED
      BY <3>1 DEF ChartInv, TypeOK, Dead, Filled, Latest, CurveInside,
                  ChartIsCurrent, chart, ReadsWhileRunning, ReadsInside
  <2>4. CASE UNCHANGED <<vars, chart>>
    <3>1. Contents' = Contents
      BY <2>4 DEF vars, Contents, Slot
    <3>2. Copied(MaxTickers)' = Copied(MaxTickers)
      BY <2>4 DEF vars, Copied, First, Available, Contiguous, End
    <3> QED
      BY <2>4, <3>1, <3>2 DEF ChartInv, vars, chart, TypeOK, Live, Dead, Filled, Latest,
                        CurveInside, ChartIsCurrent, ReadsWhileRunning, ReadsInside,
                        Reads, First, Available
  <2> QED
    BY <2>1, <2>2, <2>3, <2>4 DEF ChartNext
<1> HIDE DEF ChartInv
<1> QED
  BY <1>1, <1>2, PTL DEF ChartSpec

(* A sample that agrees with itself is drawn between the lines, whatever   *)
(* documents came before and after it.                                     *)
THEOREM CurveFits == ChartSpec => []CurveInside
<1>1. ChartInv => CurveInside
  BY DEF ChartInv
<1> QED
  BY <1>1, ChartInvariance, PTL

(* And it shows the latest sample and skips none of the ring.              *)
THEOREM ChartCurrent == ChartSpec => []ChartIsCurrent
<1>1. ChartInv => ChartIsCurrent
  BY DEF ChartInv
<1> QED
  BY <1>1, ChartInvariance, PTL

(* The chart never copies from behind the array: the read whose start is   *)
(* the end of the array comes first, and its assertion ends the program.   *)
THEOREM AbortsFirst == ChartSpec => []ReadsWhileRunning
<1>1. ChartInv => ReadsWhileRunning
  BY DEF ChartInv
<1> QED
  BY <1>1, ChartInvariance, PTL

(* With a ring no longer than the chart, no assertion of the reader fails. *)
THEOREM WholeRingNeverAborts ==
  ASSUME MaxTickers >= HistorySize
  PROVE  ChartSpec => []~aborted
<1>1. ChartInit => ~aborted
  BY DEF ChartInit
<1>2. ChartInv' /\ ~aborted /\ [ChartNext]_<<vars, chart>> => ~aborted'
  <2> SUFFICES ASSUME ChartInv', ~aborted, [ChartNext]_<<vars, chart>>
               PROVE  ~aborted'
    OBVIOUS
  <2>1. CASE UNCHANGED aborted
    BY <2>1
  <2>2. CASE draw_tickers
    <3>1. ReadsInside'
      <4>1. (TypeOK /\ MaxTickers >= HistorySize => ReadsInside)'
        BY ReadsInsideWhen, PTL
      <4> QED
        BY <4>1 DEF ChartInv
    <3>2. length' > 0 => AssertHolds(MaxTickers)'
      BY <3>1, RingDrawnNext DEF ChartInv
    <3>3. length' = 0 => Available(MaxTickers)' = 0
      BY ChartAssumption DEF Available
    <3>4. length' \in Nat
      BY RingAssumption DEF ChartInv, TypeOK, Live, Dead
    <3> QED
      BY <2>2, <3>2, <3>3, <3>4 DEF draw_tickers
  <2>3. UNCHANGED aborted \/ draw_tickers
    BY DEF ChartNext, update_tickers, update_tickers_failed, panel_view_cleanup, chart
  <2> QED
    BY <2>1, <2>2, <2>3
<1> QED
  BY <1>1, <1>2, ChartInvariance, PTL DEF ChartSpec
=============================================================================
