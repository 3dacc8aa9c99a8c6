----------------------------- MODULE TickerRing -----------------------------
(***************************************************************************)
(* The ticker history of the coincheck panel (struct panel_ticker_context  *)
(* of src/src/gui/coincheck-gui.c): a ring of history_size samples written *)
(* once per second by update_tickers and read by draw_tickers.             *)
(*                                                                         *)
(* A sample is a member of Ticker.  A position is a size_t: subtracting a  *)
(* larger one wraps, which the reader's branches are checked against.      *)
(***************************************************************************)
EXTENDS Integers, Sequences

CONSTANTS
  Ticker,
  NoTicker,     \* an entry of the zeroed array
  HistorySize   \* max_history_size, 1000000 in the program

ASSUME RingAssumption == HistorySize \in Nat \ {0} /\ NoTicker \notin Ticker

VARIABLES
  tickers_history,  \* the array, <<>> (NULL) after cleanup
  history_size,
  start_pos,
  length

vars == <<tickers_history, history_size, start_pos, length>>

Slots == 0..(HistorySize - 1)

(* panel_ticker_context_init. *)
Init ==
  /\ tickers_history = [i \in Slots |-> NoTicker]
  /\ history_size = HistorySize
  /\ start_pos = 0
  /\ length = 0

(* Slips: start_pos is not wrapped, or stays behind once the ring is full. *)
append_NoWrap(t) ==
  /\ history_size > 0
  /\ LET cur_pos == (start_pos + length) % history_size
     IN  tickers_history' = [tickers_history EXCEPT ![cur_pos] = t]
  /\ IF length < history_size
     THEN length' = length + 1 /\ UNCHANGED start_pos
     ELSE start_pos' = start_pos + 1 /\ UNCHANGED length
  /\ UNCHANGED history_size
append_StartStays(t) ==
  /\ history_size > 0
  /\ LET cur_pos == (start_pos + length) % history_size
     IN  tickers_history' = [tickers_history EXCEPT ![cur_pos] = t]
  /\ length' = IF length < history_size THEN length + 1 ELSE length
  /\ UNCHANGED <<start_pos, history_size>>

(* ticker_history_append, called by panel_ticker_append. *)
ticker_history_append(t) ==
  /\ history_size > 0
  /\ LET cur_pos == (start_pos + length) % history_size
     IN  tickers_history' = [tickers_history EXCEPT ![cur_pos] = t]
  /\ IF length < history_size
     THEN length' = length + 1 /\ UNCHANGED start_pos
     ELSE /\ start_pos' = IF start_pos + 1 = history_size
                          THEN 0 ELSE start_pos + 1
          /\ UNCHANGED length
  /\ UNCHANGED history_size

(* panel_ticker_context_cleanup. *)
Cleanup ==
  /\ tickers_history' = <<>>
  /\ history_size' = 0
  /\ start_pos' = 0
  /\ length' = 0

Next == Cleanup \/ \E t \in Ticker : ticker_history_append(t)

Spec == Init /\ [][Next]_vars

-----------------------------------------------------------------------------
(* panel_ticker_get_lastest_history, which changes nothing of the ring.    *)

(* The number of samples it copies when asked for count, 0 means all. *)
Available(count) == IF count = 0 \/ count > length THEN length ELSE count

(* Slip: the oldest samples are copied. *)
First_Oldest(count) == start_pos

(* Where the copy starts and ends. *)
First(count) == start_pos + length - Available(count)

End(count) ==
  LET e == First(count) + Available(count)
  IN  IF e > history_size THEN e - history_size ELSE e

Contiguous(count) == End(count) > First(count)

(* What the assertion before the two-part copy requires: in size_t the     *)
(* difference is 0 only when the operands are equal, so this is the        *)
(* negation of partial_length == 0 together with end_pos > 0.              *)
AssertHolds(count) ==
  Contiguous(count) \/ (history_size # First(count) /\ End(count) > 0)

(* Every memcpy stays inside the array. *)
InBounds(count) ==
  IF Contiguous(count)
  THEN First(count) + Available(count) <= history_size
  ELSE First(count) < history_size

(* The samples copied, when that is so. *)
Copied(count) ==
  LET partial_length == history_size - First(count)
      source(i) ==
        IF Contiguous(count) \/ i <= partial_length
        THEN First(count) + i - 1
        ELSE i - partial_length - 1
  IN  [i \in 1..Available(count) |-> tickers_history[source(i)]]

-----------------------------------------------------------------------------
(* The ring has its type and its positions are inside the array: either it *)
(* is in use, unwrapped until it is full, or it was cleaned up.            *)
Live ==
  /\ tickers_history \in [Slots -> Ticker \cup {NoTicker}]
  /\ history_size = HistorySize
  /\ start_pos \in Slots
  /\ length \in 0..HistorySize
  /\ length < HistorySize => start_pos = 0

Dead ==
  /\ tickers_history = <<>>
  /\ history_size = 0 /\ start_pos = 0 /\ length = 0

TypeOK == Live \/ Dead

(* The slot of the i-th oldest sample. *)
Slot(i) == IF start_pos + i > HistorySize
           THEN start_pos + i - 1 - HistorySize
           ELSE start_pos + i - 1

(* The samples of the ring, oldest first. *)
Contents == [i \in 1..length |-> tickers_history[Slot(i)]]

(* The ring is the window of the last HistorySize samples, however often   *)
(* it has wrapped.                                                         *)
Window == INSTANCE SlidingWindow WITH
  Item <- Ticker, Capacity <- HistorySize, window <- Contents

ImplementsWindow == Window!Spec

(* The counts for which the reader's start position needs no reduction. *)
Reads(count) == First(count) < history_size

(* A read whose start does not pass the end of the array copies the most   *)
(* recent samples, oldest first, in one part or in two, inside the array.  *)
ReadsLatest ==
  \A count \in 0..HistorySize :
    LET n == Available(count) IN
      n > 0 /\ Reads(count) =>
        /\ InBounds(count) /\ AssertHolds(count)
        /\ Copied(count) = SubSeq(Contents, length - n + 1, length)

(* The assertion at coincheck-gui.c:635, for every count a caller may ask. *)
AssertNeverFails ==
  \A count \in 0..HistorySize : Available(count) > 0 => AssertHolds(count)
=============================================================================
