------------------------------- MODULE Chart -------------------------------
(***************************************************************************)
(* The ticker chart of the coincheck panel: once a second update_tickers   *)
(* (src/src/gui/coincheck-gui.c) asks for the ticker, appends the sample   *)
(* to the ring, writes it into the entries and has draw_tickers            *)
(* (src/src/gui/draw_tickers.c) draw the latest samples.                   *)
(*                                                                         *)
(* Prices are whole units.  A document is known by the prices it has;      *)
(* whatever it is, an error, a ticker without one of its keys or one whose *)
(* prices contradict each other, it is appended as a sample.               *)
(***************************************************************************)
EXTENDS TickerRing, FiniteSetsExt

CONSTANTS
  Documents,    \* the documents the exchange answers with
  MaxTickers,   \* s_max_tickers, 2000
  Extent        \* the height of the chart, range in the code, 400

Key == {"low", "last", "high"}

(* json_get_value(jticker, double, key): a key that is missing is 0. *)
Read(d) == [k \in Key |-> IF k \in DOMAIN d THEN d[k] ELSE 0]

ASSUME ChartAssumption ==
  /\ MaxTickers \in Nat \ {0} /\ Extent \in Nat \ {0}
  /\ \A t \in Ticker : t \in [Key -> Int]
  /\ \A d \in Documents : Read(d) \in Ticker

VARIABLES
  current,   \* the prices in the panel's entries
  image,     \* what is on the surface of the chart
  aborted    \* an assertion failed: the process is gone

chart == <<current, image, aborted>>

Black == [points |-> <<>>, scale |-> <<1, 1>>, title |-> 0]

ChartInit ==
  /\ Init
  /\ current = NoTicker
  /\ image = Black
  /\ aborted = FALSE

-----------------------------------------------------------------------------
(* draw_tickers *)

(* Slip: the oldest sample is not looked at. *)
min_tick_FromSecond(ts) == Min({ts[i].low : i \in DOMAIN ts \ {1}} \cup {ts[Len(ts)].low})

min_tick(ts) == Min({ts[i].low : i \in DOMAIN ts})
max_tick(ts) == Max({ts[i].high : i \in DOMAIN ts})

(* The heights are scaled down, by a fraction, only if they do not fit. *)
tick_scale(ts) ==
  LET spread == max_tick(ts) - min_tick(ts)
  IN  IF spread > Extent THEN <<Extent, spread>> ELSE <<1, 1>>

Drawing(ts) ==
  [points |-> [i \in DOMAIN ts |-> ts[i].last - min_tick(ts)],
   scale |-> tick_scale(ts),
   title |-> ts[Len(ts)].last]

(* The samples are those of the ring as it is after the append; without    *)
(* any the surface is painted black.                                       *)
draw_tickers ==
  IF Available(MaxTickers)' = 0
  THEN image' = Black /\ UNCHANGED aborted
  ELSE IF ~AssertHolds(MaxTickers)'
       THEN aborted' = TRUE /\ UNCHANGED image
       ELSE image' = Drawing(Copied(MaxTickers)') /\ UNCHANGED aborted

-----------------------------------------------------------------------------
(* panel_ticker_append: every key is read and shown on its own, none is    *)
(* compared with another.                                                  *)
panel_ticker_append(d) == ticker_history_append(Read(d)) /\ current' = Read(d)

(* Slip: the entries are written, and the chart is drawn, without waiting  *)
(* for the sample to be appended.                                          *)
update_tickers_DrawsFirst(d) ==
  /\ ~aborted
  /\ history_size > 0
  /\ panel_ticker_append(d)
  /\ IF Available(MaxTickers) = 0
     THEN image' = Black /\ UNCHANGED aborted
     ELSE IF ~AssertHolds(MaxTickers)
          THEN aborted' = TRUE /\ UNCHANGED image
          ELSE image' = Drawing(Copied(MaxTickers)) /\ UNCHANGED aborted

(* update_tickers with a document, *)
update_tickers(d) ==
  /\ ~aborted
  /\ history_size > 0
  /\ panel_ticker_append(d)
  /\ draw_tickers

(* and without one: the chart is drawn again as it was. *)
update_tickers_failed ==
  /\ ~aborted
  /\ history_size > 0
  /\ UNCHANGED <<vars, current>>
  /\ draw_tickers

panel_view_cleanup == Cleanup /\ UNCHANGED chart

ChartNext ==
  \/ \E d \in Documents : update_tickers(d)
  \/ update_tickers_failed
  \/ panel_view_cleanup

ChartSpec == ChartInit /\ [][ChartNext]_<<vars, chart>>

-----------------------------------------------------------------------------
(* No answer, however incomplete or contradictory, pushes another sample   *)
(* off the chart: the point of every sample whose last price is between    *)
(* its own low and high lies between the chart's lines, however far the    *)
(* prices in the ring spread.                                              *)
CurveInside ==
  history_size > 0 /\ ~aborted =>
    \A i \in DOMAIN image.points :
      LET t == Copied(MaxTickers)[i] IN
        t.low <= t.last /\ t.last <= t.high =>
          /\ image.points[i] >= 0
          /\ image.points[i] * image.scale[1] <= Extent * image.scale[2]

(* The chart, its title and the entries show one state of the market: the  *)
(* latest sample that was appended, whatever answers failed since, and no  *)
(* sample is missing between two ticks.                                    *)
ChartIsCurrent ==
  current # NoTicker /\ history_size > 0 /\ ~aborted =>
    /\ image.title = current.last
    /\ Len(image.points) = Min({length, MaxTickers})
    /\ Contents[length] = current
=============================================================================
