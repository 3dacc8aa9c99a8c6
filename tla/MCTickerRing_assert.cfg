SPECIFICATION ChartSpec
CONSTANTS
  Ticker <- MCTickers
  Documents <- MCDocuments
  NoTicker = NoTicker
  HistorySize = 3
  MaxTickers = 2
  Extent = 5
INVARIANTS AssertNeverFails
CHECK_DEADLOCK FALSE
