SPECIFICATION ChartSpec
CONSTANTS
  Ticker <- MCTickers
  Documents <- MCDocuments
  NoTicker = NoTicker
  HistorySize = 4
  MaxTickers = 4
  Extent = 5
INVARIANTS TypeOK ReadsLatest CurveInside ChartIsCurrent
PROPERTIES ImplementsWindow
CHECK_DEADLOCK FALSE
