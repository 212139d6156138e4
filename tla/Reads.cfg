SPECIFICATION Spec
CONSTANTS
  btc = btc
  eth = eth
  Keys <- MCKeys
  Prices = {0, 2}
  PageLimit = 2
  Windows <- MCWindows
  Intervals = {2, 4}
  QueryLimit = 3
INVARIANTS
  TypeOK
  PagesHideNothing
  MetricsNeverAhead
  CandlesMatchSummary
  CandlesNest
  CandlesSplit
