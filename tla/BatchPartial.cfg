SPECIFICATION Spec
CONSTANTS
  live = live
  fill = fill
  odd = odd
  t1 = t1
  t2 = t2
  Jobs <- MCJobs
  Kind <- MCKind
  Batch <- MCBatch
  RangeOk <- MCAllOk
  ProviderOk <- MCAllOk
  ViaBroker <- MCAllOk
  Tickers = {t1, t2}
  Supported = {t1, t2}
  Prices = {1, 2}
  IndexAnswers <- MCIndexAnswers
  ChartAnswers <- MCChartAnswers
  MicrosPerSecond = 2
  MillisPerSecond = 2
  MaxRetries = 1
PROPERTY PartialSuccessKept
CHECK_DEADLOCK FALSE
