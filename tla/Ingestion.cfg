SPECIFICATION FairSpec
CONSTANTS
  live = live
  fill = fill
  odd = odd
  t1 = t1
  t2 = t2
  Jobs <- MCAllJobs
  Kind <- MCAllKind
  Batch <- MCAllBatch
  RangeOk <- MCUsual
  ProviderOk <- MCUsual
  ViaBroker <- MCUsual
  Tickers = {t1, t2}
  Supported = {t1, t2}
  Prices = {1, 2}
  IndexAnswers <- MCIndexAnswers
  ChartAnswers <- MCChartAnswers
  MicrosPerSecond = 2
  MillisPerSecond = 2
  MaxRetries = 1
INVARIANTS TypeOK UniqueKeys WritesIsolated AttemptsConsistent
  SuccessMeansStored FetchRetried
PROPERTIES RepeatChangesNothing PublishesWhole EveryJobEnds
CHECK_DEADLOCK FALSE
