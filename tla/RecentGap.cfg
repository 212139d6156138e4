SPECIFICATION Spec
CONSTANTS
  t1 = t1
  t2 = t2
  Selected <- MCSelected
  MaxGap = 1
  Lookback = 4
  Period = 1
  ByHand <- MCByHand
  MaxDelay = 0
  Skew = 0
  Covers <- MCCovers
  ChartStep = 1
  Horizon = 5
  MaxRepairs = 1
INVARIANT PassedMeansNoRecentGap
