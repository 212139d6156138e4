SPECIFICATION Spec
CONSTANTS
  Interval = 6
  ParentDeadline = 5
  ChildDeadline = 5
  TickerCount = 3
  BatchSize = 2
  Workers = 2
  MaxRetries = 1
INVARIANTS TypeOK RoundsBounded NoTwin
PROPERTY StartsInTime
