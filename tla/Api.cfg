SPECIFICATION FairSpec
CONSTANTS
  Requests = {r1, r2}
  Pool = 1
INVARIANTS
  TypeOK
  CountersAgree
  ScrapesCountReplies
PROPERTY RequestsEnd
CHECK_DEADLOCK FALSE
