SPECIFICATION FairSpec
CONSTANTS
  Sessions = {s1, s2, s3}
  Keys = {k1, k2}
  MaxFailures = 2
INVARIANTS
  TypeOK
  HeadMeansUnique
PROPERTIES
  UpgradesWhole
  UpgradeEnds
