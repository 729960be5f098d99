SPECIFICATION FairSpec
CONSTANTS
  Keys = {k1, k2}
  Handlers = {h1, h2}
  BatchSize = 2
  RetryLimit = 8
  RetryDelayMax = 20
  TakeoverAfter = 30
  Expiry = 30
  SendTimes = {1, 25}
  Faults = {"crash", "smtp", "ambiguous", "db"}
  MaxFaults = 2
INVARIANTS NoStrayDuplicates NoEmailLost
PROPERTY EmailsSettle
CHECK_DEADLOCK FALSE
