SPECIFICATION FairSpec
CONSTANTS
  Artifacts = {a1, a2}
  Workers = {w1, w2}
  Verdicts = {clean}
  MaxAttempts = 2
  BatchSize = 2
  Concurrency = 1
  Faults = {"crash", "scan", "finalize", "slow"}
  MaxFaults = 2
  MaxPublishes = 2
INVARIANTS OneClaimant SucceededWasScanned PendingHasIntent
CHECK_DEADLOCK FALSE
PROPERTIES ScansSettle RequestSpec
