CONSTANTS
  v1 = v1  v2 = v2  v3 = v3  v4 = v4  v5 = v5
  p1 = p1  p2 = p2  q1 = q1  q2 = q2  r = r  a = a  NoProc = NoProc
  Versions = {v1, v2, v3, v4, v5}
  Digests = {1, 2, 3, 4}
  Procs = {p1, p2, q1, q2, r, a}
  Requests <- Rivals
  Sweepers = {r}
  Administrators = {a}
  Elsewhere = {4}
  Metered = TRUE
  MaxArtifacts = 2
  KeepLastN = 1
  MaxCrashes = 1
SPECIFICATION MCSpec
INVARIANTS
  UsageIsExact RefsMatchVersions NoDeadlock
PROPERTIES PublishedIsKept IndexSpec
