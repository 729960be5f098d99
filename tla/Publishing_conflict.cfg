CONSTANTS
  v1 = v1  v2 = v2  v3 = v3  v4 = v4  v5 = v5
  p1 = p1  p2 = p2  q1 = q1  q2 = q2  r = r  a = a  NoProc = NoProc
  Versions = {v1}
  Digests = {1}
  Procs = {p1, p2}
  Requests <- Twins
  Sweepers = {}
  Administrators = {}
  Elsewhere = {}
  Metered = TRUE
  MaxArtifacts = 9
  KeepLastN = 1
  MaxCrashes = 0
SPECIFICATION MCSpec
INVARIANT LiveVersionsHaveRefs
