CONSTANTS
  o1 = o1  o2 = o2  r1 = r1  r2 = r2  r3 = r3  p1 = p1  p2 = p2  p3 = p3  NoProc = NoProc
  Digests = {1}
  Orgs = {o1, o2}
  Repos = {r1, r2}
  Slots = {s}
  Procs = {p1, p2}
  OrgOf <- MCOrgOf
  Size <- MCSize
  MaxStorage <- MCMaxStorage
  Metered = {o1, o2}
  Limited = {o1}
  Faults = {"crash", "s3", "session"}
  MaxFaults = 2
  GraceOutlastsRequests = TRUE
SPECIFICATION FairSpec
PROPERTY GarbageIsReclaimed
