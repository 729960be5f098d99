CONSTANTS
    o1 = o1  o2 = o2  staff = staff  sso = sso  s1 = s1  k = k  l1 = l1  l2 = l2  p1 = p1  p2 = p2
    Orgs = {o1, o2}
    Groups = {staff, sso}
    Mapped = {sso}
    Links = {l1, l2}
    Procs = {p1, p2}
    GroupOrg <- MCGroupOrg
    Credentials <- MCCredentials
    MaxRequests = 5
    MaxStops = 1
    None = None

SPECIFICATION Spec
INVARIANTS
    TypeOK
    AccessSurvivesDeactivation
    EarlierCredentialsEnd
SYMMETRY Symmetry
CHECK_DEADLOCK FALSE
