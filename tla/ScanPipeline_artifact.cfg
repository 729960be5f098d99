CONSTANTS
    a = a  b = b  c = c  nested = nested  index = index  m1 = m1  m2 = m2  scratch = scratch
    grype = grype  clamav = clamav  w1 = w1  w2 = w2  Nobody = Nobody
    Workers = {w1, w2}
    c1 = c1  c2 = c2
    Clients = {c1, c2}
    Blobs = {a, b, c}
    Manifests = {nested, index, m1, m2, scratch}
    Layers <- MCLayers
    Children <- MCChildren
    Graph <- MCGraph
    Settings <- MCSettings
    Declares <- MCDeclares
    Policies <- MCPolicies
    BlobLimit = 2
    MaxRuns = 3
    MaxChanges = 3

SPECIFICATION Spec
INVARIANTS
    VerdictIsCovered
    FindingsExplainState
    CleanWasScanned
CHECK_DEADLOCK FALSE
