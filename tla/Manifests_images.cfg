CONSTANTS
    A = A  B = B  m1 = m1  m2 = m2  index = index  t = t  p1 = p1  p2 = p2
    Images = {A, B}
    Digests = {m1, m2, index}
    Tags = {t}
    Layers <- MCLayers
    Children <- MCChildren
    Procs = {p1, p2}
    Requests <- MCRequests
    MaxRequests = 4
    MaxStops = 1
    BlobDeletes = TRUE
    None = None

SPECIFICATION Spec
INVARIANTS
    TypeOK
    LayersKept
    UncleanLayersHidden
PROPERTY TagsAreNotCascaded
CHECK_DEADLOCK FALSE
