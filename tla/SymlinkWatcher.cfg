CONSTANTS
    k = k
    l = l
    m = m
    Path <- MCPath
    Link = {k, l, m}
    PointsTo <- Disjoint
    DepthOf <- MCDepthOf
    MaxInt <- MCMaxInt
    Deletable <- MCPath
    MaxChanges = 2
    MaxAdd = 3
    MaxRemove = 2
SPECIFICATION Spec
INVARIANTS
    
    HeldLinksAreTold
CHECK_DEADLOCK FALSE
