\* The worker as it is deployed: objects survive the commit; two overlapping
\* sweeps, one request at a time, one failure.
SPECIFICATION FairSpec
CONSTANTS
    u1 = u1
    u2 = u2
    p1 = p1
    p2 = p2
    k1 = k1
    k2 = k2
    k3 = k3
    k4 = k4
    o1 = o1
    o2 = o2
    c1 = c1
    c2 = c2
    c3 = c3
    w1 = w1
    w2 = w2
    None = None
    Users <- OneUser
    Staff <- NoUser
    Products <- OneProduct
    Keys <- TwoKeys
    Orders <- OneOrder
    Clients <- OneClient
    Workers <- TwoWorkers
    Stock <- StockOf2
    MaxQuantity = 1
    MaxFailures = 1
    ExpireOnCommit = FALSE
CHECK_DEADLOCK FALSE
PROPERTIES
    OverdueIsReleased
    RequestsEnd
