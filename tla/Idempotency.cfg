\* Two reservations and their orders under one header, two requests at a time, a
\* sweep with the sessions it is deployed with, one failed transaction.
SPECIFICATION IdemSpec
CONSTANTS
    u1 = u1
    p1 = p1
    k1 = k1
    k2 = k2
    h1 = h1
    o1 = o1
    o2 = o2
    c1 = c1
    c2 = c2
    w1 = w1
    None = None
    Users <- OneUser
    Staff <- NoUser
    Products <- OneProduct
    Keys <- TwoKeys
    Headers <- OneHeader
    Orders <- TwoOrders
    Clients <- TwoClients
    Workers <- OneWorker
    Stock <- StockOf2
    MaxQuantity = 1
    MaxFailures = 1
    ExpireOnCommit = FALSE
SYMMETRY Symmetric
INVARIANTS
    EffectsOnce
    
    MissingResponsesAreExplained
