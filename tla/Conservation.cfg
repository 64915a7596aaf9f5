\* Sessions that forget their objects at commit.
SPECIFICATION Spec
CONSTANTS
    u1 = u1
    u2 = u2
    p1 = p1
    p2 = p2
    k1 = k1
    k2 = k2
    k3 = k3
    k4 = k4
    o1 = o1
    o2 = o2
    c1 = c1
    c2 = c2
    c3 = c3
    w1 = w1
    w2 = w2
    None = None
    Users <- TwoUsers
    Staff <- TheAdmin
    Products <- TwoProducts
    Keys <- TwoKeys
    Orders <- TwoOrders
    Clients <- TwoClients
    Workers <- OneWorker
    Stock <- StockOf2And1
    MaxQuantity = 2
    MaxFailures = 1
    ExpireOnCommit = TRUE
SYMMETRY Symmetric
CHECK_DEADLOCK FALSE
INVARIANTS
    TypeOK
    OrderMatchesReservation
    EveryDeadlockInvolvesASweep
    StockConserved
PROPERTIES
    ImplementsLedger
    FinalStatusIsFinal
