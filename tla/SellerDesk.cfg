\* A seller at the dashboard while a request and two overlapping sweeps work on the
\* product.
SPECIFICATION DeskSpec
CONSTANTS
    u1 = u1
    p1 = p1
    k1 = k1
    k2 = k2
    o1 = o1
    c1 = c1
    w1 = w1
    w2 = w2
    None = None
    Users <- OneUser
    Staff <- NoUser
    Products <- OneProduct
    Keys <- TwoKeys
    Orders <- OneOrder
    Clients <- OneClient
    Workers <- TwoWorkers
    Stock <- StockOf2
    MaxQuantity = 1
    MaxFailures = 1
    ExpireOnCommit = FALSE
    MaxStock = 3
    MaxEdits = 1
SYMMETRY Symmetric
CHECK_DEADLOCK FALSE
INVARIANTS
    AddressesArePaid
    DeletedIsUnreferenced
PROPERTIES
    OnlyStaleFormsMiscount
