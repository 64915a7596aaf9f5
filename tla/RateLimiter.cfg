\* Two buyers of one product and one visitor, two requests each per three time
\* units, three of the product; the dummy's limit is as low as a visitor's own.
SPECIFICATION Spec
CONSTANTS
    u1 = u1
    u2 = u2
    p1 = p1
    alice = alice
    Buyers <- TwoBuyers
    Items <- OneItem
    Visitors <- OneVisitor
    Limit = 2
    ItemLimit = 3
    DummyLimit = 2
    Ttl = 3
    MaxTime = 6
SYMMETRY Symmetric
CHECK_DEADLOCK FALSE
INVARIANTS
    TypeOK
    BurstIsBounded
    CountsAdmitted
    NeverRefusedGlobally
    NobodyIsBlockedForLong
