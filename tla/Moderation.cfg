\* Two listings, a seller who may have one, and two moderators who also use the
\* panel; two requests at a time and one save of the panel.
SPECIFICATION AuditSpec
CONSTANTS
    s1 = s1
    m1 = m1
    m2 = m2
    p1 = p1
    p2 = p2
    c1 = c1
    c2 = c2
    None = None
    Sellers <- OneSeller
    VerifiedSellers <- Nobody
    Admins <- Nobody
    Moderators <- TwoModerators
    PanelUsers <- TwoModerators
    Products <- TwoProducts
    Clients <- TwoClients
    UnverifiedLimit = 1
    VerifiedLimit = 2
    MaxContent = 1
    MaxSaves = 1
SYMMETRY Symmetric
INVARIANTS
    TypeOK
    ModeratorAssigned
    OnSaleIsApproved
    OvershootIsBounded
    TrailIsCurrent
PROPERTIES
    ClaimIsExclusive
