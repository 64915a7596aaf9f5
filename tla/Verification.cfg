\* One user, three requests; two are created and two forms saved at a time, one of
\* which may die.
SPECIFICATION Spec
CONSTANTS
    u1 = u1
    r1 = r1
    r2 = r2
    r3 = r3
    c1 = c1
    c2 = c2
    a1 = a1
    a2 = a2
    None = None
    Users <- OneUser
    TargetRoles <- SomeRoles
    FirstRole = "USER"
    Requests <- ThreeRequests
    Clients <- TwoClients
    Admins <- TwoAdmins
    MaxFailures = 1
SYMMETRY Symmetric
INVARIANTS
    TypeOK
    ApprovedIsGranted
    PendingIsBounded
