\* One user, one admin, two requests, no failure.
SPECIFICATION Spec
CONSTANTS
    u1 = u1
    r1 = r1
    r2 = r2
    r3 = r3
    c1 = c1
    c2 = c2
    a1 = a1
    a2 = a2
    None = None
    Users <- OneUser
    TargetRoles <- SomeRoles
    FirstRole = "USER"
    Requests <- TwoRequests
    Clients <- OneClient
    Admins <- OneAdmin
    MaxFailures = 0
SYMMETRY Symmetric
PROPERTIES
    RoleFollowsApproval
