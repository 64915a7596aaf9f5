\* Four tokens, two users and two emails, an API key, two requests at a time, one
\* of which may die between the commits of a refresh.
SPECIFICATION AccountsSpec
CONSTANTS
    t1 = t1
    t2 = t2
    t3 = t3
    t4 = t4
    u1 = u1
    u2 = u2
    c1 = c1
    c2 = c2
    e1 = e1
    e2 = e2
    k1 = k1
    None = None
    Tokens <- FourTokens
    Users <- TwoUsers
    Clients <- TwoClients
    Emails <- TwoEmails
    ApiKeys <- OneKey
    MaxFailures = 1
SYMMETRY Symmetric
CHECK_DEADLOCK FALSE
INVARIANTS
    AccountsTypeOK
    ExchangedIsGone
    ExchangesAreConcurrent
    EmailsIdentify
    KeysStopWorking
