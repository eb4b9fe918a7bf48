CONSTANTS
    b1 = b1
    b2 = b2
    a1 = a1
    w1 = w1
    auth = auth
    app = app
    api = api
    s1 = s1
    g1 = g1
    g2 = g2
    n1 = n1
    n2 = n2
    n3 = n3
    p1 = p1
    p2 = p2
    Browsers = {b1}
    Accounts = {a1}
    Workspaces = {w1}
    Members <- Membership
    Hosts = {auth, app}
    IdentityHost = auth
    Sessions = {s1}
    Grants = {g1, g2}
    Nonces = {n1, n2, n3}
    Handlers = {p1}
    IdleTime = 1
    MaxAge = 1
    GrantLife = 1
    LastTick = 1
SPECIFICATION Spec
SYMMETRY Interchangeable
INVARIANT SecretExistsUnreachable
CHECK_DEADLOCK FALSE
