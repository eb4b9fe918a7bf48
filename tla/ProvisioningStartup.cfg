CONSTANTS
    w1 = w1
    w2 = w2
    a1 = a1
    s1 = s1
    s2 = s2
    p1 = p1
    r1 = r1
    Workspaces = {w1, w2}
    Accounts = {a1}
    KnownAccounts = {a1}
    Slugs = {s1, s2}
    Operators = {p1}
    Replicas = {r1}
    Heads = {1}
SPECIFICATION RunningSpec
PROPERTY StartupCompletes
