CONSTANTS
    w1 = w1
    a1 = a1
    a2 = a2
    a3 = a3
    s1 = s1
    p1 = p1
    p2 = p2
    r1 = r1
    Workspaces = {w1}
    Accounts = {a1, a2, a3}
    KnownAccounts = {a1, a2}
    Slugs = {s1}
    Operators = {p1, p2}
    Replicas = {r1}
    Heads = {1, 2}
SPECIFICATION Spec
SYMMETRY Interchangeable
INVARIANT FailedChainRefusedUntilRerun
