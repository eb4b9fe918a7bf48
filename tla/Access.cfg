CONSTANTS
    a1 = a1
    a2 = a2
    w1 = w1
    w2 = w2
    t1 = t1
    p1 = p1
    p2 = p2
    v1 = v1
    Accounts = {a1, a2}
    Workspaces = {w1, w2}
    Tokens = {t1}
    Handlers = {p1, p2}
    Values = {v1}
    Founders <- Owners
    Invitations <- Invited
    Kinds = {"mcp"}
    Enabled <- EnabledModules
    Profile = "test"
    Proposals <- Asked
    Lists <- ListsAsked
SPECIFICATION Spec
SYMMETRY HandlerSymmetry
INVARIANTS IInv CoreOperationsAreCore SuccessMeansDone
PROPERTIES SettingsSetByOwner RevokedByEntitled ImplementsAuthority
CHECK_DEADLOCK FALSE
