CONSTANTS
    Accounts = {a1, a2}
    Identities = {i1, i2}
    Processes = {p1, p2}
SPECIFICATION FairSpec
INVARIANTS IInv AccountsMatchIdentities AnswerIsOwnAccount
PROPERTIES FirstLoginOnly LoginNeverDuplicates SignInEnds
