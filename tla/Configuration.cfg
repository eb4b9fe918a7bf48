CONSTANTS
    None = None
    NoConfig = NoConfig
    Specs <- Versions
    Natives <- Offered
    Texts <- Found
    Fields <- AnyString
    Numeral <- Digits
    Deployments <- Operated
    Environments <- Environs
    WebSecret = "s"
    SecretFiles <- Directory
    References <- RefTexts
    Tokens <- AnyString
    Paths <- LinkPaths
    MaxChanges = 2
SPECIFICATION Spec
INVARIANTS NeverLooser RowsNeverBreakReading WriteMatchesRead OneTopology ComesBack OwnLinksAccepted SecretsStayInScope
PROPERTY NavigationEnds
