CONSTANTS
    None = None
    NoConfig = NoConfig
    Specs <- Versions
    Natives <- Offered
    Texts <- Found
    Fields <- AnyString
    Numeral <- Digits
    Deployments <- Operated
    Environments <- Environs
    WebSecret = "s"
    SecretFiles <- Directory
    References <- RefTexts
    Tokens <- AnyString
    Paths <- LinkPaths
    MaxChanges = 1
SPECIFICATION Spec
INVARIANT WorkspaceCanBePicked
