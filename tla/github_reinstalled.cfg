SPECIFICATION Spec
CONSTANTS
    Calls = {c1}
    Owners = {"user"}
    Users = {"user"}
    NoCall = NoCall
    NoOwner = NoOwner
    NoEntry = NoEntry
    InstallationTTL = 1
    TokenLifetime = 4
    ExpiryBuffer = 3
    RequestTime = 1
    MaxAttempts = 2
    MayLackContents = FALSE
    MaxTokens = 2
    MaxInstallations = 2
    MaxTime = 4
PROPERTIES
    NotFoundMeansNotInstalled
