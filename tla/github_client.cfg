SPECIFICATION Spec
CONSTANTS
    Calls = {c1, c2}
    Owners = {"user"}
    Users = {"user"}
    NoCall = NoCall
    NoOwner = NoOwner
    NoEntry = NoEntry
    InstallationTTL = 1
    TokenLifetime = 4
    ExpiryBuffer = 3
    RequestTime = 1
    MaxAttempts = 2
    MayLackContents = TRUE
    MaxTokens = 2
    MaxInstallations = 2
    MaxTime = 4
SYMMETRY Symmetry
INVARIANTS
    TypeOK
    SentBeforeExpiry
    RefusedTokenIsGone
    InstallationIsRecent
    WaitersHaveLeaders
PROPERTIES
    FreshTokensStay
