SPECIFICATION Spec
CONSTANTS
    Requests = {r1, r2}
    Tokens = {t1, t2}
    NoToken = NoToken
    RequestTTLs <- MCRequestTTLs
    PolicyTTLs <- MCPolicyTTLs
    DefaultTokenTTL = 1
    MaxTokenTTL = 1
    GitHubLifetime = 2
    RevocationInterval = 1
    RevocationConcurrency = 1
    PromptRevoker = FALSE
    RevocationMayFail = TRUE
    MaxTime = 3
    MaxStops = 1
SYMMETRY Symmetry
INVARIANTS
    TypeOK
    DeliveredIsAudited
    LiveTokensAreTracked
    UsableUntilExpiry
    ReportedExpiryBounded
    FinishedRequestsAudited
