SPECIFICATION Spec
CONSTANTS
    Requests = {r1}
    Tokens = {t1}
    NoToken = NoToken
    RequestTTLs <- MCRequestTTLs
    PolicyTTLs <- MCPolicyTTLs
    DefaultTokenTTL = 1
    MaxTokenTTL = 1
    GitHubLifetime = 9
    RevocationInterval = 2
    RevocationConcurrency = 1
    PromptRevoker = TRUE
    RevocationMayFail = FALSE
    MaxTime = 6
    MaxStops = 1
SYMMETRY Symmetry
INVARIANTS
    LifetimeWithinMaximum
