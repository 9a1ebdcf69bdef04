SPECIFICATION Spec
CONSTANTS
    Requests = {r1, r2}
    Tokens = {t1, t2}
    NoToken = NoToken
    RequestTTLs <- MCRequestTTLs
    PolicyTTLs <- MCPolicyTTLs
    DefaultTokenTTL = 1
    MaxTokenTTL = 1
    GitHubLifetime = 9
    RevocationInterval = 2
    RevocationConcurrency = 1
    PromptRevoker = TRUE
    RevocationMayFail = FALSE
    MaxTime = 5
    MaxStops = 0
SYMMETRY Symmetry
INVARIANTS
    LifetimeWithinMaximum
