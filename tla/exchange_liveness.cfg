SPECIFICATION FairSpec
CONSTANTS
    Requests = {r1, r2}
    Tokens = {t1, t2}
    NoToken = NoToken
    RequestTTLs = {1}
    PolicyTTLs = {0}
    DefaultTokenTTL = 1
    MaxTokenTTL = 1
    GitHubLifetime = 9
    RevocationInterval = 1
    RevocationConcurrency = 1
    PromptRevoker = FALSE
    RevocationMayFail = TRUE
    MaxTime = 2
    MaxStops = 0
PROPERTIES
    OverdueTokensDie
    RequestsEnd
