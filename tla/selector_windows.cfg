SPECIFICATION Spec
CONSTANTS
    Apps = {a1, a2}
    Organization <- MCOrganization
    Workers = {w1}
    Owners = {"org", "other"}
    NoOwner = NoOwner
    NoState = NoState
    NoApp = NoApp
    Backends = {"memory", "redis", "dynamodb"}
    TTLBuffer = 1
    ItemTTL = 7
    TicksPerSecond = 2
    DefaultRetrySeconds = 2
    MinRetrySeconds = 1
    Limit = 1
    Window = 6
    MaxTime = 8
SYMMETRY Symmetry
INVARIANTS
    TypeOK
PROPERTIES
    ImplementsRegister
    RetryAfterIsTight
    RefusalIsTrue
