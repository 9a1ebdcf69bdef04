SPECIFICATION Spec
CONSTANTS
    Apps = {a1, a2}
    Organization <- MCOrganization
    Workers = {w1, w2}
    Owners = {"org"}
    NoOwner = NoOwner
    NoState = NoState
    NoApp = NoApp
    Backends = {"redis"}
    TTLBuffer = 1
    ItemTTL = 3
    TicksPerSecond = 2
    DefaultRetrySeconds = 1
    MinRetrySeconds = 1
    Limit = 2
    Window = 2
    MaxTime = 3
SYMMETRY Symmetry
PROPERTIES
    ImplementsRegister
    NeverChoosesKnownExhausted
    RefusalIsTrue
