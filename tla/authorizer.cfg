SPECIFICATION Spec
CONSTANTS
    Inputs <- MCInputs
    NonRepoPermissions = {"members"}
    Absent = Absent
    NotAString = NotAString
    BadPattern = BadPattern
    NoHours = NoHours
    DefaultTokenTTL = 3
    MaxTokenTTL = 5
\* One call of Authorize ends with its result.
CHECK_DEADLOCK FALSE
INVARIANTS
    GrantWithinBothLayers
    GrantIsNotEmpty
    GrantHasWitness
    NamingThePolicyChangesNothing
    HoursGoAroundTheClock
    GrantedTTLWithinAll
