SPECIFICATION Spec
CONSTANTS
    Files <- MCFiles
    Absent = Absent
    Migrators = {m1, m2}
    NoMigrator = NoMigrator
    MaxOps = 2
    Requests = {r1, r2}
    Denials = {"RATE_LIMITED"}
    ClientIds = {id}
    NoProvider = NoProvider
    Day = 1
    MaxClock = 2
\* The process ends, and the operators may have nothing more to do.
CHECK_DEADLOCK FALSE
INVARIANTS
    TypeOK
    HandlersHaveOpenResources
    CleanExit
    ServingIsConfigured
    ProviderIsShared
PROPERTIES
    DeliveredStaysAudited
    UpMeansMigrated
    ShutdownEnds
