---------------------------- MODULE Configuration ----------------------------
(***************************************************************************)
(* The configuration file as config.Load turns it into the configuration   *)
(* of the process: defaults for what the file leaves out, then the         *)
(* validators of the sections.  Names and paths are strings, "" when they  *)
(* are empty; times and TTLs are numbers.                                  *)
(***************************************************************************)
EXTENDS Integers

CONSTANT Absent    \* a key or section the file does not have (a nil pointer)

Default(value, default) == IF value = Absent THEN default ELSE value

ServerDefaults ==
    [port |-> 8080,
     timeouts |-> [read |-> 30, write |-> 30, shutdown |-> 10, request |-> 30,
                   idle |-> 10, wait |-> 10],
     cert |-> "", key |-> ""]

\* setDefaults, for a file that leaves out logger, server or otel as a whole
\* or other keys one by one.  A default for one key of a section makes the section's
\* pointer non-nil: audit.dynamodb and selector.redis are never absent.
WithDefaults(file) ==
    [file EXCEPT
       !.logger = Default(@, [level |-> "info", format |-> "json"]),
       !.server = Default(@, ServerDefaults),
       !.audience = Default(@, "gate"),
       !.audit.dynamodb = Default(@, [table |-> "audit_logs", ttlDays |-> 90]),
       !.selector.type = Default(@, "memory"),
       !.selector.redis = Default(@, [address |-> "", db |-> 0]),
       !.policy.version = Default(@, "1.0"),
       !.policy.defaultTTL = Default(@, 900),
       !.policy.maxTTL = Default(@, 3600),
       !.otel = Default(@, [enabled |-> FALSE, endpoint |-> "localhost:4317",
                            protocol |-> "grpc", samplePercent |-> 100,
                            exporterTimeout |-> 10])]

------------------------------------------------------------------------------
(* The validators *)

ValidLogger(l) ==
    /\ l.level \in {"", "debug", "info", "warn", "error"}
    /\ l.format \in {"", "json", "text"}

ValidAudit(a) ==
    \/ a.backend = ""
    \/ a.backend = "sql" /\ a.sql # Absent /\ a.sql.dsn # ""
    \/ /\ a.backend = "dynamodb" /\ a.dynamodb # Absent
       /\ a.dynamodb.table # "" /\ a.dynamodb.ttlDays \in 0 .. 365

ValidSelector(s) ==
    \/ s.type \in {"", "memory"}
    \/ s.type = "redis" /\ s.redis # Absent /\ s.redis.address # "" /\ s.redis.db >= 0
    \/ /\ s.type = "dynamodb" /\ s.dynamodb # Absent
       /\ s.dynamodb.table # "" /\ s.dynamodb.ttlMinutes \in 0 .. 1440

ValidHours(h) == h.start \in 0 .. 23 /\ h.end \in 0 .. 23

ValidTimeRestriction(t) ==
    /\ t.hours # Absent => ValidHours(t.hours)
    /\ t.days \subseteq {"Monday", "Tuesday", "Wednesday", "Thursday", "Friday",
                         "Saturday", "Sunday"}

ValidProvider(p) ==
    /\ p.issuer # "" /\ p.name # ""
    /\ p.time # Absent => ValidTimeRestriction(p.time)

ValidPermissions(permissions) ==
    \A name \in DOMAIN permissions : permissions[name] \in {"none", "read", "write"}

ValidPolicyConfig(p) ==
    /\ p.version = "1.0" /\ p.trustPolicyPath # ""
    /\ p.defaultTTL > 0 /\ p.maxTTL > 0 /\ p.defaultTTL <= p.maxTTL
    /\ \A provider \in p.providers : ValidProvider(provider)
    /\ ValidPermissions(p.maxPermissions)

\* Neither a certificate without its key nor a key without its certificate.
ValidTLS(s) == (s.cert = "") <=> (s.key = "")

TLSEnabled(s) == s.cert # "" /\ s.key # ""

ValidServer(s) ==
    /\ s.port \in 1 .. 65535
    /\ \A t \in DOMAIN s.timeouts : s.timeouts[t] > 0
    /\ ValidTLS(s)

ValidOrigin(o) == o.enabled => o.headerName # "" /\ o.headerValue # ""

ValidFIPS(mode) == mode \in {"", "on", "only"}

ValidOTel(o) ==
    o.enabled =>
        /\ o.endpoint # "" /\ o.protocol = "grpc"
        /\ o.samplePercent \in 0 .. 100
        /\ o.exporterTimeout > 0

ValidApps(apps) ==
    \A app \in apps : app.clientID # "" /\ app.privateKeyPath # "" /\ app.organization # ""

Valid_NoPolicy(c) ==
    /\ ValidLogger(c.logger) /\ ValidAudit(c.audit) /\ ValidSelector(c.selector)
    /\ ValidServer(c.server)
    /\ c.audience # "" /\ ValidOrigin(c.origin) /\ ValidFIPS(c.fipsMode)
    /\ ValidOTel(c.otel) /\ ValidApps(c.apps)

\* Config.Validate: every section is valid.
Valid(c) ==
    /\ ValidLogger(c.logger) /\ ValidAudit(c.audit) /\ ValidSelector(c.selector)
    /\ ValidPolicyConfig(c.policy) /\ ValidServer(c.server)
    /\ c.audience # "" /\ ValidOrigin(c.origin) /\ ValidFIPS(c.fipsMode)
    /\ ValidOTel(c.otel) /\ ValidApps(c.apps)

IsMigrationSupported(c) == c.audit.backend = "sql"
==============================================================================
