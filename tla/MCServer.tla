------------------------------ MODULE MCServer ------------------------------
(***************************************************************************)
(* Configuration files for Server: one that leaves out all it can, those   *)
(* that differ from it in a backend or a switch, and those that the        *)
(* validators or the constructors of the dependencies refuse.              *)
(***************************************************************************)
EXTENDS Server, TLC

Minimal ==
    [logger |-> Absent, server |-> Absent, otel |-> Absent, audience |-> Absent,
     audit |-> [backend |-> "", sql |-> Absent, dynamodb |-> Absent],
     selector |-> [type |-> Absent, redis |-> Absent, dynamodb |-> Absent],
     policy |-> [version |-> Absent, trustPolicyPath |-> "policy.yaml",
                 defaultTTL |-> Absent, maxTTL |-> Absent,
                 providers |-> {[issuer |-> "issuer", name |-> "name", time |-> Absent]},
                 maxPermissions |-> [contents |-> "read"]],
     origin |-> [enabled |-> FALSE, headerName |-> "", headerValue |-> ""],
     fipsMode |-> "",
     apps |-> {[clientID |-> "app", privateKeyPath |-> "key.pem", organization |-> "org"]}]

WithSql == [Minimal EXCEPT !.audit.backend = "sql", !.audit.sql = [dsn |-> "postgres"]]
WithDynamoDB ==
    [Minimal EXCEPT !.audit.backend = "dynamodb",
                    !.audit.dynamodb = [table |-> "audit", ttlDays |-> 1],
                    !.selector.type = "dynamodb",
                    !.selector.dynamodb = [table |-> "states", ttlMinutes |-> 120]]
WithOTel ==
    [Minimal EXCEPT !.otel = [enabled |-> TRUE, endpoint |-> "collector:4317",
                              protocol |-> "grpc", samplePercent |-> 100,
                              exporterTimeout |-> 10]]
Guarded ==
    [Minimal EXCEPT !.origin = [enabled |-> TRUE, headerName |-> "X-Origin",
                                headerValue |-> "secret"],
                    !.server = [ServerDefaults EXCEPT !.cert = "cert.pem", !.key = "key.pem"],
                    !.selector.type = "redis",
                    !.selector.redis = [address |-> "redis:6379", db |-> 0]]

Hours(start, end) == [days |-> {"Monday"}, hours |-> [start |-> start, end |-> end]]

\* Accepted by the validators, refused by a constructor.
NotStartable ==
    {[Minimal EXCEPT !.selector.type = ""], [Minimal EXCEPT !.apps = {}],
     [Minimal EXCEPT !.policy.providers = {}]}

\* Refused by a validator.
Invalid ==
    {[Minimal EXCEPT !.policy.defaultTTL = 7200], [Minimal EXCEPT !.policy.maxTTL = 0],
     [Minimal EXCEPT !.policy.providers = {[issuer |-> "issuer", name |-> "name",
                                            time |-> Hours(9, 24)]}],
     [Minimal EXCEPT !.policy.maxPermissions = [contents |-> "admin"]],
     [Minimal EXCEPT !.audit.backend = "sql"],
     [Minimal EXCEPT !.selector.type = "redis"],
     [Minimal EXCEPT !.selector.type = "dynamodb"],
     [Guarded EXCEPT !.server.key = ""], [Guarded EXCEPT !.origin.headerValue = ""],
     [WithOTel EXCEPT !.otel.protocol = "http"]}

MCFiles == {Minimal, WithSql, WithDynamoDB, WithOTel, Guarded} \cup NotStartable \cup Invalid
==============================================================================
