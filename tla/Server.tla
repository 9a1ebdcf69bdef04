------------------------------- MODULE Server -------------------------------
(***************************************************************************)
(* gate server from start to end: the configuration is loaded, the         *)
(* dependencies are built one by one and closed again when one fails,      *)
(* requests go through the middlewares, the OIDC validator's cache and the *)
(* audit log, and a signal drains the requests and runs the closers, while *)
(* gate db migrate runs beside it on the same database.                    *)
(*                                                                         *)
(* What the exchange decides after the OIDC token was verified is a choice *)
(* here; TokenExchange and Authorizer are about it.                        *)
(***************************************************************************)
EXTENDS Migrations, Sequences

CONSTANTS
    Requests,     \* requests handled at a time
    Denials,      \* codes with which a verified request is refused
    ClientIds,    \* ids that clients send in X-Request-Id
    NoProvider,   \* no OIDC provider
    Day,          \* the length of a day on the clock
    MaxClock      \* bound on the clock

ASSUME ServerConstants ==
    /\ Denials \subseteq {"ISSUER_NOT_ALLOWED", "TRUST_POLICY_NOT_FOUND", "POLICY_NOT_FOUND",
                          "REPOSITORY_NOT_FOUND", "POLICY_LOAD_FAILED", "RATE_LIMITED",
                          "APP_SELECTION_FAILED", "GITHUB_CLIENT_NOT_FOUND",
                          "INTERNAL_ERROR", "GITHUB_API_ERROR"}
    /\ NoProvider \notin 1 .. MaxOps
    /\ Day \in Nat \ {0} /\ MaxClock \in Nat

VARIABLES
    phase,      \* how far the process is
    exit,       \* how it ended
    open,       \* the resources that are open
    closers,    \* closers still to run
    failed,     \* resources whose closer returned an error and left them open
    provider,   \* Validator.providers, of one issuer
    request,    \* the requests
    reply,      \* the reply of the last step, if it gave one
    clock       \* the time of the last audit write or expiry

processVars == <<phase, exit, open, closers, failed>>
vars == <<file, migrationVars, ops, processVars, provider, request, reply, clock>>

Providers == <<"tracer", "meter", "logs">>
Telemetry == {Providers[i] : i \in 1 .. Len(Providers)}
Resources == Telemetry \cup {"store", "audit", "loop", "listener"}
Closers == <<"service", "store", "telemetry">>

Phases == {"load", "telemetry", "providers", "store", "selector", "audit", "service", "handler",
           "listen", "tls", "serving", "draining", "closing", "ended"}

\* How a request gets on after its OIDC token was verified.
Codes == Denials \cup {"ok", "INTERNAL_ERROR"}

RequestSteps == {"oidc", "discover", "store", "verify", "decide", "audit", "reply"}
NoRequest == [pc |-> "idle", n |-> 0, id |-> 0, subject |-> "", provider |-> NoProvider,
              code |-> "ok", granted |-> FALSE]
Entry == [n: 1 .. MaxOps, id: ClientIds \cup 1 .. MaxOps, time: 0 .. MaxClock,
          outcome: {"granted", "denied"}, caller: {"", "subject"}]

RequestState == [pc: RequestSteps \cup {"idle", "cut"}, n: 0 .. MaxOps,
                 id: {0} \cup 1 .. MaxOps \cup ClientIds, subject: {"", "subject"},
                 provider: 1 .. MaxOps \cup {NoProvider}, code: Codes, granted: BOOLEAN]
Replies == [status: {0, 200, 400, 401, 403, 404, 429, 500, 502}, retryAfter: BOOLEAN]

\* Type invariant.
TypeOK ==
    /\ MigrationsTypeOK
    /\ entries \subseteq Entry
    /\ phase \in Phases /\ exit \in {"none", "ok", "error"}
    /\ (exit = "none") <=> (phase # "ended")
    /\ open \subseteq Resources /\ failed \subseteq Resources
    /\ closers \in {Closers, Tail(Closers), Tail(Tail(Closers)), <<>>}
    /\ provider \in 1 .. MaxOps \cup {NoProvider}
    /\ request \in [Requests -> RequestState]
    /\ reply \in Replies
    /\ clock \in 0 .. MaxClock

NoReply == [status |-> 0, retryAfter |-> FALSE]

Active(r) == request[r].pc \in RequestSteps

------------------------------------------------------------------------------
(* Init *)

\* The process goes on to its next phase with these resources open.
Proceed(next, resources) ==
    /\ phase' = next /\ open' = resources
    /\ UNCHANGED <<exit, closers, failed>>

\* The process ends, with these resources not closed; what it was handling
\* is cut off.
Exit(how, resources) ==
    /\ phase' = "ended" /\ exit' = how /\ open' = resources
    /\ request' = [r \in Requests |-> IF Active(r) THEN [NoRequest EXCEPT !.pc = "cut"]
                                      ELSE request[r]]
    /\ UNCHANGED <<closers, failed>>

Others == <<file, migrationVars, ops, provider, clock>>

LoadConfig ==
    /\ phase = "load"
    /\ IF Valid(Config) THEN Proceed("telemetry", open) /\ UNCHANGED request
       ELSE Exit("error", open)
    /\ reply' = NoReply
    /\ UNCHANGED Others

\* telemetry.Init: nothing when it is disabled; the collector is probed first.
InitTelemetry ==
    /\ phase = "telemetry"
    /\ \/ ~Config.otel.enabled /\ Proceed("store", open) /\ UNCHANGED request
       \/ Config.otel.enabled /\ Proceed("providers", open) /\ UNCHANGED request
       \/ Config.otel.enabled /\ Exit("error", open)
    /\ reply' = NoReply
    /\ UNCHANGED Others

\* newTracerProvider, newMeterProvider and newLoggerProvider, each with an
\* exporter of its own.  When one cannot be built, those before it are shut
\* down.
NewProvider ==
    /\ phase = "providers"
    /\ \/ \E n \in 1 .. Len(Providers) :
             /\ \A i \in 1 .. Len(Providers) : Providers[i] \in open <=> i < n
             /\ Proceed(IF n < Len(Providers) THEN "providers" ELSE "store",
                        open \cup {Providers[n]})
             /\ UNCHANGED request
       \/ Exit("error", open \ Telemetry)
    /\ reply' = NoReply
    /\ UNCHANGED Others

\* buildDependencies fails, after closing what it built before: telemetry is
\* shut down as well.
DependenciesFail(built) == Exit("error", (open \ built) \ Telemetry)

\* NewStore.  A Redis client that cannot be instrumented is not closed.
BuildStore ==
    /\ phase = "store"
    /\ \/ /\ Config.selector.type \in {"memory", "redis", "dynamodb"}
          /\ Proceed("selector", open \cup {"store"}) /\ UNCHANGED request
       \/ Config.selector.type = "redis" /\ Exit("error", (open \cup {"store"}) \ Telemetry)
       \/ Config.selector.type \in {"", "dynamodb"} /\ DependenciesFail({})
    /\ reply' = NoReply
    /\ UNCHANGED Others

\* NewSelector: at least one app.
BuildSelector ==
    /\ phase = "selector"
    /\ IF Config.apps # {} THEN Proceed("audit", open) /\ UNCHANGED request
       ELSE DependenciesFail({"store"})
    /\ reply' = NoReply
    /\ UNCHANGED Others

\* NewDB: the database is out of reach, or gorm's plugin cannot be registered
\* on the open connection, which is then not closed.
NewDBFails ==
    \/ DependenciesFail({"store"})
    \/ Exit("error", ((open \cup {"audit"}) \ {"store"}) \ Telemetry)

\* NewDynamoDB: the AWS configuration cannot be loaded.  The store has loaded
\* it before if it is DynamoDB too.
NewDynamoDBFails ==
    /\ Config.selector.type # "dynamodb"
    /\ DependenciesFail({"store"})

\* NewBackend
BuildAudit ==
    /\ phase = "audit"
    /\ \/ Proceed("service", open \cup {"audit"}) /\ UNCHANGED request
       \/ Config.audit.backend = "sql" /\ NewDBFails
       \/ Config.audit.backend = "dynamodb" /\ NewDynamoDBFails
    /\ reply' = NoReply
    /\ UNCHANGED Others

\* NewValidator: an audience and at least one issuer.
ValidatorIsConfigured == Config.audience # "" /\ Config.policy.providers # {}

\* NewService: apart from the validator, every app's key must be read; then
\* the revocation loop starts.
BuildService ==
    /\ phase = "service"
    /\ \/ /\ ValidatorIsConfigured /\ Config.apps # {}
          /\ Proceed("handler", open \cup {"loop"}) /\ UNCHANGED request
       \/ DependenciesFail({"audit", "store"})
    /\ reply' = NoReply
    /\ UNCHANGED Others

\* The closers are known; an instrument that cannot be registered ends the
\* process with telemetry shut down and the rest open.
BuildHandler ==
    /\ phase = "handler"
    /\ \/ /\ phase' = "listen" /\ closers' = Closers
          /\ UNCHANGED <<exit, open, failed, request>>
       \/ Exit("error", open \ Telemetry)
    /\ reply' = NoReply
    /\ UNCHANGED Others

Listen ==
    /\ phase = "listen"
    /\ \/ Proceed("tls", open \cup {"listener"}) /\ UNCHANGED request
       \/ Exit("error", open)
    /\ reply' = NoReply
    /\ UNCHANGED Others

\* With TLS, a certificate that cannot be loaded closes the listener.
LoadCertificate ==
    /\ phase = "tls"
    /\ \/ Proceed("serving", open) /\ UNCHANGED request
       \/ TLSEnabled(Config.server) /\ Exit("error", open \ {"listener"})
    /\ reply' = NoReply
    /\ UNCHANGED Others

------------------------------------------------------------------------------
(* The end of serve *)

\* Serve returned an error.
ServeFails ==
    /\ phase = "serving"
    /\ Exit("error", open)
    /\ reply' = NoReply
    /\ UNCHANGED Others

\* A kill, or a signal before serve asked to be notified of it.
Killed ==
    /\ phase # "ended"
    /\ Exit("error", open)
    /\ reply' = NoReply
    /\ UNCHANGED Others

\* SIGINT or SIGTERM: Shutdown closes the listener.
Signal ==
    /\ phase = "serving"
    /\ Proceed("draining", open \ {"listener"})
    /\ reply' = NoReply
    /\ UNCHANGED <<Others, request>>

\* Shutdown has seen every connection idle.
Drained ==
    /\ phase = "draining"
    /\ \A r \in Requests : ~Active(r)
    /\ Proceed("closing", open)
    /\ reply' = NoReply
    /\ UNCHANGED <<Others, request>>

DrainTimeout_Closes ==
    /\ phase = "draining"
    /\ \E r \in Requests : Active(r)
    /\ Proceed("closing", open)
    /\ reply' = NoReply
    /\ UNCHANGED <<Others, request>>

DrainTimeout_Never ==
    /\ FALSE
    /\ UNCHANGED vars

\* WaitTimeout is over first: serve returns without running the closers.
DrainTimeout ==
    /\ phase = "draining"
    /\ \E r \in Requests : Active(r)
    /\ Exit("error", open)
    /\ reply' = NoReply
    /\ UNCHANGED Others

\* Service.Close cancels the loop and closes the audit backend; the store
\* and the three telemetry providers have closers of their own.
ClosedBy(closer) ==
    CASE closer = "service" -> {"loop", "audit"}
      [] closer = "store" -> {"store"}
      [] closer = "telemetry" -> Telemetry

\* The resources whose Close or Shutdown may return an error; for the others
\* it does nothing.
MayFail ==
    (IF Config.audit.backend = "sql" THEN {"audit"} ELSE {})
        \cup (IF Config.selector.type = "redis" THEN {"store"} ELSE {})
        \cup Telemetry

\* A closer closes its resources, except those of left, for which it fails.
Close(closer, left) ==
    /\ open' = (open \ ClosedBy(closer)) \cup left
    /\ failed' = failed \cup left

CloseNext_StopsOnError ==
    /\ phase = "closing" /\ closers # <<>>
    /\ \E left \in SUBSET (ClosedBy(Head(closers)) \cap open \cap MayFail) :
          Close(Head(closers), left) /\ closers' = IF left = {} THEN Tail(closers) ELSE <<>>
    /\ reply' = NoReply
    /\ UNCHANGED <<phase, exit, request, Others>>

CloseNext_LastFirst ==
    /\ phase = "closing" /\ closers # <<>>
    /\ Close(closers[Len(closers)], {})
    /\ closers' = SubSeq(closers, 1, Len(closers) - 1)
    /\ reply' = NoReply
    /\ UNCHANGED <<phase, exit, request, Others>>

\* close runs the next closer; an error is logged and the rest still run.
CloseNext ==
    /\ phase = "closing" /\ closers # <<>>
    /\ \E left \in SUBSET (ClosedBy(Head(closers)) \cap open \cap MayFail) :
          Close(Head(closers), left)
    /\ closers' = Tail(closers)
    /\ reply' = NoReply
    /\ UNCHANGED <<phase, exit, request, Others>>

CloseDone ==
    /\ phase = "closing" /\ closers = <<>>
    /\ Exit("ok", open)
    /\ reply' = NoReply
    /\ UNCHANGED Others

------------------------------------------------------------------------------
(* Routing and replies *)

Paths == [name: {"", "health", "info", "exchange", "other"}, slashes: 0 .. 1]

\* stripTrailingSlashes, except from the root, which is one slash.
NormalizePath(path) == [path EXCEPT !.slashes = IF path.name = "" THEN 1 ELSE 0]

\* The status of a request that the router answers itself, 0 for an exchange.
\* Health is answered before the origin is looked at; the other routes are
\* below /api/v1, where the header must have the shared value.
Route(path, origin) ==
    LET name == IF NormalizePath(path).slashes = 0 THEN path.name ELSE "" IN
    CASE name = "health" -> 200
      [] name = "" -> 404
      [] OTHER -> IF Config.origin.enabled /\ origin # Config.origin.headerValue THEN 403
                  ELSE CASE name = "info" -> 200 [] name = "exchange" -> 0 [] OTHER -> 404

HttpStatusCode(code) ==
    CASE code = "ok" -> 200
      [] code = "INVALID_REQUEST" -> 400
      [] code = "INVALID_TOKEN" -> 401
      [] code = "RATE_LIMITED" -> 429
      [] code \in {"POLICY_NOT_FOUND", "REPOSITORY_NOT_FOUND"} -> 404
      [] code = "GITHUB_API_ERROR" -> 502
      [] code \in {"POLICY_LOAD_FAILED", "INTERNAL_ERROR", "panic"} -> 500
      [] OTHER -> 403

\* writeError, or the token: Retry-After is for rate limits only.
Reply(code) == [status |-> HttpStatusCode(code), retryAfter |-> code = "RATE_LIMITED"]

\* The handler of r replies and returns.
Answer(r, code) ==
    /\ request' = [request EXCEPT ![r] = NoRequest]
    /\ reply' = Reply(code)

Accepting == phase \in {"serving", "draining"}

\* The router answers by itself.
ServeRoute(path, origin) ==
    /\ Accepting
    /\ ops < MaxOps /\ ops' = ops + 1
    /\ Route(path, origin) # 0
    /\ reply' = [status |-> Route(path, origin), retryAfter |-> FALSE]
    /\ UNCHANGED <<file, migrationVars, processVars, provider, request, clock>>

\* SanitizedInputErrorHandler: the body of an exchange cannot be decoded.
RejectInput(path, origin) ==
    /\ Accepting
    /\ ops < MaxOps /\ ops' = ops + 1
    /\ Route(path, origin) = 0
    /\ reply' = Reply("INVALID_REQUEST")
    /\ UNCHANGED <<file, migrationVars, processVars, provider, request, clock>>

\* An exchange begins, under the id the client sent or a new one, if
\* validateRequest has nothing against it.
BeginExchange(r, path, origin, id, valid) ==
    /\ Accepting
    /\ ops < MaxOps /\ ops' = ops + 1
    /\ Route(path, origin) = 0
    /\ request[r].pc = "idle"
    /\ IF valid
       THEN /\ request' = [request EXCEPT ![r] = [NoRequest EXCEPT !.pc = "oidc",
                                                    !.n = ops + 1, !.id = id]]
            /\ reply' = NoReply
       ELSE reply' = Reply("INVALID_REQUEST") /\ UNCHANGED request
    /\ UNCHANGED <<file, migrationVars, processVars, provider, clock>>

------------------------------------------------------------------------------
(* Validator.Validate *)

requestFrame == <<file, migrationVars, ops, processVars, clock>>

\* The token is refused for its issuer, or its issuer's provider is looked up.
LookUpProvider(r) ==
    /\ request[r].pc = "oidc"
    /\ \/ Answer(r, "INVALID_TOKEN")
       \/ /\ request' = [request EXCEPT
                ![r].pc = IF provider = NoProvider THEN "discover" ELSE "verify",
                ![r].provider = provider]
          /\ reply' = NoReply
    /\ UNCHANGED <<requestFrame, provider>>

\* NewProvider: discovery makes a provider of its own, or fails.
Discover(r) ==
    /\ request[r].pc = "discover"
    /\ \/ Answer(r, "INVALID_TOKEN")
       \/ /\ request' = [request EXCEPT ![r].pc = "store", ![r].provider = request[r].n]
          /\ reply' = NoReply
    /\ UNCHANGED <<requestFrame, provider>>

StoreProvider_Overwrites(r) ==
    /\ request[r].pc = "store"
    /\ provider' = request[r].provider
    /\ request' = [request EXCEPT ![r].pc = "verify"]
    /\ reply' = NoReply
    /\ UNCHANGED requestFrame

\* LoadOrStore: the first provider stays and is the one to use.
StoreProvider(r) ==
    /\ request[r].pc = "store"
    /\ provider' = IF provider = NoProvider THEN request[r].provider ELSE provider
    /\ request' = [request EXCEPT ![r].pc = "verify", ![r].provider = provider']
    /\ reply' = NoReply
    /\ UNCHANGED requestFrame

\* Verify; the subject of a valid token may be empty.
Verify(r) ==
    /\ request[r].pc = "verify"
    /\ \/ Answer(r, "INVALID_TOKEN")
       \/ \E subject \in {"", "subject"} :
             /\ request' = [request EXCEPT ![r].pc = "decide", ![r].subject = subject,
                                           ![r].provider = NoProvider]
             /\ reply' = NoReply
    /\ UNCHANGED <<requestFrame, provider>>

------------------------------------------------------------------------------
(* The decision and its audit entry *)

\* Authorization, selection of an app and the mint: granted or refused.
Decide(r) ==
    /\ request[r].pc = "decide"
    /\ \E code \in Denials \cup {"ok"} :
          request' = [request EXCEPT ![r].pc = "audit", ![r].code = code]
    /\ reply' = NoReply
    /\ UNCHANGED <<requestFrame, provider>>

EntryOf(r, time) ==
    [n |-> request[r].n, id |-> request[r].id, time |-> time, caller |-> request[r].subject,
     outcome |-> IF request[r].code = "ok" THEN "granted" ELSE "denied"]

\* AuditEntry.Validate: the caller may be missing; the other fields it asks
\* for are there in every entry of the service.
ValidEntry(e) == e.caller # ""

SqlLog_Upserts(e) == IF table THEN {x \in entries : x.id # e.id} \cup {e} ELSE entries

\* SQLLogger.Log: an insert under a unique index on the request id.
SqlLog(e) ==
    IF table /\ \A x \in entries : x.id # e.id THEN entries \cup {e} ELSE entries

\* DynamoDBLogger.Log: PutItem, whose key is request id and time.
DynamoDBLog(e) == {x \in entries : x.id # e.id \/ x.time # e.time} \cup {e}

\* The ExpiresAt that DynamoDBLogger.Log gives its item has passed.  With
\* ttl_days 0 it gives none.
Expired(e, time) ==
    LET ttlDays == Config.audit.dynamodb.ttlDays IN
    ttlDays > 0 /\ time > e.time + ttlDays * Day

\* Log: the entries afterwards, without e when it was refused.
Log(e) ==
    IF ~ValidEntry(e) THEN entries
    ELSE CASE Config.audit.backend = "sql" -> SqlLog(e)
           [] Config.audit.backend = "dynamodb" -> DynamoDBLog(e)
           [] OTHER -> entries \cup {e}

\* auditGranted, whose failure refuses the exchange, or auditDenied, whose
\* failure is only logged.  A write may fail in any case.
Audit(r) ==
    /\ request[r].pc = "audit"
    /\ \E time \in {clock, clock + 1} \cap 0 .. MaxClock :
          /\ clock' = time
          /\ \/ entries' = Log(EntryOf(r, time))
             \/ Config.audit.backend # "" /\ entries' = entries
          /\ LET granted == request[r].code = "ok" /\ EntryOf(r, time) \in entries' IN
             request' = [request EXCEPT
                ![r].pc = "reply", ![r].subject = "", ![r].granted = granted,
                ![r].code = IF @ = "ok" /\ ~granted THEN "INTERNAL_ERROR" ELSE @]
    /\ reply' = NoReply
    /\ UNCHANGED <<file, schemaVars, command, ops, processVars, provider>>

\* DynamoDB deletes an item some time after its ExpiresAt, whether or not a
\* server runs.
ExpireEntry(e) ==
    /\ Config.audit.backend = "dynamodb"
    /\ \E time \in clock .. MaxClock : Expired(e, time) /\ clock' = time
    /\ entries' = entries \ {e}
    /\ reply' = NoReply
    /\ UNCHANGED <<file, schemaVars, command, ops, processVars, provider, request>>

\* The handler replies.
Respond(r) ==
    /\ request[r].pc = "reply"
    /\ Answer(r, request[r].code)
    /\ UNCHANGED <<requestFrame, provider>>

\* The handler panics: it counts the panic and panics again, and the logger's
\* middleware answers 500.
Panic(r) ==
    /\ Active(r)
    /\ Answer(r, "panic")
    /\ UNCHANGED <<requestFrame, provider>>

------------------------------------------------------------------------------
Init ==
    /\ MigrationsInit
    /\ phase = "load" /\ exit = "none" /\ open = {} /\ closers = <<>> /\ failed = {}
    /\ provider = NoProvider
    /\ request = [r \in Requests |-> NoRequest]
    /\ reply = NoReply
    /\ clock = 0

\* What the process does of itself.
ProcessStep ==
    \/ LoadConfig \/ InitTelemetry \/ NewProvider \/ BuildStore \/ BuildSelector \/ BuildAudit
    \/ BuildService \/ BuildHandler \/ Listen \/ LoadCertificate
    \/ Drained \/ DrainTimeout \/ CloseNext \/ CloseDone

RequestStep(r) ==
    \/ LookUpProvider(r) \/ Discover(r) \/ StoreProvider(r) \/ Verify(r)
    \/ Decide(r) \/ Audit(r) \/ Respond(r) \/ Panic(r)

Next ==
    \/ ProcessStep \/ Signal \/ ServeFails \/ Killed
    \/ \E path \in Paths, origin \in {"", "secret"} :
          \/ ServeRoute(path, origin)
          \/ RejectInput(path, origin)
          \/ \E r \in Requests, id \in ClientIds \cup {ops + 1}, valid \in BOOLEAN :
                BeginExchange(r, path, origin, id, valid)
    \/ \E r \in Requests : RequestStep(r)
    \/ \E e \in entries : ExpireEntry(e)
    \/ \E m \in Migrators :
          MigrateStep(m) /\ reply' = NoReply /\ UNCHANGED <<processVars, provider, request, clock>>

\* Go runs the process's own goroutine; requests, operators and signals may
\* stop at any point.
Spec == Init /\ [][Next]_vars /\ WF_vars(ProcessStep)

------------------------------------------------------------------------------
(* Properties *)

\* A handler never runs on something closed: while a request is handled, in
\* the middle of a shutdown too, the store, the audit backend, the
\* revocation loop and telemetry are open (server.go:177-186; bootstrap.go:63).
HandlersHaveOpenResources ==
    (\E r \in Requests : Active(r)) =>
        /\ {"store", "audit", "loop"} \subseteq open
        /\ Config.otel.enabled => Telemetry \subseteq open

\* A process that ends without error has cut off no request and has closed
\* everything it opened: the revocation loop and the listener in any case, the
\* rest unless its own closer failed, whatever becomes of the closers before
\* it (server.go:180-197).
CleanExit ==
    exit = "ok" =>
        /\ open \subseteq failed
        /\ open \cap {"loop", "listener"} = {}
        /\ \A r \in Requests : request[r].pc # "cut"

\* A signal ends the process even when handlers never return (server.go:177).
ShutdownEnds == phase = "draining" ~> phase = "ended"

\* Once the server accepts requests, its configuration has what the other
\* modules assume of it: an app, an issuer, a store, TTLs in order, hours of
\* the day and a shared value if the origin is checked (config.go:67-88;
\* bootstrap.go:30-67; sts.go:136-151).
ServingIsConfigured ==
    Accepting =>
        LET c == Config IN
        /\ c.apps # {} /\ c.policy.providers # {}
        /\ c.selector.type \in {"memory", "redis", "dynamodb"}
        /\ c.policy.defaultTTL \in 1 .. c.policy.maxTTL
        /\ \A p \in c.policy.providers :
              p.time # Absent /\ p.time.hours # Absent =>
                  p.time.hours.start \in 0 .. 23 /\ p.time.hours.end \in 0 .. 23
        /\ c.origin.enabled => c.origin.headerValue # ""

\* All requests verify tokens of an issuer with the one provider that is
\* cached, and so with its keys, however their discoveries overlap
\* (validator.go:138-151).
ProviderIsShared ==
    \A r \in Requests : request[r].pc = "verify" => request[r].provider = provider

\* A token is delivered only with its entry logged, and an entry stays as it
\* was written.  A SQL entry is dropped by a rollback only; one in DynamoDB
\* leaves once its ttl_days are over, or when another of the same id and second
\* takes its place; the console's entries stay (sts.go:391; sql.go:44;
\* dynamodb.go:57-67; migrate.go:111).
DeliveredStaysAudited ==
    [][/\ \A r \in Requests :
             (request[r].pc = "reply" /\ request'[r].pc = "idle" /\ reply'.status = 200) =>
                request[r].granted
       /\ \A e \in entries \ entries' :
             \/ /\ Config.audit.backend = "sql"
                /\ \E m \in Migrators : command[m].kind = "down" /\ command[m].pc = "run"
             \/ /\ Config.audit.backend = "dynamodb"
                /\ \/ Expired(e, clock')
                   \/ \E x \in entries' : x.id = e.id /\ x.time = e.time]_vars

\* When up reports success the audit table is there, whatever other migrate
\* processes do and wherever they were interrupted, unless the version was
\* forced since (migrate.go:73-90, 207-214).
UpMeansMigrated ==
    [][\A m \in Migrators :
         (/\ command[m].pc # "idle" /\ command[m].kind = "up"
          /\ command'[m].pc = "idle" /\ command'[m].result = "ok"
          /\ ~forced') => table']_vars
==============================================================================
