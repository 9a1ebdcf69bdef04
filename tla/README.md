# A TLA+ model of GATE

GATE (GitHub Authenticated Token Exchange) is a security token service: a caller
presents an OIDC token and the name of a repository, GATE decides from a central
configuration and from a trust policy file in that repository what the caller may
have, mints a GitHub App installation token with those permissions, records the
grant in an audit log, hands the token out and revokes it when its time is up.

This directory models the parts of the program that carry that promise, checks them
with TLC on small instances, and proves the safety properties with TLAPS for every
value of the constants. `PROJECT.json` maps each definition to the lines it stands
for.

## 1. Inventory

| Component | State | Operations | Talks to |
|---|---|---|---|
| Exchange service `internal/sts` | token tracker (map of hash to token and expiry), revocation ticker | `Exchange`, `revokeExpiredTokens`, `Close` | OIDC validator, authorizer, selector, GitHub client, audit |
| Authorizer `internal/sts/authorizer` | none but the policy cache | `Authorize` in two layers: central configuration, trust policy | policy fetch |
| Policy fetch and cache | cached policy files, a singleflight group | `fetchPolicy`, `policyCache.get/set` | selector, GitHub client |
| App selector `internal/sts/selector` | last known rate limit of each app, in memory, Redis or DynamoDB, shared by replicas | `SelectApp`, `RecordUsage`, `RetryAfter` | store backends |
| GitHub client `internal/clients/github` | installation id cache, contents token cache, two singleflight groups | `RequestToken`, `RevokeToken`, `RateLimit`, `GetContents` | GitHub, through the retry transport |
| Retry transport | none | `RoundTrip` with backoff | GitHub |
| Audit `internal/sts/audit` | the log (console, SQL, DynamoDB) | `Log`, `Close` | databases |
| OIDC validator `internal/sts/oidc` | verifiers per issuer | `Validate` | issuers |
| Server `cmd/server` | listener, closers | `Init`, `serve`, `close`, handlers, middlewares | all of the above |
| Configuration `internal/config` | the configuration of the process | `Load`: defaults, then `Validate` of every section | |
| Database `internal/db`, `cmd/db` | connections, `schema_migrations`, the table `audit_logs` | `NewDB`, `NewDynamoDB`, `migrate up`, `down`, `force`, `version` | audit |
| Telemetry, logger | exporters | `Init`, shutdown | collector |

What is hard here:

* *Concurrency.* Exchanges run concurrently with each other, with the revocation
  loop (which works on a snapshot of the tracker and revokes in parallel) and with
  other replicas that share the rate-limit store.
* *Failure.* The exchange has side effects at GitHub (a token exists) before it has
  its own (the token is tracked, audited). Each later step may fail, the process may
  end anywhere, and the tracker is in memory only.
* *Ordering.* Rate limits are observed and recorded in separate steps; so are reading
  a policy file and caching it.
* *Life of the process.* Dependencies are built one by one and each failure has its own
  clean-up; a shutdown drains requests under a deadline, then closes what they used;
  migrations run beside the server on the same database and may be cut off.
* *Time.* TTLs from three sources, GitHub's own expiry, cache and store expiries,
  rate-limit windows, hour windows that wrap at midnight.

What makes each component correct:

* *Exchange:* no token is handed out unaudited; no working token is forgotten while
  the process lives; none is revoked before the expiry its holder was told; no
  lifetime exceeds the central maximum; every request ends.
* *GitHub client:* no token is sent after its expiry, a refused token is not handed to
  others, a fresh one is not lost, the installation id used was right recently, and
  nobody waits for a flight that is over.
* *Server:* handlers never use what is closed, a clean exit leaves nobody cut off and
  open only what its own closer failed to close, a signal ends the process, and it serves
  only with a configuration the rest can rely on.
* *Audit and migrations:* a delivered token keeps its entry until that expires or the
  table is rolled back; `migrate up` reports success only with the table in place.
* *Authorizer:* what is granted is within both layers, and some policy really matched.
* *Selector:* the store behaves as a register that keeps the freshest observation
  and forgets only what is over; a caller is sent away only when every app of the owner
  is really used up, and the retry-after that comes with it is exact.
* *Policy fetch:* what is served is recent, and a late fetch never undoes a newer one.

The hazards in `PROJECT.json` list each of these at the line where it bites.

## 2. Modules

| Module | Models | State and actions |
|---|---|---|
| `TokenLifetime` | TTL arithmetic: `PolicyConfig.Validate` (TTL part), `validateRequest`, `resolveTTL`, `capExpiry` | operators only; the configuration check is its assumption |
| `TokenExchange` | `sts.go`, `tracker.go` | below |
| `Authorizer` | `authorizer.go`, `provider.go`, `match.go`, `permission.go`, `policy.go` | one action, `Authorize`, from an input to a `Result` |
| `RateLimitRegister` | what the `selector.Store` interface promises | abstract register per app: `Record`, `Forget`, `Advance` |
| `Selector` | `selector.go`, `types.go`, the three store backends | refines `RateLimitRegister` |
| `PolicyFetch` | `policy_fetch.go`, `policy_cache.go` | cache, flights, calls, the file in the repository |
| `GitHubClient` | `client.go`, `types.go`, `retry.go`, `utils.go` of `internal/clients/github` | the two caches, the two flights, calls, installations at GitHub |
| `Configuration` | `internal/config` | operators only: `WithDefaults`, one validator per section, `Valid` |
| `Migrations` | `cmd/db/migrate.go`, `NewDBMigrator`, the SQL files | the schema's version and dirty flag, the table, the lock, the commands; extends `Configuration` |
| `Server` | `cmd/server`, `internal/telemetry`, the OIDC validator's cache, the audit backends | phase, open resources, closers, requests; extends `Migrations` and composes with it on the audit table |
| `MC*` | | constants and symmetry for TLC |
| `TokenExchangeProofs`, `AuthorizerProofs`, `SelectorProofs`, `PolicyFetchProofs`, `GitHubClientProofs`, `ServerProofs` | | the inductive invariants and theorems about the module each is named after; `ServerProofs` covers `Configuration` and `Migrations` too |
| `NaturalFacts` | | lemmas about minima, division and multiples, for the proofs |

**TokenExchange.** A request walks through `Begin` (validateRequest), `ValidateOIDC`,
`Authorize`, `SelectApp`, `MintToken` or `MintReplyLost` or `MintFails`,
`QueryRateLimit`, `RecordToken`, `AuditGranted`, `ReturnToken`; every early return is
a disjunct that ends in `Deny` or `Answer` with its code. Steps are cut where the
goroutine waits for something outside the process. The loop has a one-place ticker
channel (`ticked`), takes its snapshot (`StartPass`, `GetExpired`), and hands tokens to
at most `RevocationConcurrency` revocations at a time, each of which succeeds or fails.
The process may be signalled, close, crash and start again, which empties the tracker.
While the server drains, a kept-alive connection may still bring a new exchange.
GitHub is external: it mints a token, lets it expire, revokes it. A reply lost under
the retry transport leaves a token nobody was told about. `RevokeToken` takes any 401 as
success; the model takes it to mean that the token is dead. How long GitHub needs until
it knows a new token everywhere is not in this code, and a token is revoked at least a
TTL after it was minted.

**Authorizer.** A regular expression is the set of values it matches, a Go map a
function on its keys; a claim is given by what its literal and its dotted lookup find.
Go's map order makes the first denial of several nondeterministic, so the result is
any of them. A request without a repository is one of the inputs, though `validateRequest`
stops it before it gets here: `Authorize` answers it by itself.

**Selector.** A worker starts to select, reads the store (all at once for the memory
store, key by key for Redis, in pages for DynamoDB), chooses, uses the app, asks GitHub
what is left, records. The accepting condition of each backend is its own definition:
`MemoryAccepts` (Go), `LuaAccepts` (the Redis script), `ConditionHolds` (the DynamoDB
condition expression). DynamoDB's Scan is not a consistent read: besides the table there
is a replica (`lagging`) that `Replicate` brings up to date at any time, and each read
returns either copy. GitHub ends a window at its reset, the code's `IsExpired` only after
it, and `RefusalIsTrue` names that instant. Time is in half seconds, because retry-after
truncates.

**PolicyFetch.** A call looks into the cache, joins a flight or leads one, looks again,
selects an app, reads the path variants in turn, validates, stores, and ends the flight
for all who wait. A policy is the number of the commit that wrote it, so old and new can
be told apart. The fetch runs in the leader's context; `FetchFails` includes its
cancellation and reaches every waiter.

**GitHubClient.** A call ends a step where it takes a lock, joins a flight or waits for
GitHub. A cache's `get` is two steps, the look under the read lock (`GetToken`, `GetId`)
and the second look under the write lock when the entry was over (`DropToken`, `DropId`);
the leader of a flight asks the cache again (`GetTokenAgain`, `GetIdAgain`). A lookup may
be part of a mint, so `Fail` ends the lookup's waiters and those who wait for their mints.
`Retry` is one more attempt of the transport; error replies take effect at the last
attempt. `Abort` is every other error, cancellation of the leader included. A store for
some other account in a full cache appears as `Evict`. Uninstalling and installing again
(with a new id) are GitHub's. A contents token is also refused, with the same
`ErrInstallationNotFound`, when GitHub answers 422 because the app lacks the permission
(`MayLackContents`).

**Configuration, Migrations, Server.** One configuration file, chosen initially, is read
by all processes: the server and those that run `gate db migrate`. `LoadConfig` validates
it with its defaults; `InitTelemetry`, `NewProvider`, `BuildStore`, `BuildSelector`,
`BuildAudit`, `BuildService`, `BuildHandler`, `Listen` and `LoadCertificate` each go on
with one more resource open or end the process with what that failure leaves open (a
Redis client or a database connection that cannot be instrumented is not closed, for
example). While serving, the router answers (`ServeRoute`, `RejectInput`) or an exchange
begins; it looks up the issuer's provider (`LookUpProvider`, `Discover`,
`StoreProvider`), verifies, decides (a choice here: `TokenExchange` and `Authorizer` are
about it), writes its audit entry through one of the three backends and replies. `Signal`
drains, `DrainTimeout` is `wait_timeout`, `CloseNext` runs the closers in order; each may
fail, and then leaves open (`failed`) what it could not close. An item in the DynamoDB
audit table carries an expiry, after which `ExpireEntry` deletes it. A
migrate command takes golang-migrate's lock, marks the target dirty, runs the SQL, marks
it clean, and can be interrupted before each of these; entries live in the table it
creates and drops. `forced` records that an operator set the version by hand.

## 3. Runs

| Run | Question | Result |
|---|---|---|
| `exchange_safety` | two exchanges, two tokens, failing audits and revocations, lost replies, one end of the process: are tokens audited, tracked, bounded and usable? | pass |
| `exchange_lifetime` | does a delivered token die within the maximum plus one interval while the process lives and revocation works? | pass |
| `exchange_lifetime_restart` | and when the process ends? | violation |
| `exchange_liveness` | do overdue tokens die and requests end, under fairness? | pass |
| `authorizer` | is each grant within both layers, witnessed, not empty, with a TTL within all limits? | pass |
| `authorizer_default_ttl` | does an omitted TTL default to the policy's? | violation |
| `selector` | two workers, two apps, Redis: is the store a freshest-observation register, is no app chosen that was known to be used up, is a caller sent away only when all apps are? | pass |
| `selector_windows` | one worker, all stores, past the end of windows and of store TTLs, with a DynamoDB replica that lags: is nothing current forgotten, is every refusal true, is retry-after exact? | pass |
| `policy_fetch` | two calls, two keys, a cache of one, one edit per file: is what is served recent, does the cache never go back, does it stay within its capacity? | pass |
| `github_client` | two calls, one account, both caches and flights, reinstallation: is no dead token sent, no refused one kept, no fresh one lost, no stale installation used for long, nobody left waiting? | pass |
| `github_reinstalled` | does ErrInstallationNotFound mean that there is no installation? | violation |
| `server` | the process from file to exit with two requests, two migrate processes, signals, kills and failures: the properties of server, audit and migrations above | pass |

The three violations are disagreements between the documentation and the code, not
crashes; `PROJECT.json` quotes both sides. The tracker is lost with the process, so a
token delivered before a restart lives until GitHub's own hour is over, though the
README states a maximum. An omitted TTL takes the central default, which the policy's
`token_ttl` can only lower. After the app was removed from an account and installed
again, the cached id of the old installation makes calls for that account fail with
`ErrInstallationNotFound` for up to 24 hours, although its comment says that it means
there is no installation: the id is not dropped when minting with it fails. (A 422 gets
the same error; that run leaves it out, so that what it shows is the reinstallation.)

Two more disagreements are built into the properties rather than given a run. The
repository's README says "Every token request generates an audit entry" (line 66);
requests refused with `INVALID_REQUEST` or `INVALID_TOKEN` are answered before any audit
call, and `FinishedRequestsAudited` leaves them out. A dirty version is reported with the
advice to `force` it, but after a rollback that was cut off it is -1, which the unsigned
flag cannot say, and forcing 1 instead lets the next `up` report success without a table:
`UpMeansMigrated` is stated for schemas whose version was not forced.

**Bounds.** Two actors are enough for every race above, since each is between a writer
and one other; two tokens let the loop work on one while the other is recorded; two
keys with a cache of one make every store evict. Times are scaled: the maximum TTL
against GitHub's lifetime and the interval keep their order, and GitHub's lifetime is
longer than the maximum in all exchange runs, so that a TTL over the maximum is not hidden
by GitHub's own expiry; the policies of `exchange_safety` name shorter and longer TTLs
than the maximum. `MaxTime` lets every window, TTL or interval end at least
once and be seen over. `MaxStops`, `MaxVersion` bound ends of the process and edits.
`PromptRevoker` and `RevocationMayFail` select an environment: `exchange_lifetime`
states its bound for a loop that keeps up and a GitHub that revokes; the safety and
liveness runs assume neither. `BufferCoversRequests` (the cache's buffer is longer than two
requests) is true of the run and of the defaults, five minutes and 30 seconds, but
`request_timeout` has no upper bound in the configuration; it is what `SentBeforeExpiry`
rests on, because a token may be shared with a call that came to wait for it and then be
sent by that call. One account that is a user's makes a lookup go
through both endpoints; accounts share nothing but the size of the caches, which `Evict`
stands for. With two calls an error reaches a waiter of either group; the chain of three
(a mint waits for a lookup, and a third call for the mint) is not in the run. In `server`,
`MaxOps` = 2 bounds requests and migrate commands together: two requests that overlap
(same id, both discovering the issuer), two migrate processes, or a migration beside a
request are all within it. `MCFiles` has a file for each backend and switch, for each
constructor that refuses what the validators accept, and for the validators that matter
to `ServingIsConfigured`. `MaxClock` = 2 with a `Day` of one tick lets two entries fall into
one second or two, and an entry of DynamoDB expire. The selector runs keep
`ItemsOutliveWindows` (the DynamoDB item TTL is longer than a window), which is true of the
default of 120 minutes against 60 but is not enforced by the configuration: with less, the
store forgets windows that are not over. Symmetry over requests, tokens, workers, apps,
calls and keys is used in safety runs only.

**Fairness.** Weak fairness of a request's steps: goroutines are scheduled and every
outside call has a timeout. Weak fairness of the ticker, the clock and the loop. Strong
fairness of a successful revocation: GitHub may refuse any number of times but not for
ever. In `server`, weak fairness of the process's own steps only (`ProcessStep`): its main
goroutine is scheduled and `wait_timeout` expires; requests need not get on, so
`ShutdownEnds` holds with handlers that never return. No fairness for the arrival of requests or the end of the process.

## 4. Proofs

Every safety property that a run checks, invariant or action property, and the
refinement of the rate-limit register are theorems: for any number of requests, tokens,
calls, accounts, workers, apps, repositories and migrate processes,
any inputs of the stated types, and any bounds. The runs came first: each inductive
invariant below was checked by TLC on the run of its module before it was proved. A
theorem has the name of its property with `Always` added (`TypeCorrect` for the type
invariants, `StoreImplementsRegister` for `ImplementsRegister`).

Each proof module states its inductive invariant as a conjunction of named parts, shows
it of `Init`, shows that every action preserves it (one step per action; lemmas say what
an action does to the part of the state that matters), and combines these with `PTL`.

**TokenExchangeProofs.** From `TTLConfigValid` (what `PolicyConfig.Validate` accepts) and
`ExchangeConstants` (types). None of the properties is inductive alone. `TypeInv` adds
that a request in its second half holds a token. `TokenInv` adds that it holds a token of
this process which no other request holds (`HeldReceived`, `HeldDistinct`), that nobody
has seen it before `RecordToken` (`Unrecorded`), that the loop only ever touches overdue
tokens (`OnlyOverdue`, needed because the loop works on a snapshot while the clock runs),
that the expiry is capped from `RecordToken` on (`Capped`), and that a token leaves the
tracker only by being revoked (`NotForgotten`). `AuditInv` adds that a request about to
return has its entry (`GrantLogged`). `LiveTokensAreTracked` then follows from
`NotForgotten`, `UsableUntilExpiry` from `OnlyOverdue` with the bound on the reported
expiry. `ResolvedTTLInRange` is about `resolveTTL` alone.
`LifetimeWithinMaximumAlways` has hypotheses, those of the `exchange_lifetime` run: the
loop is prompt, GitHub revokes what it is asked to, and the process does not end. That
they cannot be dropped is what the `exchange_lifetime_restart` run shows of the last.
Its invariant is about the ticks: a working token that was overdue at a tick is overdue
at the tick of this very moment, which is still in the channel or whose pass still has
the token (`PassInv`). It needs that no working token is recorded past its expiry, and so
that a TTL is at least one (`HasTTL`). The last tick before a time is at most one interval
before it (`MultipleBelow`), which gives the bound.

**GitHubClientProofs.** From `GitHubClientConstants`, where `TokenLifetime > ExpiryBuffer`
is that of the code's numbers, and `NoEntryIsNoToken`; `SentBeforeExpiryAlways` has the
hypothesis `BufferCoversRequests`, the other theorems do without. `FlightInv` says who is in which group: a leader is inside its flight
and only there, a waiter's flight has a leader, a `RequestToken` call takes no part in
the mint group. `WaitersHaveLeaders` follows: a wait for a mint may lead to a wait for a
lookup and no further. `TokenInv` gives every step of a call how long its token has still
to live, more for a token that may be shared than for one about to be sent.
`CacheInv` numbers the tokens: one not yet stored is its minter's alone and newer than
what it replaces, which keeps a refused token out. `IdInv` says how old an installation
id may be in the cache, in a lookup and in a mint.

**PolicyFetchProofs.** From `PolicyFetchConstants`. `FlightInv` is the simpler one of a
single group. `VersionInv` says that what is cached, and what a leader has read, is a
version the file has had, and that the cache does not go back; `AgeInv` bounds the age of a version that was
replaced, in the cache and in a leader's hands. `CacheWithinCapacity` is an argument about
the cardinality of the cache's domain.

**SelectorProofs.** From `SelectorConstants`. `AnswerInv` says of everything that is stored,
in a replica, read by a selection or about to be recorded that, if it is exhausted, its
window is over or is GitHub's own and exhausted there too, and that it is never ahead of
GitHub's window while that one lasts (`Sound`). With it `RefusalIsTrue` holds for every
backend and every item TTL: what is stale may make the selector too generous, never too
strict. `NeverChoosesKnownExhausted` and `StoreImplementsRegister` are the ones that need a
store that does not forget, and have `ItemsOutliveWindows` as hypothesis: `DropInv` says
that a backend drops an entry only after its window, and `KnownInv` follows what every copy of the store knew when a
selection began through its reads, one key at a time, until that window is over.
`RetryAfterIsTight` needs the minimum of a set of
numbers (`LeastNatural`) and that integer division rounds down.
`StoreImplementsRegister` maps each step: an accepted record to `Record`, a dropped entry
to `Forget`, a tick to `Advance`, all others to stuttering.

**AuthorizerProofs.** From `InputsAreTyped`: slices are functions on an initial segment,
hours are hours, TTLs numbers. The invariant is that the result is one of those
`Authorize` can give for its input; the theorems are then about the operators.
`BehindAGrant` says what a grant implies of the two layers; the others use it.
`GrantHasWitness` goes down through both layers to the claims: every check a denial can
come from was passed, and `evaluateRule` is true only of a rule that has a satisfied
condition, and all of them satisfied unless it says OR.
`NamingThePolicyChangesNothing` is that both ways of matching come to the same policy,
since names are unique in a valid file.

**ServerProofs.** From `MigrationsConstants`, `ServerConstants` and `FilesAreTyped` (the
TTLs of a file are numbers). `OpenInv`, `ConfigInv` and `ClosingInv` give the resources
that are open, what is known of the configuration and the closers still to run, each as a
function of the phase, and in a closing process that what is open was left by a closer
that failed or has its closer still to come; `RequestInv` says that requests are under way only while the
server serves or drains and what each has got so far. `BuildSteps` and `EndSteps` show
that every step of the process either ends it or goes on with these (`Ends`,
`ProcessMoves`). `MigrationInv` says that who runs a migration holds the lock and has
marked the version dirty (and `CommandInv` that it does so only for a SQL backend, which is
why entries elsewhere are safe from a rollback), that `up` only goes to version 1, and that outside of a
migration a version that was not forced tells whether the table is there.

Only model-checked: `OverdueTokensDie`, `RequestsEnd` and `ShutdownEnds`, which are
liveness under fairness and out of the prover's reach. The three runs that expect a
violation are counterexamples and have nothing to prove.

The proofs changed the model in a few places. Assumptions were named that the models had
left implicit: `TokenLifetime > ExpiryBuffer` (without it a fresh token is at once too old
for the cache), the types of the authorizer's inputs and of a file's TTLs, special
values that are not ordinary ones. `HoursGoAroundTheClock` is now stated of every input
rather than of the run's hours. `NewProvider` says with a quantifier which provider is
next, and `TypeOK` of `Server` lists what is left of the closers.

## 5. Plan

1. Done: all modules of section 2, and a theorem for every safety property.
2. Next: theorems about what the modules assume of each other. `ServingIsConfigured`
   gives `TTLConfigValid` to `TokenExchange` and the hours of `InputsAreTyped` to
   `Authorizer`; a grant's TTL (`GrantedTTLWithinAll`) is the one `TokenExchange` resolves.
3. Action properties worth stating beside the invariants: a tracked token leaves the
   tracker only revoked or with the process; a schema version becomes clean only by the
   process that holds the lock.

## 6. Not modelled

Metrics, traces, log lines and message texts; HTTP methods and response headers other
than Retry-After; signature verification (the go-oidc library); encoding of stored
records, the JWT of the app and its permission struct; environment variables as a second
source of configuration; the length of the retry transport's backoff (its comment says
2 s / 10 s / 30 s, the code waits 2, 4 and 8 seconds, each with jitter); Terraform, Helm
and their scripts; `internal/testutil`. Errors of the `Close` calls in the clean-up of a
start that failed: the process ends right after, with an error.
