----------------------------- MODULE Authorizer -----------------------------
(***************************************************************************)
(* The two-layer authorization of internal/sts/authorizer: the central     *)
(* configuration (providers, claims, hours, maximum permissions, TTLs) and *)
(* the trust policy file of the target repository.                         *)
(*                                                                         *)
(* A regular expression is the set of claim values it matches.  A Go map   *)
(* is a function on the set of its keys.  Claims are given by what the two *)
(* lookups of lookupClaim find under each field: the key taken literally,  *)
(* and the walk along the dotted path.                                     *)
(***************************************************************************)
EXTENDS TokenLifetime, Sequences, FiniteSets

CONSTANTS
    Inputs,         \* [file, fetch, req, cfg, time]: one authorization each
    NonRepoPermissions,  \* keys of deniedPermissions
    Absent,         \* a claim that is not there
    NotAString,     \* a claim whose value is not a string
    BadPattern,     \* a pattern that regexp.Compile refuses
    NoHours         \* no allowed_hours configured

IsSlice(s) == s \in Seq({s[i] : i \in DOMAIN s})

\* The Go types of the inputs; after validateRequest a request has no
\* negative TTL.
ASSUME InputsAreTyped ==
    \A i \in Inputs :
        /\ IsSlice(i.file.policies)
        /\ \A j \in DOMAIN i.file.policies :
              LET p == i.file.policies[j] IN
              /\ p.tokenTTL \in Int /\ IsSlice(p.rules)
              /\ \A k \in DOMAIN p.rules : IsSlice(p.rules[k].conditions)
        /\ i.fetch \in {"ok", "not_accessible", "not_found", "failed"}
        /\ IsSlice(i.cfg.providers)
        /\ \A j \in DOMAIN i.cfg.providers :
              LET w == i.cfg.providers[j].hours IN
              w # NoHours => w.start \in 0 .. 23 /\ w.end \in 0 .. 23   \* TimeRestriction.Validate
        /\ DOMAIN i.req = {"issuer", "repository", "policyName", "claims", "permissions", "ttl"}
        /\ i.req.ttl \in Nat
        /\ i.time.hour \in 0 .. 23

VARIABLES
    file,     \* the policy file in the repository
    fetch,    \* what fetching it ends in: ok, not_accessible, not_found, failed
    req,      \* the request
    cfg,      \* the configuration
    time,     \* the time of the request
    result    \* the authorizer's Result

inputVars == <<file, fetch, req, cfg, time>>
vars == <<inputVars, result>>

------------------------------------------------------------------------------
(* permission.go *)

levels == [none |-> 0, read |-> 1, write |-> 2]
IsValidLevel(level) == level \in DOMAIN levels

IsLevelAllowed_OneAbove(requested, maxLevel) ==
    IF IsValidLevel(requested) /\ IsValidLevel(maxLevel)
    THEN levels[requested] <= levels[maxLevel] + 1
    ELSE requested = maxLevel

\* isLevelAllowed: levels it does not know are compared as strings.
IsLevelAllowed(requested, maxLevel) ==
    IF IsValidLevel(requested) /\ IsValidLevel(maxLevel)
    THEN levels[requested] <= levels[maxLevel]
    ELSE requested = maxLevel

\* validateOrgMax: the denial code, or "ok".
ValidateOrgMax(perm, level, maxPermissions) ==
    CASE perm \notin DOMAIN maxPermissions -> "PERMISSION_NOT_IN_MAX_PERMISSIONS"
      [] perm \in DOMAIN maxPermissions /\ maxPermissions[perm] = "none" -> "PERMISSION_DENIED"
      [] OTHER -> IF IsLevelAllowed(level, maxPermissions[perm])
                  THEN "ok" ELSE "PERMISSION_EXCEEDS_ORG_MAX"

\* The body of resolvePermissions' loop for one permission.
CheckPermission(perm, level, policyPermissions, maxPermissions) ==
    IF perm \in NonRepoPermissions THEN "NON_REPOSITORY_PERMISSION"
    ELSE IF perm \notin DOMAIN policyPermissions THEN "PERMISSION_NOT_IN_POLICY"
    ELSE IF ~IsLevelAllowed(level, policyPermissions[perm]) THEN "PERMISSION_EXCEEDS_POLICY"
    ELSE ValidateOrgMax(perm, level, maxPermissions)

\* An empty request asks for everything the policy grants.
WantedPermissions(r, policy) ==
    IF DOMAIN r.permissions = {} THEN policy.permissions ELSE r.permissions

\* resolvePermissions ranges over a Go map: of several denials any one may be
\* the first.  The set of denial codes; empty when all is granted.
PermissionDenials(r, policy, c) ==
    LET wanted == WantedPermissions(r, policy)
    IN  {CheckPermission(p, wanted[p], policy.permissions, c.maxPermissions) :
            p \in DOMAIN wanted} \ {"ok"}

------------------------------------------------------------------------------
(* provider.go and the conditions of policy.go *)

\* lookupClaim and claimString: Absent or NotAString when there is no string.
ClaimString(claims, field) ==
    IF claims.literal[field] # Absent THEN claims.literal[field] ELSE claims.nested[field]

IsString(claim) == claim # Absent /\ claim # NotAString

Matches(pattern, claims, field) ==
    IsString(ClaimString(claims, field)) /\ ClaimString(claims, field) \in pattern

IsHourAllowed_NoWrap(hour, window) == hour >= window.start /\ hour <= window.end

\* isHourAllowed: both ends included, wrapping over midnight.
IsHourAllowed(hour, window) ==
    IF window.start <= window.end
    THEN hour >= window.start /\ hour <= window.end
    ELSE hour >= window.start \/ hour <= window.end

\* validateTime
TimeAllowed(provider, t) ==
    /\ provider.days # {} => t.day \in provider.days
    /\ provider.hours # NoHours => IsHourAllowed(t.hour, provider.hours)

\* The first index of a slice at which a loop stops; 0 when it runs through.
FirstIndex(seq, P(_)) ==
    LET hits == {i \in DOMAIN seq : P(seq[i])}
    IN  IF hits = {} THEN 0 ELSE CHOOSE i \in hits : \A j \in hits : i <= j

\* findProvider
FindProvider(issuer, c) == FirstIndex(c.providers, LAMBDA p : p.issuer = issuer)

\* authorizeCentral: the denial code, or "ok".
AuthorizeCentral(r, c, t) ==
    LET i == FindProvider(r.issuer, c) IN
    IF i = 0 THEN "ISSUER_NOT_ALLOWED"
    ELSE LET p == c.providers[i] IN
         IF \E f \in DOMAIN p.required : ~Matches(p.required[f], r.claims, f)
         THEN "REQUIRED_CLAIM_MISMATCH"
         ELSE IF \E f \in DOMAIN p.forbidden : Matches(p.forbidden[f], r.claims, f)
         THEN "FORBIDDEN_CLAIM_MATCHED"
         ELSE IF ~TimeAllowed(p, t) THEN "TIME_RESTRICTION"
         ELSE "ok"

------------------------------------------------------------------------------
(* policy.go: what parseAndValidate lets through *)

ValidCondition(c) == c.field # "" /\ c.pattern # BadPattern

ValidRule(rule) ==
    /\ rule.name # ""
    /\ rule.logic \in {"", "AND", "OR"}
    /\ rule.conditions # <<>>
    /\ \A i \in DOMAIN rule.conditions : ValidCondition(rule.conditions[i])

ValidPolicy_AnyPermissions(p) ==
    /\ p.name # ""
    /\ p.issuer # ""
    /\ p.rules # <<>>
    /\ \A i \in DOMAIN p.rules : ValidRule(p.rules[i])
    /\ \A perm \in DOMAIN p.permissions : IsValidLevel(p.permissions[perm])

\* TrustPolicy.Validate; token_ttl is not looked at.
ValidPolicy(p) ==
    /\ p.name # ""
    /\ p.issuer # ""
    /\ p.rules # <<>>
    /\ \A i \in DOMAIN p.rules : ValidRule(p.rules[i])
    /\ DOMAIN p.permissions # {}
    /\ \A perm \in DOMAIN p.permissions : IsValidLevel(p.permissions[perm])

ValidFile_DuplicateNames(f) ==
    /\ f.version = "1.0"
    /\ f.policies # <<>>
    /\ \A i \in DOMAIN f.policies : ValidPolicy(f.policies[i])

\* PolicyFile.Validate
ValidFile(f) ==
    /\ f.version = "1.0"
    /\ f.policies # <<>>
    /\ \A i \in DOMAIN f.policies : ValidPolicy(f.policies[i])
    /\ \A i, j \in DOMAIN f.policies :
         f.policies[i].name = f.policies[j].name => i = j

------------------------------------------------------------------------------
(* match.go *)

EvaluateCondition(c, claims) == Matches(c.pattern, claims, c.field)

EvaluateRule_DefaultIsOr(rule, claims) ==
    IF rule.logic = "AND"
    THEN \A i \in DOMAIN rule.conditions : EvaluateCondition(rule.conditions[i], claims)
    ELSE \E i \in DOMAIN rule.conditions : EvaluateCondition(rule.conditions[i], claims)

\* evaluateRule: AND unless the rule says OR.
EvaluateRule(rule, claims) ==
    IF rule.logic \in {"", "AND"}
    THEN \A i \in DOMAIN rule.conditions : EvaluateCondition(rule.conditions[i], claims)
    ELSE \E i \in DOMAIN rule.conditions : EvaluateCondition(rule.conditions[i], claims)

EvaluateRules(p, claims) ==
    \E i \in DOMAIN p.rules : EvaluateRule(p.rules[i], claims)

\* matchExplicit and matchAutomatic: the index of the matched policy and "ok",
\* or the denial code.
Matched(i) == [index |-> i, code |-> "ok"]
Unmatched(code) == [index |-> 0, code |-> code]

MatchExplicit(f, r) ==
    LET i == FirstIndex(f.policies, LAMBDA p : p.name = r.policyName) IN
    IF i = 0 THEN Unmatched("POLICY_NOT_FOUND")
    ELSE IF f.policies[i].issuer # r.issuer THEN Unmatched("ISSUER_NOT_ALLOWED")
    ELSE IF EvaluateRules(f.policies[i], r.claims) THEN Matched(i)
    ELSE Unmatched("NO_RULES_MATCHED")

MatchAutomatic(f, r) ==
    LET i == FirstIndex(f.policies,
                        LAMBDA p : p.issuer = r.issuer /\ EvaluateRules(p, r.claims))
    IN  IF i = 0 THEN Unmatched("NO_RULES_MATCHED") ELSE Matched(i)

MatchPolicy(f, r) ==
    IF r.policyName # "" THEN MatchExplicit(f, r) ELSE MatchAutomatic(f, r)

DeniedWith(code) == [outcome |-> "denied", code |-> code]
AllowedBy(policy, permissions, ttl) ==
    [outcome |-> "allowed", policy |-> policy.name, permissions |-> permissions, ttl |-> ttl]

FetchDenial == [not_accessible |-> "REPOSITORY_NOT_FOUND",
                not_found |-> "TRUST_POLICY_NOT_FOUND",
                failed |-> "POLICY_LOAD_FAILED"]

\* Fetching and matching: the matched policy, or the denial code.
LoadAndMatch(r, f, fetched) ==
    IF fetched # "ok" THEN Unmatched(FetchDenial[fetched])
    ELSE IF ~ValidFile(f) THEN Unmatched("POLICY_LOAD_FAILED")
    ELSE MatchPolicy(f, r)

\* authorizeRepository: the results it may return.
AuthorizeRepository(r, f, fetched, c) ==
    IF c.requireExplicit /\ r.policyName = "" THEN {DeniedWith("POLICY_NAME_REQUIRED")}
    ELSE LET m == LoadAndMatch(r, f, fetched) IN
         IF m.code # "ok" THEN {DeniedWith(m.code)}
         ELSE LET policy == f.policies[m.index]
                  denials == PermissionDenials(r, policy, c)
              IN  IF denials # {} THEN {DeniedWith(code) : code \in denials}
                  ELSE {AllowedBy(policy, WantedPermissions(r, policy),
                                  ResolveTTL(r.ttl, policy.tokenTTL))}

\* Authorize: the results it may return.
Results(r, f, fetched, c, t) ==
    IF r.issuer = "" THEN {DeniedWith("ISSUER_NOT_ALLOWED")}
    ELSE IF r.repository = "" THEN {DeniedWith("POLICY_LOAD_FAILED")}
    ELSE IF AuthorizeCentral(r, c, t) # "ok" THEN {DeniedWith(AuthorizeCentral(r, c, t))}
    ELSE AuthorizeRepository(r, f, fetched, c)

------------------------------------------------------------------------------
Init ==
    /\ \E i \in Inputs : /\ file = i.file
                         /\ fetch = i.fetch
                         /\ req = i.req
                         /\ cfg = i.cfg
                         /\ time = i.time
    /\ result = [outcome |-> "pending"]

Authorize ==
    /\ result.outcome = "pending"
    /\ result' \in Results(req, file, fetch, cfg, time)
    /\ UNCHANGED inputVars

Next == Authorize

Spec == Init /\ [][Next]_vars

------------------------------------------------------------------------------
(* Properties *)

Granted == result.outcome = "allowed"

\* The policy a grant names, as a member of the file.
GrantingPolicies == {file.policies[i] : i \in {j \in DOMAIN file.policies :
                                               file.policies[j].name = result.policy}}

\* What the token gets was asked for (or is the policy's own list), and each
\* level is one of none, read, write, at most the policy's and at most the
\* organization's, which must list the permission and not as none; nothing
\* organization-, user- or enterprise-scoped (permission.go:71-142).
GrantWithinBothLayers ==
    Granted =>
        \A p \in GrantingPolicies : \A perm \in DOMAIN result.permissions :
            LET rank == levels[result.permissions[perm]] IN
            /\ result.permissions[perm] \in {"none", "read", "write"}
            /\ perm \notin NonRepoPermissions
            /\ perm \in DOMAIN p.permissions /\ rank <= levels[p.permissions[perm]]
            /\ perm \in DOMAIN cfg.maxPermissions
            /\ rank <= levels[cfg.maxPermissions[perm]]
            /\ levels[cfg.maxPermissions[perm]] > 0

\* A grant never has an empty permission map, which the GitHub client would
\* turn into a request without a permission list (client.go:353-356).
GrantIsNotEmpty == Granted => DOMAIN result.permissions # {}

\* A string claim of the caller satisfies the pattern for its field.
Satisfied(field, pattern) ==
    LET claim == ClaimString(req.claims, field) IN IsString(claim) /\ claim \in pattern

\* A grant rests on the caller's claims in both layers.  The issuer has a
\* provider in the central configuration, and the caller all the claims it
\* requires and none it forbids; the policy is for this issuer and has a rule of
\* which at least one condition is satisfied, and every one unless it says OR
\* (provider.go:27-100; match.go:71-146).
GrantHasWitness ==
    Granted =>
        /\ \E i \in DOMAIN cfg.providers :
             LET p == cfg.providers[i] IN
             /\ p.issuer = req.issuer
             /\ \A f \in DOMAIN p.required : Satisfied(f, p.required[f])
             /\ \A f \in DOMAIN p.forbidden : ~Satisfied(f, p.forbidden[f])
        /\ \E p \in GrantingPolicies :
             /\ p.issuer = req.issuer
             /\ \E i \in DOMAIN p.rules :
                  LET conditions == p.rules[i].conditions
                      satisfied == {j \in DOMAIN conditions :
                                      Satisfied(conditions[j].field, conditions[j].pattern)}
                  IN  /\ satisfied # {}
                      /\ p.rules[i].logic # "OR" => satisfied = DOMAIN conditions

\* Naming the policy that automatic matching chose gives the same grant
\* (match.go:71-103, with the unique names of policy.go:70-72).
NamingThePolicyChangesNothing ==
    (Granted /\ req.policyName = "") =>
        Results([req EXCEPT !.policyName = result.policy], file, fetch, cfg, time) = {result}

\* The hours in which a provider's restriction lets callers pass are those one
\* meets going forward from start to end around the clock
\* (provider.go:118-146).
HoursGoAroundTheClock ==
    LET i == FindProvider(req.issuer, cfg)
        p == cfg.providers[i]
        met == \E k \in 0 .. ((p.hours.end - p.hours.start) % 24) :
                  (p.hours.start + k) % 24 = time.hour
    IN  (i # 0 /\ p.hours # NoHours) =>
            /\ Granted => met
            /\ (/\ result.outcome = "denied" /\ result.code = "TIME_RESTRICTION"
                /\ p.days = {} \/ time.day \in p.days) => ~met

\* A granted TTL is positive, within the central maximum, and within the
\* request's and the policy's own TTL where they are given (match.go:149-161).
GrantedTTLWithinAll ==
    Granted =>
        /\ result.ttl \in 1 .. MaxTokenTTL
        /\ req.ttl > 0 => result.ttl <= req.ttl
        /\ \A p \in GrantingPolicies : p.tokenTTL > 0 => result.ttl <= p.tokenTTL

\* A request without requested_ttl gets the TTL of the matched policy
\* (README: the optional fields "default to the values specified in the
\* matched policy").
OmittedTTLIsThePolicys ==
    (Granted /\ req.ttl = 0) =>
        \A p \in GrantingPolicies :
            p.tokenTTL \in 1 .. MaxTokenTTL => result.ttl = p.tokenTTL
============================================================================
