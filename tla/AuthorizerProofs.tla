-------------------------- MODULE AuthorizerProofs --------------------------
(***************************************************************************)
(* Proofs about Authorizer, for policy files, requests, configurations and *)
(* times of any size, and for any TTLs that PolicyConfig.Validate accepts. *)
(***************************************************************************)
EXTENDS Authorizer, NaturalFacts

------------------------------------------------------------------------------
(* Loops over slices *)

\* The least of a set of indices, as FirstIndex chooses it.
Least(hits) == IF hits = {} THEN 0 ELSE CHOOSE i \in hits : \A j \in hits : i <= j

\* A loop that returns at its first hit returns a hit, if there is one.
LEMMA LeastIsFirst ==
    ASSUME NEW hits, hits \subseteq Nat \ {0}
    PROVE  /\ Least(hits) = 0 <=> hits = {}
           /\ Least(hits) # 0 => Least(hits) \in hits
  <1>1. hits # {} => \E i \in hits : \A j \in hits : i <= j
    BY LeastNatural
  <1>2. hits # {} => Least(hits) \in hits
    BY <1>1 DEF Least
  <1> QED
    BY <1>2 DEF Least

\* A loop that can only return at one index returns at that one.
LEMMA OnlyHit ==
    ASSUME NEW i \in Nat \ {0}
    PROVE  Least({i}) = i
  BY LeastIsFirst

\* A slice has indices from 1, and none only when it is empty.
LEMMA SliceDomain ==
    ASSUME NEW s, IsSlice(s)
    PROVE  DOMAIN s \subseteq Nat \ {0} /\ (s # <<>> => DOMAIN s # {})
  BY DEF IsSlice

\* findProvider returns a provider of the issuer.
LEMMA FoundProvider ==
    ASSUME NEW issuer, NEW c, DOMAIN c.providers \subseteq Nat \ {0}, FindProvider(issuer, c) # 0
    PROVE  /\ FindProvider(issuer, c) \in DOMAIN c.providers
           /\ c.providers[FindProvider(issuer, c)].issuer = issuer
  <1> DEFINE hits == {i \in DOMAIN c.providers : c.providers[i].issuer = issuer}
  <1>1. FindProvider(issuer, c) = Least(hits)
    BY DEF FindProvider, FirstIndex, Least
  <1>2. hits \subseteq Nat \ {0}
    OBVIOUS
  <1> HIDE DEF hits
  <1>3. Least(hits) \in hits
    BY <1>1, <1>2, LeastIsFirst
  <1> QED
    BY <1>1, <1>3 DEF hits

\* matchPolicy returns a policy for the issuer whose rules the claims satisfy,
\* whether the policy is named or not.
LEMMA MatchedPolicy ==
    ASSUME NEW f, NEW r, DOMAIN f.policies \subseteq Nat \ {0}, MatchPolicy(f, r).code = "ok"
    PROVE  /\ MatchPolicy(f, r).index \in DOMAIN f.policies
           /\ f.policies[MatchPolicy(f, r).index].issuer = r.issuer
           /\ EvaluateRules(f.policies[MatchPolicy(f, r).index], r.claims)
  <1>1. CASE r.policyName # ""
    <2> DEFINE hits == {i \in DOMAIN f.policies : f.policies[i].name = r.policyName}
               i == Least(hits)
    <2>1. MatchPolicy(f, r) =
             IF i = 0 THEN Unmatched("POLICY_NOT_FOUND")
             ELSE IF f.policies[i].issuer # r.issuer THEN Unmatched("ISSUER_NOT_ALLOWED")
             ELSE IF EvaluateRules(f.policies[i], r.claims) THEN Matched(i)
             ELSE Unmatched("NO_RULES_MATCHED")
      BY <1>1 DEF MatchPolicy, MatchExplicit, FirstIndex, Least
    <2>2. hits \subseteq Nat \ {0} /\ hits \subseteq DOMAIN f.policies
      OBVIOUS
    <2> HIDE DEF hits
    <2>3. i # 0 => i \in hits
      BY <2>2, LeastIsFirst
    <2> HIDE DEF i
    <2>4. /\ MatchPolicy(f, r) = Matched(i) /\ i # 0
          /\ f.policies[i].issuer = r.issuer /\ EvaluateRules(f.policies[i], r.claims)
      BY <2>1 DEF Unmatched
    <2>5. i \in DOMAIN f.policies
      BY <2>2, <2>3, <2>4
    <2>6. MatchPolicy(f, r).index = i
      BY <2>4 DEF Matched
    <2> QED
      BY <2>4, <2>5, <2>6
  <1>2. CASE r.policyName = ""
    <2> DEFINE hits == {i \in DOMAIN f.policies :
                          f.policies[i].issuer = r.issuer /\ EvaluateRules(f.policies[i], r.claims)}
               i == Least(hits)
    <2>1. MatchPolicy(f, r) = IF i = 0 THEN Unmatched("NO_RULES_MATCHED") ELSE Matched(i)
      BY <1>2 DEF MatchPolicy, MatchAutomatic, FirstIndex, Least
    <2>2. hits \subseteq Nat \ {0}
      OBVIOUS
    <2> HIDE DEF hits
    <2>3. i # 0 => i \in hits
      BY <2>2, LeastIsFirst
    <2> HIDE DEF i
    <2>4. MatchPolicy(f, r).index = i /\ i \in hits
      BY <2>1, <2>3 DEF Matched, Unmatched
    <2> QED
      BY <2>4 DEF hits
  <1> QED
    BY <1>1, <1>2

------------------------------------------------------------------------------
(* Permissions and TTLs *)

\* A permission that passes both layers has a level that both allow, and all
\* three levels are known ones (permission.go:71-142).
LEMMA PermissionWithinBoth ==
    ASSUME NEW perm, NEW level, NEW own, NEW max,
           CheckPermission(perm, level, own, max) = "ok",
           \A q \in DOMAIN own : IsValidLevel(own[q])
    PROVE  /\ perm \notin NonRepoPermissions
           /\ perm \in DOMAIN own /\ perm \in DOMAIN max
           /\ level \in {"none", "read", "write"}
           /\ levels[level] <= levels[own[perm]]
           /\ levels[level] <= levels[max[perm]]
           /\ levels[max[perm]] > 0
  <1>1. /\ perm \notin NonRepoPermissions /\ perm \in DOMAIN own
        /\ IsLevelAllowed(level, own[perm]) /\ ValidateOrgMax(perm, level, max) = "ok"
    BY DEF CheckPermission
  <1>2. perm \in DOMAIN max /\ max[perm] # "none" /\ IsLevelAllowed(level, max[perm])
    BY <1>1 DEF ValidateOrgMax
  <1>3. DOMAIN levels = {"none", "read", "write"}
    BY DEF levels
  <1>4. level \in DOMAIN levels /\ levels[level] <= levels[own[perm]]
    BY <1>1, <1>3 DEF IsLevelAllowed, IsValidLevel, levels
  <1>5. max[perm] \in DOMAIN levels /\ levels[level] <= levels[max[perm]]
    BY <1>2, <1>3, <1>4 DEF IsLevelAllowed, IsValidLevel, levels
  <1>6. levels[max[perm]] > 0
    BY <1>2, <1>3, <1>5 DEF levels
  <1> QED
    BY <1>1, <1>2, <1>3, <1>4, <1>5, <1>6

\* resolveTTL stays within the request's, the policy's and the central TTL
\* (match.go:149-161).
LEMMA TTLWithinAll ==
    ASSUME NEW requested \in Nat, NEW policyTTL \in Int
    PROVE  /\ ResolveTTL(requested, policyTTL) \in 1 .. MaxTokenTTL
           /\ requested > 0 => ResolveTTL(requested, policyTTL) <= requested
           /\ policyTTL > 0 => ResolveTTL(requested, policyTTL) <= policyTTL
  BY TTLConfigValid DEF ValidTTLs, ResolveTTL, LoweredByPolicy, RequestedOrDefault

------------------------------------------------------------------------------
(* What is behind a grant *)

\* The policy of f that grants r, at index i.
GrantsAt(i, res, r, f, fetched, c) ==
    /\ i \in DOMAIN f.policies /\ f.policies[i].issuer = r.issuer
    /\ EvaluateRules(f.policies[i], r.claims)
    /\ PermissionDenials(r, f.policies[i], c) = {}
    /\ res = AllowedBy(f.policies[i], WantedPermissions(r, f.policies[i]),
                       ResolveTTL(r.ttl, f.policies[i].tokenTTL))

\* Authorize grants only through both layers: the central one, and a policy
\* of a valid file that was fetched.
LEMMA BehindAGrant ==
    ASSUME NEW r, NEW f, NEW fetched \in {"ok", "not_accessible", "not_found", "failed"},
           NEW c, NEW t, DOMAIN f.policies \subseteq Nat \ {0},
           NEW res \in Results(r, f, fetched, c, t), res.outcome = "allowed"
    PROVE  /\ r.issuer # "" /\ r.repository # "" /\ AuthorizeCentral(r, c, t) = "ok"
           /\ fetched = "ok" /\ ValidFile(f)
           /\ \E i : GrantsAt(i, res, r, f, fetched, c)
  <1>1. \A code : DeniedWith(code).outcome # "allowed"
    BY DEF DeniedWith
  <1>2. /\ r.issuer # "" /\ r.repository # "" /\ AuthorizeCentral(r, c, t) = "ok"
        /\ res \in AuthorizeRepository(r, f, fetched, c)
    BY <1>1 DEF Results
  <1> DEFINE m == LoadAndMatch(r, f, fetched)
             policy == f.policies[m.index]
             denials == PermissionDenials(r, policy, c)
             grant == AllowedBy(policy, WantedPermissions(r, policy),
                                ResolveTTL(r.ttl, policy.tokenTTL))
  <1>3. AuthorizeRepository(r, f, fetched, c) =
           IF c.requireExplicit /\ r.policyName = "" THEN {DeniedWith("POLICY_NAME_REQUIRED")}
           ELSE IF m.code # "ok" THEN {DeniedWith(m.code)}
           ELSE IF denials # {} THEN {DeniedWith(code) : code \in denials} ELSE {grant}
    BY DEF AuthorizeRepository
  <1> HIDE DEF m, denials, grant
  <1>4. m.code = "ok" /\ denials = {} /\ res = grant
    <2>1. ~(c.requireExplicit /\ r.policyName = "")
      BY <1>1, <1>2, <1>3
    <2>2. m.code = "ok"
      <3>1. SUFFICES ASSUME m.code # "ok" PROVE FALSE
        OBVIOUS
      <3>2. res = DeniedWith(m.code)
        BY <1>2, <1>3, <2>1, <3>1
      <3> QED
        BY <1>1, <3>2
    <2>3. denials = {}
      BY <1>1, <1>2, <1>3, <2>1, <2>2
    <2> QED
      BY <1>2, <1>3, <2>1, <2>2, <2>3
  <1>5. fetched = "ok"
    <2>1. fetched # "ok" => m.code \in {"REPOSITORY_NOT_FOUND", "TRUST_POLICY_NOT_FOUND",
                                        "POLICY_LOAD_FAILED"}
      BY DEF m, LoadAndMatch, Unmatched, FetchDenial
    <2> QED
      BY <1>4, <2>1
  <1>6. ValidFile(f) /\ m = MatchPolicy(f, r)
    BY <1>4, <1>5 DEF m, LoadAndMatch, Unmatched
  <1>7. /\ m.index \in DOMAIN f.policies /\ policy.issuer = r.issuer
        /\ EvaluateRules(policy, r.claims)
    BY <1>4, <1>6, MatchedPolicy
  <1>8. GrantsAt(m.index, res, r, f, fetched, c)
    BY <1>4, <1>7 DEF GrantsAt, denials, grant
  <1> QED
    BY <1>2, <1>5, <1>6, <1>8

\* The names in a valid file are unique, so that a grant's policy is the one
\* it names (policy.go:70-72).
LEMMA GrantNamesOnePolicy ==
    ASSUME ValidFile(file), NEW i, GrantsAt(i, result, req, file, fetch, cfg)
    PROVE  /\ result.policy = file.policies[i].name
           /\ result.permissions = WantedPermissions(req, file.policies[i])
           /\ result.ttl = ResolveTTL(req.ttl, file.policies[i].tokenTTL)
           /\ GrantingPolicies = {file.policies[i]}
           /\ ValidPolicy(file.policies[i])
  <1>1. /\ result.policy = file.policies[i].name
        /\ result.permissions = WantedPermissions(req, file.policies[i])
        /\ result.ttl = ResolveTTL(req.ttl, file.policies[i].tokenTTL)
    BY DEF GrantsAt, AllowedBy
  <1>2. i \in DOMAIN file.policies
    BY DEF GrantsAt
  <1>3. \A j \in DOMAIN file.policies : file.policies[j].name = result.policy <=> j = i
    BY <1>1, <1>2 DEF ValidFile
  <1>4. GrantingPolicies = {file.policies[i]}
    BY <1>2, <1>3 DEF GrantingPolicies
  <1>5. ValidPolicy(file.policies[i])
    BY <1>2 DEF ValidFile
  <1> QED
    BY <1>1, <1>4, <1>5

------------------------------------------------------------------------------
(* The invariant: the inputs are inputs, and a result is one of Authorize's. *)

Typed ==
    /\ DOMAIN file.policies \subseteq Nat \ {0}
    /\ \A j \in DOMAIN file.policies :
          LET p == file.policies[j] IN
          /\ p.tokenTTL \in Int
          /\ \A k \in DOMAIN p.rules :
                p.rules[k].conditions # <<>> => DOMAIN p.rules[k].conditions # {}
    /\ fetch \in {"ok", "not_accessible", "not_found", "failed"}
    /\ DOMAIN cfg.providers \subseteq Nat \ {0}
    /\ \A j \in DOMAIN cfg.providers :
          LET w == cfg.providers[j].hours IN
          w # NoHours => w.start \in 0 .. 23 /\ w.end \in 0 .. 23
    /\ DOMAIN req = {"issuer", "repository", "policyName", "claims", "permissions", "ttl"}
    /\ req.ttl \in Nat /\ time.hour \in 0 .. 23

Inv ==
    /\ Typed
    /\ result.outcome = "pending" \/ result \in Results(req, file, fetch, cfg, time)

\* Initially there is no result yet.
LEMMA InvInit == Init => Inv
  <1> SUFFICES ASSUME Init PROVE Inv
    OBVIOUS
  <1>1. PICK i \in Inputs : /\ file = i.file /\ fetch = i.fetch /\ req = i.req
                           /\ cfg = i.cfg /\ time = i.time
    BY DEF Init
  <1>2. DOMAIN file.policies \subseteq Nat \ {0} /\ DOMAIN cfg.providers \subseteq Nat \ {0}
    BY <1>1, InputsAreTyped, SliceDomain
  <1>3. ASSUME NEW j \in DOMAIN file.policies
        PROVE  LET p == file.policies[j] IN
               /\ p.tokenTTL \in Int
               /\ \A k \in DOMAIN p.rules :
                     p.rules[k].conditions # <<>> => DOMAIN p.rules[k].conditions # {}
    BY <1>1, InputsAreTyped, SliceDomain
  <1>4. Typed
    BY <1>1, <1>2, <1>3, InputsAreTyped DEF Typed
  <1>5. result.outcome = "pending"
    BY DEF Init
  <1> QED
    BY <1>4, <1>5 DEF Inv

\* A call of Authorize gives a result its input explains.
LEMMA InvStep == Inv /\ [Next]_vars => Inv'
  <1> SUFFICES ASSUME Inv, [Next]_vars PROVE Inv'
    OBVIOUS
  <1>1. UNCHANGED <<file, fetch, req, cfg, time>>
    BY DEF Next, Authorize, vars, inputVars
  <1>2. result' = result \/ result' \in Results(req, file, fetch, cfg, time)
    BY DEF Next, Authorize, vars
  <1>3. Typed'
    BY <1>1 DEF Inv, Typed
  <1>4. Results(req, file, fetch, cfg, time)' = Results(req', file', fetch', cfg', time')
    OBVIOUS
  <1> QED
    BY <1>1, <1>2, <1>3, <1>4 DEF Inv

\* Every result is one that Authorize gives for its input.
LEMMA InvAlways == Spec => []Inv
  BY InvInit, InvStep, PTL DEF Spec

\* What every theorem about a grant starts from.
LEMMA GrantFacts ==
    ASSUME Inv, Granted
    PROVE  /\ AuthorizeCentral(req, cfg, time) = "ok" /\ req.issuer # "" /\ req.repository # ""
           /\ fetch = "ok" /\ ValidFile(file)
           /\ \E i : GrantsAt(i, result, req, file, fetch, cfg)
  <1>1. result \in Results(req, file, fetch, cfg, time) /\ result.outcome = "allowed"
    BY DEF Inv, Granted
  <1> QED
    BY <1>1, BehindAGrant DEF Inv, Typed

------------------------------------------------------------------------------
(* The theorems *)

\* The permissions of a grant were asked for or are the policy's own, and
\* every level is at most the policy's and at most the organization's, which
\* lists it and not as none (permission.go:71-142).
THEOREM GrantWithinBothLayersAlways == Spec => []GrantWithinBothLayers
  <1>1. Inv => GrantWithinBothLayers
    <2> SUFFICES ASSUME Inv, Granted PROVE GrantWithinBothLayers
      BY DEF GrantWithinBothLayers
    <2>1. ValidFile(file)
      BY GrantFacts
    <2>2. PICK i : GrantsAt(i, result, req, file, fetch, cfg)
      BY GrantFacts
    <2> DEFINE p == file.policies[i]
               wanted == WantedPermissions(req, p)
    <2>3. /\ result.permissions = wanted /\ GrantingPolicies = {p}
          /\ \A q \in DOMAIN p.permissions : IsValidLevel(p.permissions[q])
      BY <2>1, <2>2, GrantNamesOnePolicy DEF ValidPolicy
    <2>4. \A perm \in DOMAIN wanted :
             CheckPermission(perm, wanted[perm], p.permissions, cfg.maxPermissions) = "ok"
      BY <2>2 DEF GrantsAt, PermissionDenials
    <2> HIDE DEF wanted, p
    <2>5. ASSUME NEW perm \in DOMAIN wanted
          PROVE  LET rank == levels[wanted[perm]] IN
                 /\ wanted[perm] \in {"none", "read", "write"}
                 /\ perm \notin NonRepoPermissions
                 /\ perm \in DOMAIN p.permissions /\ rank <= levels[p.permissions[perm]]
                 /\ perm \in DOMAIN cfg.maxPermissions
                 /\ rank <= levels[cfg.maxPermissions[perm]]
                 /\ levels[cfg.maxPermissions[perm]] > 0
      BY <2>3, <2>4, PermissionWithinBoth
    <2> QED
      BY <2>3, <2>5 DEF GrantWithinBothLayers
  <1> QED
    BY <1>1, InvAlways, PTL

\* A grant has at least one permission: the policy's own list, which an empty
\* request stands for, is not empty (policy.go; client.go:353-356).
THEOREM GrantIsNotEmptyAlways == Spec => []GrantIsNotEmpty
  <1>1. Inv => GrantIsNotEmpty
    <2> SUFFICES ASSUME Inv, Granted PROVE DOMAIN result.permissions # {}
      BY DEF GrantIsNotEmpty
    <2>1. PICK i : GrantsAt(i, result, req, file, fetch, cfg)
      BY GrantFacts
    <2>2. /\ result.permissions = WantedPermissions(req, file.policies[i])
          /\ DOMAIN file.policies[i].permissions # {}
      BY <2>1, GrantFacts, GrantNamesOnePolicy DEF ValidPolicy
    <2> QED
      BY <2>2 DEF WantedPermissions
  <1> QED
    BY <1>1, InvAlways, PTL

\* A rule that holds has a condition that is satisfied, because its list is
\* not empty, and all of them unless it says OR (match.go:105-146).
LEMMA RuleHasWitness ==
    ASSUME NEW rule, ValidRule(rule), DOMAIN rule.conditions # {},
           EvaluateRule(rule, req.claims)
    PROVE  LET conditions == rule.conditions
               satisfied == {j \in DOMAIN conditions :
                               Satisfied(conditions[j].field, conditions[j].pattern)}
           IN  /\ satisfied # {}
               /\ rule.logic # "OR" => satisfied = DOMAIN conditions
  BY DEF EvaluateRule, EvaluateCondition, Matches, Satisfied, ValidRule

\* A grant rests on the claims of the caller: all that the issuer's provider
\* requires, none that it forbids, and those of a rule of a policy for the
\* issuer (provider.go:27-100; match.go:71-146).
THEOREM GrantHasWitnessAlways == Spec => []GrantHasWitness
  <1>1. Inv => GrantHasWitness
    <2> SUFFICES ASSUME Inv, Granted PROVE GrantHasWitness
      BY DEF GrantHasWitness
    <2>1. PICK i : GrantsAt(i, result, req, file, fetch, cfg)
      BY GrantFacts
    <2> DEFINE p == file.policies[i]
    <2>2. /\ p.issuer = req.issuer /\ EvaluateRules(p, req.claims)
          /\ GrantingPolicies = {p} /\ ValidPolicy(p) /\ i \in DOMAIN file.policies
      BY <2>1, GrantFacts, GrantNamesOnePolicy DEF GrantsAt
    <2> DEFINE n == FindProvider(req.issuer, cfg)
               provider == cfg.providers[n]
    <2>3. /\ n # 0
          /\ \A f \in DOMAIN provider.required : Matches(provider.required[f], req.claims, f)
          /\ \A f \in DOMAIN provider.forbidden : ~Matches(provider.forbidden[f], req.claims, f)
      BY GrantFacts DEF AuthorizeCentral
    <2>4. n \in DOMAIN cfg.providers /\ provider.issuer = req.issuer
      BY <2>3, FoundProvider DEF Inv, Typed
    <2>5. /\ \A f \in DOMAIN provider.required : Satisfied(f, provider.required[f])
          /\ \A f \in DOMAIN provider.forbidden : ~Satisfied(f, provider.forbidden[f])
      BY <2>3 DEF Matches, Satisfied
    <2>6. PICK k \in DOMAIN p.rules : EvaluateRule(p.rules[k], req.claims)
      BY <2>2 DEF EvaluateRules
    <2>7. ValidRule(p.rules[k]) /\ DOMAIN p.rules[k].conditions # {}
      BY <2>2 DEF ValidPolicy, ValidRule, Inv, Typed
    <2>8. LET conditions == p.rules[k].conditions
              satisfied == {j \in DOMAIN conditions :
                              Satisfied(conditions[j].field, conditions[j].pattern)}
          IN  /\ satisfied # {}
              /\ p.rules[k].logic # "OR" => satisfied = DOMAIN conditions
      BY <2>6, <2>7, RuleHasWitness
    <2> HIDE DEF p, n
    <2> QED
      BY <2>2, <2>4, <2>5, <2>8 DEF GrantHasWitness
  <1> QED
    BY <1>1, InvAlways, PTL

\* A granted TTL is positive and within the central maximum, the request's
\* and the policy's TTL (match.go:149-161).
THEOREM GrantedTTLWithinAllAlways == Spec => []GrantedTTLWithinAll
  <1>1. Inv => GrantedTTLWithinAll
    <2> SUFFICES ASSUME Inv, Granted PROVE GrantedTTLWithinAll
      BY DEF GrantedTTLWithinAll
    <2>1. PICK i : GrantsAt(i, result, req, file, fetch, cfg)
      BY GrantFacts
    <2>2. /\ result.ttl = ResolveTTL(req.ttl, file.policies[i].tokenTTL)
          /\ GrantingPolicies = {file.policies[i]} /\ i \in DOMAIN file.policies
      BY <2>1, GrantFacts, GrantNamesOnePolicy DEF GrantsAt
    <2>3. req.ttl \in Nat /\ file.policies[i].tokenTTL \in Int
      BY <2>2 DEF Inv, Typed
    <2> QED
      BY <2>2, <2>3, TTLWithinAll DEF GrantedTTLWithinAll
  <1> QED
    BY <1>1, InvAlways, PTL

\* Naming the policy that automatic matching chose gives the same grant: the
\* names are unique, and both ways to match evaluate the same rules
\* (match.go:71-103, policy.go:70-72).
THEOREM NamingThePolicyChangesNothingAlways == Spec => []NamingThePolicyChangesNothing
  <1>1. Inv => NamingThePolicyChangesNothing
    <2> SUFFICES ASSUME Inv, Granted, req.policyName = ""
                 PROVE  Results([req EXCEPT !.policyName = result.policy],
                                file, fetch, cfg, time) = {result}
      BY DEF NamingThePolicyChangesNothing
    <2>1. PICK i : GrantsAt(i, result, req, file, fetch, cfg)
      BY GrantFacts
    <2> DEFINE p == file.policies[i]
               named == [req EXCEPT !.policyName = result.policy]
               hits == {j \in DOMAIN file.policies : file.policies[j].name = result.policy}
    <2>2. /\ i \in DOMAIN file.policies /\ result.policy = p.name /\ ValidPolicy(p)
          /\ p.issuer = req.issuer /\ EvaluateRules(p, req.claims)
          /\ PermissionDenials(req, p, cfg) = {}
          /\ result = AllowedBy(p, WantedPermissions(req, p), ResolveTTL(req.ttl, p.tokenTTL))
      BY <2>1, GrantFacts, GrantNamesOnePolicy DEF GrantsAt
    <2>3. /\ named.policyName = result.policy /\ named.issuer = req.issuer
          /\ named.claims = req.claims /\ named.permissions = req.permissions
          /\ named.ttl = req.ttl /\ named.repository = req.repository
      BY DEF Inv, Typed
    <2>4. result.policy # ""
      BY <2>2 DEF ValidPolicy
    <2>5. hits = {i}
      BY <2>2, GrantFacts DEF ValidFile
    <2>6. i \in Nat \ {0} /\ Least(hits) = i
      BY <2>2, <2>5, OnlyHit DEF Inv, Typed
    <2> HIDE DEF named
    <2>7. MatchPolicy(file, named) = Matched(i)
      <3> DEFINE same == {j \in DOMAIN file.policies : file.policies[j].name = named.policyName}
                 n == Least(same)
      <3>1. MatchPolicy(file, named) =
               IF n = 0 THEN Unmatched("POLICY_NOT_FOUND")
               ELSE IF file.policies[n].issuer # named.issuer THEN Unmatched("ISSUER_NOT_ALLOWED")
               ELSE IF EvaluateRules(file.policies[n], named.claims) THEN Matched(n)
               ELSE Unmatched("NO_RULES_MATCHED")
        BY <2>3, <2>4 DEF MatchPolicy, MatchExplicit, FirstIndex, Least
      <3>2. same = hits
        BY <2>3
      <3>3. n = i
        BY <2>6, <3>2
      <3> HIDE DEF n
      <3> QED
        BY <2>2, <2>3, <2>6, <3>1, <3>3
    <2>8. LoadAndMatch(named, file, fetch) = Matched(i)
      BY <2>7, GrantFacts DEF LoadAndMatch
    <2>9. /\ PermissionDenials(named, p, cfg) = {}
          /\ WantedPermissions(named, p) = WantedPermissions(req, p)
      BY <2>2, <2>3 DEF PermissionDenials, WantedPermissions
    <2>10. AuthorizeRepository(named, file, fetch, cfg) = {result}
      <3> DEFINE m == LoadAndMatch(named, file, fetch)
                 policy == file.policies[m.index]
                 denials == PermissionDenials(named, policy, cfg)
      <3>1. AuthorizeRepository(named, file, fetch, cfg) =
               IF cfg.requireExplicit /\ named.policyName = "" THEN {DeniedWith("POLICY_NAME_REQUIRED")}
               ELSE IF m.code # "ok" THEN {DeniedWith(m.code)}
               ELSE IF denials # {} THEN {DeniedWith(code) : code \in denials}
               ELSE {AllowedBy(policy, WantedPermissions(named, policy),
                               ResolveTTL(named.ttl, policy.tokenTTL))}
        BY DEF AuthorizeRepository
      <3>2. m = [index |-> i, code |-> "ok"]
        BY <2>8 DEF Matched
      <3> HIDE DEF m
      <3>3. m.code = "ok" /\ m.index = i
        BY <3>2
      <3>4. policy = p
        BY <3>3
      <3> HIDE DEF policy, p
      <3> QED
        BY <2>2, <2>3, <2>4, <2>9, <3>1, <3>3, <3>4
    <2>11. AuthorizeCentral(named, cfg, time) = "ok"
      BY <2>3, GrantFacts DEF AuthorizeCentral
    <2>12. Results(named, file, fetch, cfg, time) = {result}
      BY <2>3, <2>10, <2>11, GrantFacts DEF Results
    <2> QED
      BY <2>12 DEF named
  <1> QED
    BY <1>1, InvAlways, PTL

\* isHourAllowed accepts the hours that one meets going forward from start
\* to end around the clock, over midnight too (provider.go:141-146).
LEMMA HoursWrapAround ==
    ASSUME NEW hour \in 0 .. 23, NEW window, window.start \in 0 .. 23, window.end \in 0 .. 23
    PROVE  IsHourAllowed(hour, window) <=>
              \E k \in 0 .. ((window.end - window.start) % 24) : (window.start + k) % 24 = hour
  <1> DEFINE s == window.start
             e == window.end
             k == IF s <= hour THEN hour - s ELSE hour - s + 24
  <1>1. s \in 0 .. 23 /\ e \in 0 .. 23
    OBVIOUS
  <1>2. IsHourAllowed(hour, window) <=>
           IF s <= e THEN hour >= s /\ hour <= e ELSE hour >= s \/ hour <= e
    BY DEF IsHourAllowed
  <1> HIDE DEF s, e
  <1>3. k \in 0 .. 23 /\ (s + k) % 24 = hour
    BY <1>1
  <1>4. (e - s) % 24 = IF s <= e THEN e - s ELSE e - s + 24
    BY <1>1
  <1>5. ASSUME NEW j \in 0 .. 23, (s + j) % 24 = hour PROVE j = k
    BY <1>1, <1>5
  <1>6. IsHourAllowed(hour, window) <=> k <= (e - s) % 24
    BY <1>1, <1>2, <1>4
  <1>7. (e - s) % 24 \in 0 .. 23
    BY <1>1, <1>4
  <1> HIDE DEF k
  <1>8. IsHourAllowed(hour, window) <=> \E j \in 0 .. ((e - s) % 24) : (s + j) % 24 = hour
    BY <1>3, <1>5, <1>6, <1>7
  <1> QED
    BY <1>8 DEF s, e

\* Only the central layer refuses a caller for the time.
LEMMA TimeIsCentral ==
    ASSUME Inv, result.outcome = "denied", result.code = "TIME_RESTRICTION"
    PROVE  AuthorizeCentral(req, cfg, time) = "TIME_RESTRICTION"
  <1> DEFINE m == LoadAndMatch(req, file, fetch)
             denials == PermissionDenials(req, file.policies[m.index], cfg)
             policy == file.policies[m.index]
  <1>1. result \in Results(req, file, fetch, cfg, time)
    BY DEF Inv
  <1>2. \A code : DeniedWith(code).code = code
    BY DEF DeniedWith
  <1>3. m.code # "TIME_RESTRICTION"
    <2>1. fetch # "ok" => m.code \in {"REPOSITORY_NOT_FOUND", "TRUST_POLICY_NOT_FOUND",
                                      "POLICY_LOAD_FAILED"}
      BY DEF Inv, Typed, LoadAndMatch, Unmatched, FetchDenial
    <2>2. MatchPolicy(file, req).code \in {"ok", "POLICY_NOT_FOUND", "ISSUER_NOT_ALLOWED",
                                           "NO_RULES_MATCHED"}
      BY DEF MatchPolicy, MatchExplicit, MatchAutomatic, Matched, Unmatched
    <2>3. fetch = "ok" => m.code = "POLICY_LOAD_FAILED" \/ m = MatchPolicy(file, req)
      BY DEF LoadAndMatch, Unmatched
    <2> HIDE DEF m
    <2> QED
      BY <2>1, <2>2, <2>3
  <1>4. "TIME_RESTRICTION" \notin denials
    <2>1. \A perm, level, own, max :
             CheckPermission(perm, level, own, max) # "TIME_RESTRICTION"
      BY DEF CheckPermission, ValidateOrgMax
    <2> QED
      BY <2>1 DEF PermissionDenials
  <1>5. AuthorizeRepository(req, file, fetch, cfg) =
           IF cfg.requireExplicit /\ req.policyName = "" THEN {DeniedWith("POLICY_NAME_REQUIRED")}
           ELSE IF m.code # "ok" THEN {DeniedWith(m.code)}
           ELSE IF denials # {} THEN {DeniedWith(code) : code \in denials}
           ELSE {AllowedBy(policy, WantedPermissions(req, policy),
                           ResolveTTL(req.ttl, policy.tokenTTL))}
    BY DEF AuthorizeRepository
  <1>6. result \notin AuthorizeRepository(req, file, fetch, cfg)
    <2> HIDE DEF m, denials, policy
    <2> SUFFICES ASSUME result \in AuthorizeRepository(req, file, fetch, cfg) PROVE FALSE
      OBVIOUS
    <2>1. \A p, ps, ttl : AllowedBy(p, ps, ttl).outcome # "denied"
      BY DEF AllowedBy
    <2>2. \/ result = DeniedWith("POLICY_NAME_REQUIRED") \/ result = DeniedWith(m.code)
          \/ \E code \in denials : result = DeniedWith(code)
      BY <1>5, <2>1
    <2> QED
      BY <1>2, <1>3, <1>4, <2>2
  <1>7. /\ DeniedWith("ISSUER_NOT_ALLOWED").code # "TIME_RESTRICTION"
        /\ DeniedWith("POLICY_LOAD_FAILED").code # "TIME_RESTRICTION"
    BY <1>2
  <1>8. result = DeniedWith(AuthorizeCentral(req, cfg, time))
    BY <1>1, <1>6, <1>7 DEF Results
  <1> QED
    BY <1>2, <1>8

\* A provider's hours let callers pass in the hours that one meets going
\* forward from start to end around the clock, and in no others
\* (provider.go:118-146).
THEOREM HoursGoAroundTheClockAlways == Spec => []HoursGoAroundTheClock
  <1>1. Inv => HoursGoAroundTheClock
    <2> DEFINE i == FindProvider(req.issuer, cfg)
               p == cfg.providers[i]
               met == \E k \in 0 .. ((p.hours.end - p.hours.start) % 24) :
                         (p.hours.start + k) % 24 = time.hour
    <2> SUFFICES ASSUME Inv, i # 0, p.hours # NoHours
                 PROVE  /\ Granted => met
                        /\ (/\ result.outcome = "denied" /\ result.code = "TIME_RESTRICTION"
                            /\ p.days = {} \/ time.day \in p.days) => ~met
      BY DEF HoursGoAroundTheClock
    <2>1. i \in DOMAIN cfg.providers
      BY FoundProvider DEF Inv, Typed
    <2>2. time.hour \in 0 .. 23 /\ p.hours.start \in 0 .. 23 /\ p.hours.end \in 0 .. 23
      BY <2>1 DEF Inv, Typed
    <2>3. IsHourAllowed(time.hour, p.hours) <=> met
      BY <2>2, HoursWrapAround
    <2> DEFINE central == AuthorizeCentral(req, cfg, time)
    <2>4. /\ central = "ok" => TimeAllowed(p, time)
          /\ central = "TIME_RESTRICTION" => ~TimeAllowed(p, time)
      BY DEF AuthorizeCentral
    <2> HIDE DEF i, p, met, central
    <2>5. Granted => met
      <3>1. Granted => central = "ok"
        BY GrantFacts DEF central
      <3> QED
        BY <2>3, <2>4, <3>1 DEF TimeAllowed
    <2>6. (/\ result.outcome = "denied" /\ result.code = "TIME_RESTRICTION"
           /\ p.days = {} \/ time.day \in p.days) => ~met
      <3>1. result.outcome = "denied" /\ result.code = "TIME_RESTRICTION" =>
               central = "TIME_RESTRICTION"
        BY TimeIsCentral DEF central
      <3> QED
        BY <2>3, <2>4, <3>1 DEF TimeAllowed
    <2> QED
      BY <2>5, <2>6
  <1> QED
    BY <1>1, InvAlways, PTL
==============================================================================
