---------------------------- MODULE MCAuthorizer ----------------------------
(***************************************************************************)
(* Inputs for Authorizer: four families, each exhaustive in the part of    *)
(* the decision it is about and fixed in the others.                       *)
(***************************************************************************)
EXTENDS Authorizer, TLC

NoClaims == <<>>  \* the empty map
MapsTo(keys, vals) == UNION {[d -> vals] : d \in SUBSET keys}

Sub(value) == [literal |-> [f \in {"sub", "a.b"} |-> IF f = "sub" THEN value ELSE Absent],
               nested  |-> [f \in {"sub", "a.b"} |-> Absent]]

Condition(f, p) == [field |-> f, pattern |-> p]
Rule(logic, conds) == [name |-> "rule", logic |-> logic, conditions |-> conds]
Policy(name, issuer, rules, perms, ttl) ==
    [name |-> name, issuer |-> issuer, rules |-> rules, permissions |-> perms,
     tokenTTL |-> ttl]
File(policies) == [version |-> "1.0", policies |-> policies]
Provider(issuer, required, forbidden, days, hours) ==
    [issuer |-> issuer, required |-> required, forbidden |-> forbidden,
     days |-> days, hours |-> hours]
Config(explicit, providers, maxPerms) ==
    [requireExplicit |-> explicit, providers |-> providers, maxPermissions |-> maxPerms]
Request(issuer, name, claims, perms, ttl) ==
    [issuer |-> issuer, repository |-> "owner/repo", policyName |-> name, claims |-> claims,
     permissions |-> perms, ttl |-> ttl]
AnyTime == [day |-> "Mon", hour |-> 12]
ReadContents == [p \in {"contents"} |-> "read"]
OnSub == <<Rule("AND", <<Condition("sub", {"x"})>>)>>
Open(issuer) == Provider(issuer, NoClaims, NoClaims, {}, NoHours)

Product(files, fetches, reqs, cfgs, times) ==
    [file: files, fetch: fetches, req: reqs, cfg: cfgs, time: times]

\* Which policy matches: two policies of one file, any names and issuers,
\* valid and invalid rules, claims found literally, by path or not at all.
BothConditions == <<Condition("sub", {"x"}), Condition("a.b", {"x", "y"})>>
MatchRules == {<<>>, <<Rule("AND", <<>>)>>, <<Rule("XOR", BothConditions)>>,
               <<Rule("", BothConditions)>>, <<Rule("OR", BothConditions)>>,
               <<Rule("OR", <<Condition("sub", BadPattern)>>)>>,
               <<Rule("AND", <<Condition("sub", {"y"})>>), Rule("OR", <<Condition("a.b", {"y"})>>)>>}
MatchPolicies == {Policy(n, i, r, ReadContents, 0) :
                    n \in {"p", "q"}, i \in {"issuer1", "issuer2"}, r \in MatchRules}
                 \cup {Policy("", "issuer1", OnSub, ReadContents, 0),
                       Policy("p", "issuer1", OnSub, NoClaims, 0)}
MatchFiles == {File(<<p>>) : p \in MatchPolicies}
              \cup {File(<<p, q>>) : p \in MatchPolicies, q \in MatchPolicies}
              \cup {File(<<>>), [File(<<Policy("p", "issuer1", OnSub, ReadContents, 0)>>)
                                    EXCEPT !.version = "2.0"]}
Claims(sub, lit, nest) ==
    [literal |-> [f \in {"sub", "a.b"} |-> IF f = "sub" THEN sub ELSE lit],
     nested  |-> [f \in {"sub", "a.b"} |-> IF f = "sub" THEN Absent ELSE nest]]
MatchClaims == {Claims(s, l, n) : s \in {Absent, NotAString, "x"},
                                  l \in {Absent, "y"}, n \in {Absent, "z", "x"}}
MatchRequests == {Request(i, n, c, NoClaims, 0) : i \in {"issuer1", "issuer2"},
                    n \in {"", "p"}, c \in MatchClaims}
MatchConfig == Config(FALSE, <<Open("issuer1"), Open("issuer2")>>, ReadContents)
Matching == Product(MatchFiles, {"ok"}, MatchRequests, {MatchConfig}, {AnyTime})

\* The central layer and the fetch outcomes, on one good file.
GoodFile == File(<<Policy("p", "issuer1", OnSub, ReadContents, 0)>>)
OnlyX == [f \in {"sub"} |-> {"x"}]
PathZ == [f \in {"a.b"} |-> {"z"}]
CentralConfigs == {Config(e, ps, ReadContents) : e \in BOOLEAN,
    ps \in {<<Provider("issuer1", q, f, d, NoHours)>> :
              q \in {NoClaims, OnlyX}, f \in {NoClaims, PathZ}, d \in {{}, {"Mon"}, {"Tue"}}}
           \cup {<<>>, <<Open("issuer2"), Open("issuer1")>>}}
Central == Product({GoodFile}, {"ok", "not_accessible", "not_found", "failed"},
                   MatchRequests
                     \cup {Request("", "p", Sub("x"), NoClaims, 0),
                           [Request("issuer1", "p", Sub("x"), NoClaims, 0)
                               EXCEPT !.repository = ""]},
                   CentralConfigs, {AnyTime})

\* Permissions and TTLs: one policy, every combination of levels.
Permissions == {"contents", "members"}
PermissionFiles == {File(<<Policy("p", "issuer1", OnSub, ps, t)>>) :
                      ps \in MapsTo(Permissions, {"none", "read", "write", "admin"}),
                      t \in {-1, 0, 1, 4, 9}}
PermissionRequests == {Request("issuer1", "", Sub("x"), ps, t) :
                         ps \in MapsTo(Permissions, {"none", "read", "admin"}), t \in {0, 2}}
PermissionConfigs == {Config(FALSE, <<Open("issuer1")>>, ps) :
                        ps \in MapsTo(Permissions, {"none", "read", "write"})}
PermissionsAndTTLs == Product(PermissionFiles, {"ok"}, PermissionRequests,
                              PermissionConfigs, {AnyTime})

\* Every hour against every window.
Windows == {[start |-> s, end |-> e] : s \in 0 .. 23, e \in 0 .. 23}
HourConfigs == {Config(FALSE, <<Provider("issuer1", NoClaims, NoClaims, {}, w)>>, ReadContents) :
                  w \in Windows}
Hours == Product({GoodFile}, {"ok"}, {Request("issuer1", "p", Sub("x"), NoClaims, 0)},
                 HourConfigs, {[day |-> "Mon", hour |-> h] : h \in 0 .. 23})

MCInputs == Matching \cup Central \cup PermissionsAndTTLs \cup Hours
==============================================================================
