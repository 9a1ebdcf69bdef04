---------------------------- MODULE TokenLifetime ----------------------------
(***************************************************************************)
(* How long a token issued by GATE may live: the TTL check of the request, *)
(* the TTL the authorizer resolves from request, trust policy and central  *)
(* configuration, and the expiry GATE reports for a GitHub token.  Times   *)
(* and TTLs are in one unit (seconds in the code).                         *)
(***************************************************************************)
EXTENDS Integers

CONSTANTS
    DefaultTokenTTL,   \* policy.default_token_ttl
    MaxTokenTTL        \* policy.max_token_ttl

\* The TTL part of PolicyConfig.Validate: the server does not start otherwise.
ValidTTLs == DefaultTokenTTL > 0 /\ MaxTokenTTL > 0 /\ DefaultTokenTTL <= MaxTokenTTL

ASSUME TTLConfigValid ==
    /\ DefaultTokenTTL \in Int
    /\ MaxTokenTTL \in Int
    /\ ValidTTLs

ValidRequestedTTL_NoMaximum(requested) == requested >= 0

\* The TTL part of Service.validateRequest; 0 stands for "not requested".
ValidRequestedTTL(requested) ==
    /\ requested >= 0
    /\ ~(MaxTokenTTL > 0 /\ requested > MaxTokenTTL)

\* Authorizer.resolveTTL: request or default, lowered by the trust policy's
\* token_ttl when that is set (> 0), then by the central maximum.
RequestedOrDefault(requested) ==
    IF requested = 0 THEN DefaultTokenTTL ELSE requested

LoweredByPolicy(ttl, policyTTL) ==
    IF policyTTL > 0 /\ policyTTL < ttl THEN policyTTL ELSE ttl

ResolveTTL_PolicyOverrides(requested, policyTTL) ==
    IF policyTTL > 0 THEN policyTTL ELSE RequestedOrDefault(requested)

ResolveTTL(requested, policyTTL) ==
    LET ttl == LoweredByPolicy(RequestedOrDefault(requested), policyTTL)
    IN  IF ttl > MaxTokenTTL THEN MaxTokenTTL ELSE ttl

CapExpiry_GitHubOnly(ghExpiry, now, ttl) == ghExpiry

\* capExpiry: the earlier of GitHub's expiry and now + ttl.
CapExpiry(ghExpiry, now, ttl) ==
    IF ghExpiry > now + ttl THEN now + ttl ELSE ghExpiry
==============================================================================
