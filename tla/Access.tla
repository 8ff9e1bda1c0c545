------------------------------- MODULE Access -------------------------------
(***************************************************************************)
(* How a request gets at a tenant's rows, with the caches on its way: API  *)
(* Gateway keeps the authorizer's policy per token (ReauthorizeEvery), the *)
(* authorizer keeps the pool's public keys (common/jwt.py), and a handler's*)
(* container keeps one tenant-scoped session per tenant                    *)
(* (common/tenant_scope.py).  Cognito, API Gateway and STS are external.   *)
(*                                                                         *)
(* A container runs one function and serves one request at a time: one the *)
(* gateway lets in, or, in the container of a task, one the pipeline (or a *)
(* queue or a bus) makes in the name of a tenant.  Time is a clock that    *)
(* any action may find advanced.                                           *)
(***************************************************************************)
EXTENDS Integers

CONSTANTS
    Kids,         \* ids of signing keys; none is ever used twice
    Tokens,       \* ID tokens
    Tenants,
    TenantOf,     \* the custom:tenant_id of each token, NoTenant if it has none
    NoTenant,
    Verifiers,    \* containers of the authorizer
    MaxTime,      \* bound: the clock
    TokenLife,    \* validity of a token
    LEEWAY,       \* jwt.LEEWAY_SECONDS
    JWKS_TTL,     \* jwt._JWKS_TTL_SECONDS
    REAUTHORIZE,  \* the gateway's ReauthorizeEvery
    Handlers,     \* the functions that open tenant-scoped sessions
    Tasks,        \* those of them the gateway does not invoke
    TIMEOUT,      \* the timeout of each
    DEFAULT_SESSION, MAX_SESSION, MIN_REMAINING,  \* of tenant_scope
    URL_TTL,      \* config.RUNBOOK_URL_TTL_SECONDS
    Nobody        \* no request is being served

Durations == {MaxTime, TokenLife, LEEWAY, JWKS_TTL, REAUTHORIZE,
              DEFAULT_SESSION, MAX_SESSION, MIN_REMAINING, URL_TTL}

Larger(a, b) == IF a >= b THEN a ELSE b
Smaller(a, b) == IF a <= b THEN a ELSE b

\* The lifetime tenant_signing_s3_client asks for.
SIGNING_SESSION == Larger(DEFAULT_SESSION, 2 * URL_TTL)

ASSUME DurationsAreNat == Durations \subseteq Nat
ASSUME TimeoutsAreNat == TIMEOUT \in [Handlers -> Nat]
ASSUME TenantsOfTokens ==
    /\ TenantOf \in [Tokens -> Tenants \cup {NoTenant}]
    /\ NoTenant \notin Tenants
ASSUME NobodyIsNoToken == Nobody \notin Tokens
ASSUME KeysAreKept == JWKS_TTL > 0
\* 60 s against 15 min, 15 min against 30.  No timeout is assumed to be within
\* MIN_REMAINING: those of the correlators, 90 s, are not.
ASSUME SessionsAreLongEnough ==
    /\ MIN_REMAINING < Smaller(DEFAULT_SESSION, MAX_SESSION)
    /\ URL_TTL < Smaller(SIGNING_SESSION, MAX_SESSION)

VARIABLES
    now,        \* the clock
    published,  \* the key ids in the pool's JWKS
    signing,    \* the one Cognito signs with
    retired,    \* history: the keys that have left the JWKS ...
    retiredAt,  \*   ... and when
    issued,     \* the tokens Cognito has issued
    token,      \* their key and expiry
    keys,       \* _jwks_cache: key ids, per authorizer container
    fetchedAt,  \*   and when they were fetched
    policy,     \* the gateway's cached policy per token, and until when
    session,    \* _cache: when the session of each tenant expires, 0 if none
    handler,    \* the function the container runs
    request     \* the request it serves: its tenant, the token it came by
                \* (Nobody for a task), since when, when the first of the
                \* sessions it opened expires (0: none), and of the presigned
                \* URL it returns until when it is promised and when it dies

vars == <<now, published, signing, retired, retiredAt, issued, token, keys,
          fetchedAt, policy, session, handler, request>>

Time == Nat
Idle == [tenant |-> NoTenant, token |-> Nobody, since |-> 0, expiry |-> 0,
         promised |-> 0, dies |-> 0]

TypeOK ==
    /\ now \in Time
    /\ published \subseteq Kids
    /\ signing \in Kids
    /\ retired \subseteq Kids
    /\ retiredAt \in [Kids -> Time]
    /\ issued \subseteq Tokens
    /\ token \in [Tokens -> [kid: Kids, exp: Time]]
    /\ keys \in [Verifiers -> SUBSET Kids]
    /\ fetchedAt \in [Verifiers -> Time]
    /\ policy \in [Tokens -> [effect: {"None", "Allow", "Deny"}, until: Time]]
    /\ session \in [Tenants -> Time]
    /\ handler \in Handlers
    /\ request \in [tenant: Tenants \cup {NoTenant}, token: Tokens \cup {Nobody},
                   since: Time, expiry: Time, promised: Time, dies: Time]

Init ==
    /\ now = 0
    /\ signing \in Kids
    /\ published = {signing}
    /\ retired = {}
    /\ retiredAt = [k \in Kids |-> 0]
    /\ issued = {}
    /\ token = [x \in Tokens |-> [kid |-> signing, exp |-> 0]]
    /\ keys = [v \in Verifiers |-> {}]
    /\ fetchedAt = [v \in Verifiers |-> 0]
    /\ policy = [x \in Tokens |-> [effect |-> "None", until |-> 0]]
    /\ session = [t \in Tenants |-> 0]
    /\ handler \in Handlers
    /\ request = Idle

poolVars == <<published, signing, retired, retiredAt, issued, token>>
gateVars == <<keys, fetchedAt, policy>>

Serving == request.tenant # NoTenant

\* A handler that has reached its timeout is killed before the clock goes on.
Tick ==
    /\ now < MaxTime
    /\ Serving => now < request.since + TIMEOUT[handler]
    /\ now' = now + 1
    /\ UNCHANGED <<poolVars, gateVars, session, handler, request>>

-----------------------------------------------------------------------------
(* Cognito: tokens are issued, the signing key is rotated and withdrawn.   *)

Issue(x) ==
    /\ x \notin issued
    /\ issued' = issued \cup {x}
    /\ token' = [token EXCEPT ![x] = [kid |-> signing, exp |-> now + TokenLife]]
    /\ UNCHANGED <<now, published, signing, retired, retiredAt, gateVars, session,
                   handler, request>>

Rotate(k) ==
    /\ k \notin published \cup retired
    /\ published' = published \cup {k}
    /\ signing' = k
    /\ UNCHANGED <<now, retired, retiredAt, issued, token, gateVars, session,
                   handler, request>>

Withdraw(k) ==
    /\ k \in published \ {signing}
    /\ published' = published \ {k}
    /\ retired' = retired \cup {k}
    /\ retiredAt' = [retiredAt EXCEPT ![k] = now]
    /\ UNCHANGED <<now, signing, issued, token, gateVars, session, handler, request>>

-----------------------------------------------------------------------------
(* The gateway and the authorizer.                                         *)

\* _public_keys would use what it has.
Fresh(v) ==
    /\ keys[v] # {}
    /\ now - fetchedAt[v] < JWKS_TTL

\* Mutants of KeysFor: no refresh for an unknown key; keys kept for good.
KeysWithoutRefresh(v, kid) == IF Fresh(v) THEN keys[v] ELSE published

KeysForGood(v, kid) == IF kid \in keys[v] THEN keys[v] ELSE published

\* The keys a verification ends up with: fetched if stale, or if the cached
\* ones do not know the key; one fetch at most.
KeysFor(v, kid) ==
    IF Fresh(v) /\ kid \in keys[v] THEN keys[v] ELSE published

\* verify_id_token and the handler's test for a tenant.
Verdict(x, known) ==
    IF /\ token[x].kid \in known
       /\ now <= token[x].exp + LEEWAY
       /\ TenantOf[x] # NoTenant
    THEN "Allow" ELSE "Deny"

\* The gateway holds a policy for the token.
Cached(x) == policy[x].effect # "None" /\ now <= policy[x].until

\* The gateway has no policy for the token and asks the authorizer, which
\* fetches keys if it must.  A fetch that fails raises: 500, nothing cached.
Authorize(v, x) ==
    /\ x \in issued
    /\ ~ Cached(x)
    /\ LET known == KeysFor(v, token[x].kid)
           cached == Fresh(v) /\ token[x].kid \in keys[v]
       IN  /\ keys' = [keys EXCEPT ![v] = known]
           /\ fetchedAt' = IF cached THEN fetchedAt
                           ELSE [fetchedAt EXCEPT ![v] = now]
           /\ policy' = [policy EXCEPT ![x] =
                 [effect |-> Verdict(x, known), until |-> now + REAUTHORIZE]]
    /\ UNCHANGED <<now, poolVars, session, handler, request>>

\* The gateway lets the request through on the policy it holds.
Enter(x) ==
    /\ ~ Serving /\ handler \notin Tasks
    /\ Cached(x) /\ policy[x].effect = "Allow"
    /\ request' = [Idle EXCEPT !.tenant = TenantOf[x], !.token = x, !.since = now]
    /\ UNCHANGED <<now, poolVars, gateVars, session, handler>>

\* A task is invoked: the tenant is the event's.
Invoke(t) ==
    /\ ~ Serving /\ handler \in Tasks
    /\ request' = [Idle EXCEPT !.tenant = t, !.since = now]
    /\ UNCHANGED <<now, poolVars, gateVars, session, handler>>

-----------------------------------------------------------------------------
(* A handler and its tenant-scoped sessions.                               *)

\* Mutant of Expiry: the cached session while it runs at all.
ExpiryWithoutMargin(t, duration, least) ==
    IF session[t] > now THEN session[t] ELSE now + Smaller(duration, MAX_SESSION)

\* _assumed_session: the cached one while it has more than `least` to run,
\* otherwise a new one from STS.
Expiry(t, duration, least) ==
    IF session[t] - now > least
    THEN session[t]
    ELSE now + Smaller(duration, MAX_SESSION)

\* tenant_dynamodb_resource and tenant_s3_client.  A handler opens several (a
\* correlator one for the stage mark and one for the object) and may go on using
\* each of them.
OpenSession ==
    /\ Serving
    /\ LET expiry == Expiry(request.tenant, DEFAULT_SESSION, MIN_REMAINING)
           first == IF request.expiry = 0 THEN expiry
                    ELSE Smaller(request.expiry, expiry)
       IN  /\ session' = [session EXCEPT ![request.tenant] = expiry]
           /\ request' = [request EXCEPT !.expiry = first]
    /\ UNCHANGED <<now, poolVars, gateVars, handler>>

\* tenant_signing_s3_client and the URL signed with it: of the functions, only
\* query_diagnostics signs.
SignUrl ==
    /\ Serving /\ handler \notin Tasks
    /\ LET t == request.tenant
           expiry == Expiry(t, SIGNING_SESSION, URL_TTL)
       IN  /\ session' = [session EXCEPT ![t] = expiry]
           /\ request' = [request EXCEPT !.promised = now + URL_TTL, !.dies = expiry]
    /\ UNCHANGED <<now, poolVars, gateVars, handler>>

\* Answered, failed or killed.
Leave ==
    /\ Serving
    /\ request' = Idle
    /\ UNCHANGED <<now, poolVars, gateVars, session, handler>>

Next ==
    \/ Tick
    \/ \E x \in Tokens : Issue(x) \/ Enter(x)
    \/ \E k \in Kids : Rotate(k) \/ Withdraw(k)
    \/ \E v \in Verifiers, x \in Tokens : Authorize(v, x)
    \/ \E t \in Tenants : Invoke(t)
    \/ OpenSession \/ SignUrl \/ Leave

Spec == Init /\ [][Next]_vars

-----------------------------------------------------------------------------
\* How much longer than MIN_REMAINING a function may run.
Overrun(h) ==
    IF TIMEOUT[h] > MIN_REMAINING THEN TIMEOUT[h] - MIN_REMAINING ELSE 0

\* Trust ends: across both caches, no request is let in on a token that expired
\* longer than LEEWAY + REAUTHORIZE ago, or whose key left the JWKS JWKS_TTL +
\* REAUTHORIZE ago (jwt.py:37-45, template.yaml:1241).
TrustEnds ==
    request.token # Nobody =>
       LET x == request.token
           kid == token[x].kid
       IN  /\ request.since <= token[x].exp + LEEWAY + REAUTHORIZE
           /\ kid \in retired =>
                 request.since < retiredAt[kid] + JWKS_TTL + REAUTHORIZE

\* A rotated key is taken up at once: a token is refused, by the authorizer or
\* by a policy of the gateway, only if its key has left the JWKS, it has expired
\* or it names no tenant (jwt.py:101-111).
PublishedKeyOpens ==
    \A x \in Tokens :
       policy[x].effect = "Deny" =>
          \/ token[x].kid \notin published
          \/ now > token[x].exp + LEEWAY
          \/ TenantOf[x] = NoTenant

\* However old the session in the cache was when a handler asked, what it gets
\* stays good while it may run: none whose timeout is within MIN_REMAINING holds
\* expired credentials, and one with a longer timeout (the correlators' 90 s
\* against 60 s, template.yaml:610, :630) holds them no longer than the
\* difference.  A presigned URL works for as long as it says
\* (tenant_scope.py:29-35, :71-82).
CredentialsOutliveTheirUse ==
    /\ request.expiry # 0 => now < request.expiry + Overrun(handler)
    /\ request.promised <= request.dies

=============================================================================
