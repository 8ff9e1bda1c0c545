---------------------------- MODULE AccessProofs ----------------------------
(***************************************************************************)
(* Access, proved for any number of keys, tokens, tenants, functions and   *)
(* authorizer containers and for any intervals that Access assumes.        *)
(***************************************************************************)
EXTENDS Access, TLAPS

LEMMA DurationTypes ==
    /\ MaxTime \in Nat /\ TokenLife \in Nat /\ LEEWAY \in Nat
    /\ JWKS_TTL \in Nat /\ REAUTHORIZE \in Nat
    /\ DEFAULT_SESSION \in Nat /\ MAX_SESSION \in Nat /\ MIN_REMAINING \in Nat
    /\ URL_TTL \in Nat
    /\ \A h \in Handlers : TIMEOUT[h] \in Nat
  BY DurationsAreNat, TimeoutsAreNat DEF Durations

LEMMA SigningIsNat == SIGNING_SESSION \in Nat
  BY DurationTypes DEF SIGNING_SESSION, Larger

\* Keys come and go in order: published, then retired, never again.
PoolInOrder ==
    /\ published \cap retired = {} /\ signing \in published
    /\ \A k \in retired : retiredAt[k] <= now
    /\ \A x \in issued : token[x].kid \in published \cup retired

\* What an authorizer's container has cached was published when it was fetched.
CacheIsDated ==
    \A v \in Verifiers :
       /\ fetchedAt[v] <= now
       /\ \A k \in keys[v] :
             /\ k \in published \cup retired
             /\ k \in retired => fetchedAt[v] <= retiredAt[k]

\* How long a policy that lets a token through can stand.
PolicyEnds ==
    \A x \in Tokens :
       /\ policy[x].effect # "None" => x \in issued
       /\ policy[x].effect = "Allow" =>
             /\ TenantOf[x] # NoTenant
             /\ policy[x].until <= now + REAUTHORIZE
             /\ policy[x].until <= token[x].exp + LEEWAY + REAUTHORIZE
             /\ token[x].kid \in retired =>
                   policy[x].until < retiredAt[token[x].kid] + JWKS_TTL + REAUTHORIZE

\* A handler serves a request no longer than its timeout, on sessions that had
\* MIN_REMAINING to run when it opened them; a token that brought the request is
\* an issued one.
RequestIsCurrent ==
    /\ request.token # Nobody => Serving /\ request.token \in issued
    /\ Serving => request.since <= now /\ now <= request.since + TIMEOUT[handler]
    /\ request.expiry # 0 =>
          Serving /\ request.since + MIN_REMAINING < request.expiry

Inv ==
    /\ TypeOK
    /\ PoolInOrder
    /\ CacheIsDated
    /\ PolicyEnds
    /\ RequestIsCurrent
    /\ TrustEnds
    /\ PublishedKeyOpens
    /\ request.promised <= request.dies

LEMMA InvInit == Init => Inv
  BY DurationTypes DEF Init, Inv, TypeOK, PoolInOrder, CacheIsDated, PolicyEnds,
     RequestIsCurrent, TrustEnds, PublishedKeyOpens, Idle, Serving, Time

\* A session handed out runs for longer than was asked for at least.
LEMMA SessionRuns ==
    ASSUME TypeOK, NEW t \in Tenants, NEW duration \in Nat, NEW least \in Nat,
           least < Smaller(duration, MAX_SESSION)
    PROVE  /\ Expiry(t, duration, least) \in Nat
           /\ Expiry(t, duration, least) > now + least
  BY DurationTypes DEF TypeOK, Expiry, Smaller, Time

-----------------------------------------------------------------------------
(* One lemma per action.                                                   *)

LEMMA TickInv == Inv /\ Tick => Inv'
  <1> SUFFICES ASSUME Inv, Tick PROVE Inv'
    OBVIOUS
  <1> USE DurationTypes DEF Inv, Tick, poolVars, gateVars, Serving
  <1>1. TypeOK'
    BY DEF TypeOK, Time
  <1>2. PoolInOrder' /\ CacheIsDated' /\ PublishedKeyOpens'
    BY DEF TypeOK, Time, PoolInOrder, CacheIsDated, PublishedKeyOpens
  <1>3. PolicyEnds'
    BY DEF TypeOK, Time, PolicyEnds
  <1>4. RequestIsCurrent' /\ TrustEnds' /\ request'.promised <= request'.dies
    BY DEF TypeOK, Time, RequestIsCurrent, TrustEnds
  <1> QED
    BY <1>1, <1>2, <1>3, <1>4

LEMMA IssueInv == ASSUME NEW x \in Tokens PROVE Inv /\ Issue(x) => Inv'
  <1> SUFFICES ASSUME Inv, Issue(x) PROVE Inv'
    OBVIOUS
  <1> USE DurationTypes DEF Inv, Issue, gateVars, Serving
  <1>1. TypeOK'
    BY DEF TypeOK, Time
  <1>2. PoolInOrder' /\ CacheIsDated'
    BY DEF TypeOK, PoolInOrder, CacheIsDated
  <1>3. PolicyEnds' /\ PublishedKeyOpens'
    BY DEF TypeOK, PolicyEnds, PublishedKeyOpens
  <1>4. RequestIsCurrent' /\ TrustEnds' /\ request'.promised <= request'.dies
    BY DEF TypeOK, RequestIsCurrent, TrustEnds
  <1> QED
    BY <1>1, <1>2, <1>3, <1>4

LEMMA RotateInv == ASSUME NEW k \in Kids PROVE Inv /\ Rotate(k) => Inv'
  <1> SUFFICES ASSUME Inv, Rotate(k) PROVE Inv'
    OBVIOUS
  <1> USE DEF Inv, Rotate, gateVars, Serving
  <1>1. TypeOK'
    BY DEF TypeOK
  <1>2. PoolInOrder' /\ CacheIsDated'
    BY DEF TypeOK, PoolInOrder, CacheIsDated
  <1>3. PolicyEnds'
    BY DEF TypeOK, PolicyEnds
  <1>4. PublishedKeyOpens'
    BY DEF TypeOK, PolicyEnds, PoolInOrder, PublishedKeyOpens
  <1>5. RequestIsCurrent' /\ TrustEnds' /\ request'.promised <= request'.dies
    BY DEF TypeOK, RequestIsCurrent, TrustEnds
  <1> QED
    BY <1>1, <1>2, <1>3, <1>4, <1>5

LEMMA WithdrawInv == ASSUME NEW k \in Kids PROVE Inv /\ Withdraw(k) => Inv'
  <1> SUFFICES ASSUME Inv, Withdraw(k) PROVE Inv'
    OBVIOUS
  <1> USE DurationTypes, KeysAreKept DEF Inv, Withdraw, gateVars, Serving
  <1>1. TypeOK'
    BY DEF TypeOK, Time
  <1>2. PoolInOrder'
    BY DEF TypeOK, Time, PoolInOrder
  <1>3. CacheIsDated'
    BY DEF TypeOK, Time, CacheIsDated, PoolInOrder
  <1>4. PolicyEnds'
    BY DEF TypeOK, Time, PolicyEnds, PoolInOrder
  <1>5. PublishedKeyOpens'
    BY DEF TypeOK, PublishedKeyOpens
  <1>6. TrustEnds'
    BY DEF TypeOK, Time, RequestIsCurrent, TrustEnds
  <1>7. RequestIsCurrent' /\ request'.promised <= request'.dies
    BY DEF TypeOK, RequestIsCurrent
  <1> QED
    BY <1>1, <1>2, <1>3, <1>4, <1>5, <1>6, <1>7

\* The keys a verification uses are cached ones it may still trust, or those
\* published at the moment.
LEMMA KeysAreTrusted ==
    ASSUME Inv, NEW v \in Verifiers, NEW kid \in Kids
    PROVE  /\ KeysFor(v, kid) \subseteq Kids
           /\ kid \in published => kid \in KeysFor(v, kid)
           /\ kid \in KeysFor(v, kid) /\ kid \in retired =>
                 now < retiredAt[kid] + JWKS_TTL
  BY DurationTypes DEF Inv, TypeOK, Time, PoolInOrder, CacheIsDated, KeysFor, Fresh

LEMMA AuthorizeInv ==
    ASSUME NEW v \in Verifiers, NEW x \in Tokens
    PROVE  Inv /\ Authorize(v, x) => Inv'
  <1> SUFFICES ASSUME Inv, Authorize(v, x) PROVE Inv'
    OBVIOUS
  <1> DEFINE known == KeysFor(v, token[x].kid)
             kid == token[x].kid
             verdict == Verdict(x, known)
  <1>1. /\ x \in issued /\ kid \in Kids /\ token[x].exp \in Nat
        /\ now \in Nat
        /\ keys' = [keys EXCEPT ![v] = known]
        /\ fetchedAt' = IF Fresh(v) /\ kid \in keys[v] THEN fetchedAt
                        ELSE [fetchedAt EXCEPT ![v] = now]
        /\ policy' = [policy EXCEPT ![x] =
              [effect |-> verdict, until |-> now + REAUTHORIZE]]
        /\ UNCHANGED <<now, poolVars, session, handler, request>>
    BY DEF Authorize, Inv, TypeOK, Time
  <1>2. UNCHANGED <<published, signing, retired, retiredAt, issued, token>>
    BY <1>1 DEF poolVars
  <1>3. /\ known \subseteq Kids
        /\ kid \in published => kid \in known
        /\ kid \in known /\ kid \in retired => now < retiredAt[kid] + JWKS_TTL
    BY <1>1, KeysAreTrusted
  <1>4. /\ verdict \in {"Allow", "Deny"}
        /\ verdict = "Allow" =>
              kid \in known /\ now <= token[x].exp + LEEWAY /\ TenantOf[x] # NoTenant
        /\ verdict = "Deny" =>
              kid \notin known \/ now > token[x].exp + LEEWAY \/ TenantOf[x] = NoTenant
    BY <1>1, DurationTypes DEF Verdict
  <1> HIDE DEF verdict
  <1>5. TypeOK'
    BY <1>1, <1>2, <1>3, <1>4, DurationTypes DEF Inv, TypeOK, Time
  <1>6. CacheIsDated'
    <2>1. CASE Fresh(v) /\ kid \in keys[v]
      <3>1. known = keys[v]
        BY <2>1 DEF KeysFor
      <3>2. keys' = keys /\ fetchedAt' = fetchedAt
        BY <1>1, <2>1, <3>1 DEF Inv, TypeOK
      <3> QED
        BY <1>1, <1>2, <3>2 DEF Inv, CacheIsDated
    <2>2. CASE ~ (Fresh(v) /\ kid \in keys[v])
      <3>1. known = published
        BY <2>2 DEF KeysFor
      <3> HIDE DEF known
      <3>2. /\ \A w \in Verifiers \ {v} : keys'[w] = keys[w] /\ fetchedAt'[w] = fetchedAt[w]
            /\ keys'[v] = published /\ fetchedAt'[v] = now
        BY <1>1, <2>2, <3>1 DEF Inv, TypeOK
      <3> QED
        BY <1>1, <1>2, <3>2 DEF Inv, TypeOK, Time, CacheIsDated, PoolInOrder
    <2> QED
      BY <2>1, <2>2
  <1> HIDE DEF known
  <1>7. PolicyEnds'
    BY <1>1, <1>2, <1>3, <1>4, DurationTypes DEF Inv, TypeOK, Time, PolicyEnds
  <1>8. PublishedKeyOpens'
    BY <1>1, <1>2, <1>3, <1>4 DEF Inv, TypeOK, PublishedKeyOpens
  <1>9. PoolInOrder' /\ RequestIsCurrent' /\ TrustEnds' /\ request'.promised <= request'.dies
    BY <1>1, <1>2 DEF Inv, PoolInOrder, RequestIsCurrent, TrustEnds, Serving
  <1> QED
    BY <1>5, <1>6, <1>7, <1>8, <1>9 DEF Inv

\* Enter and Invoke start a request that holds nothing yet.
LEMMA EnterInv ==
    ASSUME NEW x \in Tokens PROVE Inv /\ Enter(x) => Inv'
  <1> SUFFICES ASSUME Inv, Enter(x) PROVE Inv'
    OBVIOUS
  <1>1. /\ request' = [tenant |-> TenantOf[x], token |-> x, since |-> now,
                       expiry |-> 0, promised |-> 0, dies |-> 0]
        /\ policy[x].effect = "Allow" /\ now <= policy[x].until
        /\ UNCHANGED <<now, poolVars, gateVars, session, handler>>
    BY DEF Enter, Cached, Idle
  <1>2. UNCHANGED <<published, signing, retired, retiredAt, issued, token, keys,
                    fetchedAt, policy>>
    BY <1>1 DEF poolVars, gateVars
  <1>3. TypeOK' /\ request'.promised <= request'.dies
    BY <1>1, <1>2, TenantsOfTokens DEF Inv, TypeOK, Time
  <1>4. PoolInOrder' /\ CacheIsDated' /\ PolicyEnds' /\ PublishedKeyOpens'
    BY <1>1, <1>2 DEF Inv, PoolInOrder, CacheIsDated, PolicyEnds, PublishedKeyOpens
  <1>5. RequestIsCurrent' /\ TrustEnds'
    BY <1>1, <1>2, DurationTypes
       DEF Inv, TypeOK, Time, PolicyEnds, RequestIsCurrent, TrustEnds, Serving
  <1> QED
    BY <1>3, <1>4, <1>5 DEF Inv

LEMMA InvokeInv ==
    ASSUME NEW t \in Tenants PROVE Inv /\ Invoke(t) => Inv'
  <1> SUFFICES ASSUME Inv, Invoke(t) PROVE Inv'
    OBVIOUS
  <1>1. /\ request' = [tenant |-> t, token |-> Nobody, since |-> now,
                       expiry |-> 0, promised |-> 0, dies |-> 0]
        /\ UNCHANGED <<now, poolVars, gateVars, session, handler>>
    BY DEF Invoke, Idle
  <1>2. UNCHANGED <<published, signing, retired, retiredAt, issued, token, keys,
                    fetchedAt, policy>>
    BY <1>1 DEF poolVars, gateVars
  <1>3. TypeOK' /\ request'.promised <= request'.dies
    BY <1>1, <1>2 DEF Inv, TypeOK, Time
  <1>4. PoolInOrder' /\ CacheIsDated' /\ PolicyEnds' /\ PublishedKeyOpens'
    BY <1>1, <1>2 DEF Inv, PoolInOrder, CacheIsDated, PolicyEnds, PublishedKeyOpens
  <1>5. RequestIsCurrent' /\ TrustEnds'
    BY <1>1, <1>2, DurationTypes
       DEF Inv, TypeOK, Time, RequestIsCurrent, TrustEnds, Serving
  <1> QED
    BY <1>3, <1>4, <1>5 DEF Inv

Request == [tenant: Tenants \cup {NoTenant}, token: Tokens \cup {Nobody},
            since: Nat, expiry: Nat, promised: Nat, dies: Nat]

\* OpenSession and SignUrl change the session and what the request knows of it.
LEMMA SessionInv ==
    ASSUME Inv, Serving,
           UNCHANGED <<now, poolVars, gateVars, handler>>,
           NEW expiry \in Nat,
           session' = [session EXCEPT ![request.tenant] = expiry],
           request' \in Request,
           request'.tenant = request.tenant, request'.token = request.token,
           request'.since = request.since,
           request'.promised <= request'.dies,
           request'.expiry # request.expiry =>
              request.since + MIN_REMAINING < request'.expiry
    PROVE  Inv'
  <1>1. UNCHANGED <<published, signing, retired, retiredAt, issued, token, keys,
                    fetchedAt, policy, now, handler>>
    BY DEF poolVars, gateVars
  <1>2. TypeOK'
    <2>1. session' \in [Tenants -> Nat]
      BY DEF Inv, TypeOK, Time
    <2> QED
      BY <1>1, <2>1 DEF Inv, TypeOK, Time, Request
  <1>3. PoolInOrder' /\ CacheIsDated' /\ PolicyEnds' /\ PublishedKeyOpens'
    BY <1>1 DEF Inv, PoolInOrder, CacheIsDated, PolicyEnds, PublishedKeyOpens
  <1>4. TrustEnds'
    BY <1>1 DEF Inv, TrustEnds
  <1>5. RequestIsCurrent'
    BY <1>1 DEF Inv, RequestIsCurrent, Serving
  <1> QED
    BY <1>2, <1>3, <1>4, <1>5 DEF Inv

LEMMA ServedTenant ==
    Inv /\ Serving => /\ request.tenant \in Tenants
                      /\ request \in Request
                      /\ now \in Nat /\ request.since <= now
  BY DEF Inv, TypeOK, Time, Request, RequestIsCurrent, Serving

LEMMA OpenSessionInv == Inv /\ OpenSession => Inv'
  <1> SUFFICES ASSUME Inv, OpenSession PROVE Inv'
    OBVIOUS
  <1> DEFINE expiry == Expiry(request.tenant, DEFAULT_SESSION, MIN_REMAINING)
             first == IF request.expiry = 0 THEN expiry
                      ELSE Smaller(request.expiry, expiry)
  <1>1. /\ Serving
        /\ UNCHANGED <<now, poolVars, gateVars, handler>>
        /\ session' = [session EXCEPT ![request.tenant] = expiry]
        /\ request' = [request EXCEPT !.expiry = first]
    BY DEF OpenSession
  <1>2. expiry \in Nat /\ expiry > now + MIN_REMAINING
    BY <1>1, SessionRuns, ServedTenant, DurationTypes, SessionsAreLongEnough DEF Inv
  <1> HIDE DEF expiry
  <1>3. first \in Nat /\ (first # request.expiry => first = expiry)
    BY <1>1, <1>2, ServedTenant DEF Smaller, Request
  <1> HIDE DEF first
  <1>4. /\ request' \in Request
        /\ request'.expiry = first
        /\ request'.tenant = request.tenant /\ request'.token = request.token
        /\ request'.since = request.since
        /\ request'.promised = request.promised /\ request'.dies = request.dies
    BY <1>1, <1>3, ServedTenant DEF Request
  <1>5. request'.promised <= request'.dies
    BY <1>4 DEF Inv
  <1>6. request'.expiry # request.expiry =>
           request.since + MIN_REMAINING < request'.expiry
    BY <1>1, <1>2, <1>3, <1>4, ServedTenant, DurationTypes DEF Request
  <1> QED
    BY <1>1, <1>2, <1>4, <1>5, <1>6, SessionInv

LEMMA SignUrlInv == Inv /\ SignUrl => Inv'
  <1> SUFFICES ASSUME Inv, SignUrl PROVE Inv'
    OBVIOUS
  <1> DEFINE expiry == Expiry(request.tenant, SIGNING_SESSION, URL_TTL)
             until == now + URL_TTL
  <1>1. /\ Serving
        /\ UNCHANGED <<now, poolVars, gateVars, handler>>
        /\ session' = [session EXCEPT ![request.tenant] = expiry]
        /\ request' = [request EXCEPT !.promised = until, !.dies = expiry]
    BY DEF SignUrl
  <1>2. expiry \in Nat /\ expiry > now + URL_TTL
    BY <1>1, SessionRuns, ServedTenant, DurationTypes, SigningIsNat,
       SessionsAreLongEnough DEF Inv
  <1>3. until \in Nat /\ until <= expiry
    BY <1>1, <1>2, ServedTenant, DurationTypes
  <1> HIDE DEF expiry, until
  <1>4. /\ request' \in Request
        /\ request'.tenant = request.tenant /\ request'.token = request.token
        /\ request'.since = request.since /\ request'.expiry = request.expiry
        /\ request'.promised <= request'.dies
    BY <1>1, <1>2, <1>3, ServedTenant DEF Request
  <1> QED
    BY <1>1, <1>2, <1>4, SessionInv

LEMMA LeaveInv == Inv /\ Leave => Inv'
  BY DEF Inv, Leave, TypeOK, Time, PoolInOrder, CacheIsDated, PolicyEnds,
         RequestIsCurrent, TrustEnds, PublishedKeyOpens, Idle, Serving, poolVars,
         gateVars

LEMMA InvStep == Inv /\ [Next]_vars => Inv'
  <1> SUFFICES ASSUME Inv, [Next]_vars PROVE Inv'
    OBVIOUS
  <1>1. CASE UNCHANGED vars
    BY <1>1 DEF vars, Inv, TypeOK, PoolInOrder, CacheIsDated, PolicyEnds,
                RequestIsCurrent, TrustEnds, PublishedKeyOpens, Serving
  <1>2. CASE Next
    BY <1>2, TickInv, IssueInv, RotateInv, WithdrawInv, AuthorizeInv, EnterInv,
       InvokeInv, OpenSessionInv, SignUrlInv, LeaveInv DEF Next
  <1> QED
    BY <1>1, <1>2

LEMMA InvAlways == Spec => []Inv
  BY InvInit, InvStep, PTL DEF Spec

\* Every value the model gives its variables is of the type TypeOK says.
THEOREM AccessTypeCorrect == Spec => []TypeOK
  BY InvAlways, PTL DEF Inv

\* A token opens nothing once the leeway, and a key once its time in the key
\* cache, and one interval of the gateway's cache have passed.
THEOREM AccessTrustEnds == Spec => []TrustEnds
  BY InvAlways, PTL DEF Inv

\* A key in the JWKS is never refused, whenever it got there.
THEOREM AccessTakesUpNewKeys == Spec => []PublishedKeyOpens
  BY InvAlways, PTL DEF Inv

\* Credentials expire in the hands of no function that runs within the margin,
\* and of the others no more than their overrun before the end; no URL dies before
\* its time.
THEOREM AccessCredentialsLast == Spec => []CredentialsOutliveTheirUse
  <1>1. Inv => CredentialsOutliveTheirUse
    BY DurationTypes DEF Inv, TypeOK, Time, RequestIsCurrent, Overrun,
                         CredentialsOutliveTheirUse
  <1> QED
    BY <1>1, InvAlways, PTL

=============================================================================
