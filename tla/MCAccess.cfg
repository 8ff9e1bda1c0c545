SPECIFICATION Spec
CONSTANTS
    x1 = x1
    x2 = x2
    acme = acme
    query = query
    correlate = correlate
    Handlers = {query, correlate}
    Tasks = {correlate}
    Kids = {k1, k2}
    Tokens = {x1, x2}
    Tenants = {acme}
    TenantOf <- MCTenantOf
    NoTenant = NoTenant
    Verifiers = {v1}
    MaxTime = 6
    TokenLife = 2
    LEEWAY = 1
    JWKS_TTL = 2
    REAUTHORIZE = 1
    TIMEOUT <- MCTIMEOUT
    DEFAULT_SESSION = 3
    MAX_SESSION = 7
    MIN_REMAINING = 1
    URL_TTL = 3
    Nobody = Nobody
SYMMETRY Symmetry
CHECK_DEADLOCK FALSE
INVARIANTS
    TrustEnds
    PublishedKeyOpens
    CredentialsOutliveTheirUse
