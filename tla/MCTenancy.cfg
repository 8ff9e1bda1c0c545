SPECIFICATION Spec
CONSTANTS
    ann = ann
    amy = amy
    tom = tom
    bob = bob
    zoe = zoe
    acme = acme
    beta = beta
    Users = {ann, amy, bob, zoe}
    Tenants = {acme, beta}
    TenantOf <- TwoTenants
    Sub <- MCSub
    MAX_MEMBERS = 2
    Settled = {bob}
    Slots = {s1}
    NewRoles = {"TenantAdmin"}
    Backfills = TRUE
    MayFail = TRUE
    MayLag = FALSE
    Nobody = Nobody
INVARIANTS
    AuthorityFromTheFounder
    EveryMemberIsProvisioned
    RosterAgrees
PROPERTIES
    TenantKeepsItsKeys
CHECK_DEADLOCK FALSE
