SPECIFICATION Spec
CONSTANTS
    ann = ann
    amy = amy
    tom = tom
    bob = bob
    zoe = zoe
    acme = acme
    beta = beta
    Users = {ann}
    Tenants = {acme}
    TenantOf <- Alone
    Sub <- MCSubOfOne
    MAX_MEMBERS = 1
    Settled = {}
    Slots = {s1}
    NewRoles = {"TenantAdmin"}
    Backfills = TRUE
    MayFail = TRUE
    MayLag = FALSE
    Nobody = Nobody
INVARIANTS
    ClaimedTenantHasAdmin
CHECK_DEADLOCK FALSE
