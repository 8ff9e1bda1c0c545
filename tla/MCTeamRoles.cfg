SPECIFICATION Spec
CONSTANTS
    ann = ann
    amy = amy
    tom = tom
    bob = bob
    zoe = zoe
    acme = acme
    beta = beta
    Users = {ann, amy, tom}
    Tenants = {acme}
    TenantOf <- OneTenant
    Sub <- MCSubOfThree
    MAX_MEMBERS = 2
    Settled = {ann}
    Slots = {s1, s2}
    NewRoles = {"TenantAdmin", "TenantEngineer"}
    Backfills = FALSE
    MayFail = TRUE
    MayLag = TRUE
    Nobody = Nobody
SYMMETRY SlotsAlike
CONSTRAINT Untroubled
INVARIANTS
    RosterAgrees
PROPERTIES
    AdminRemains
CHECK_DEADLOCK FALSE
