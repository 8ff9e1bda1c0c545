---------------------------- MODULE TenancyProps ----------------------------
(***************************************************************************)
(* What is claimed of Tenancy, apart from the model itself.                *)
(***************************************************************************)
EXTENDS Tenancy

HasAdmin(t) == \E u \in Users : TenantOf[u] = t /\ TENANT_ADMIN \in groups[u]

\* The founder, who claimed the tenant, and whoever an admin has promoted.
EverAdmin(u) == profile[TenantOf[u]] = u \/ u \in promoted

\* A tenant whose profile row exists has all its key material, and no key is
\* ever replaced: overlapping signups and repeated repairs strand no ciphertext
\* (tenant_provision.py:17-21, paramstore.py:90-92).
TenantKeepsItsKeys ==
    [][\A t \in Tenants, kind \in KINDS :
          /\ profile'[t] # Nobody => keys'[t][kind] # 0
          /\ keys[t][kind] # 0 => keys'[t][kind] = keys[t][kind]]_vars

IsActing(u) == \E s \in Slots : change[s].at # "free" /\ change[s].actor = u

\* An account gets nothing before its tenant has everything: whoever has a tenant
\* attribute, a group, a member row, a token or a part in a role change belongs to
\* a tenant with a profile and all its keys, whichever run of the handler got how
\* far; and an account from whose address no tenant follows, confirmed because
\* pre_signup.py let it pass, is placed by none and has none of it
\* (tenant_provision.py:17-21, :128-137, tenancy.py:57-69).
EveryMemberIsProvisioned ==
    \A u \in Users :
       /\ BeingPlaced(u) \/ u \in listed => TenantOf[u] # NoTenant
       /\ \/ u \in scoped \cup empowered
          \/ groups[u] # {} \/ roster[u] # "absent"
          \/ BeingChanged(u) \/ IsActing(u)
          => /\ TenantOf[u] # NoTenant
             /\ profile[TenantOf[u]] # Nobody
             /\ \A kind \in KINDS : keys[TenantOf[u]][kind] # 0

\* Every admin's authority goes back to the user who claimed the tenant: groups,
\* tokens and running role changes belong to the founder or to someone promoted
\* by a member of the same tenant who had been an admin before; no role change
\* reaches into another tenant (team.py:14-18, tenant_provision.py:13-15).
AuthorityFromTheFounder ==
    /\ \A u \in Users :
          TENANT_ADMIN \in groups[u] \/ u \in empowered => EverAdmin(u)
    /\ \A s \in Slots :
          change[s].at # "free" =>
             /\ TenantOf[change[s].actor] = TenantOf[change[s].target]
             /\ EverAdmin(change[s].actor)

\* A tenant that has an admin keeps one, through failed placements and any
\* overlapping role changes other than two demotions, two changes of one
\* member, or one that stopped half-way; and through reads of the roster that
\* lag, unless every other admin the guard saw had been demoted by then
\* (team.py:52-58, :137-156).
AdminRemains ==
    [][\A t \in Tenants :
          HasAdmin(t) /\ t \notin troubled' => HasAdmin(t)']_vars

\* The roster, which the last-admin guard reads, tells a member's only Cognito
\* group, which the token will carry, unless the member is being changed or
\* operations in the tenant have overlapped or broken off, or a stale row let a
\* demotion through (team.py:166-173, tenant_provision.py:155).
RosterAgrees ==
    \A u \in Users :
       /\ roster[u] # "absent"
       /\ TenantOf[u] \notin troubled
       /\ ~ BeingChanged(u)
       => groups[u] = {roster[u]}

\* The first user of a tenant becomes its admin (tenant_provision.py:13-15):
\* a claimed tenant all of whose users are scoped and settled has an admin.
ClaimedTenantHasAdmin ==
    \A t \in Tenants :
       /\ profile[t] # Nobody
       /\ \A u \in Users :
             TenantOf[u] = t => /\ u \in scoped
                                /\ ~ BeingPlaced(u)
                                /\ ~ BeingChanged(u)
       => HasAdmin(t)

=============================================================================
