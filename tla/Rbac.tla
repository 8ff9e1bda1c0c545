-------------------------------- MODULE Rbac --------------------------------
(***************************************************************************)
(* common/rbac.py: the matrix through which every handler asks whether the *)
(* caller's group holds a capability.  A caller reaches a handler as the   *)
(* pair (tenant, group) the authorizer put in the request context; NoTenant*)
(* stands for a context without a tenant (a public-domain signup) and      *)
(* NoGroup for one whose group is empty or not in the matrix.              *)
(***************************************************************************)

TENANT_ADMIN == "TenantAdmin"
TENANT_ENGINEER == "TenantEngineer"
TENANT_LEADERSHIP == "TenantLeadership"

ROLES == {TENANT_ADMIN, TENANT_ENGINEER, TENANT_LEADERSHIP}

NoGroup == "NoGroup"
NoTenant == "NoTenant"

Identities == ROLES \cup {NoGroup, NoTenant}

READ_CAPABILITIES == {"view_incidents", "view_diagnosis", "view_runbooks"}
REVIEW_CAPABILITIES == {"view_audit", "view_overview", "view_team"}
ADMIN_CAPABILITIES ==
    {"approve_remediation", "manage_integrations", "manage_roles"}

Capability ==
    READ_CAPABILITIES \cup REVIEW_CAPABILITIES \cup ADMIN_CAPABILITIES
        \cup {"create_incident"}

\* The roles that hold each capability.
CAPABILITIES ==
    [cap \in Capability |->
        IF cap \in READ_CAPABILITIES THEN ROLES
        ELSE IF cap \in REVIEW_CAPABILITIES THEN {TENANT_ADMIN, TENANT_LEADERSHIP}
        ELSE IF cap \in ADMIN_CAPABILITIES THEN {TENANT_ADMIN}
        ELSE {TENANT_ADMIN, TENANT_ENGINEER}]

\* can(): a group outside the matrix holds nothing.
Can(group, capability) == group \in CAPABILITIES[capability]

=============================================================================
