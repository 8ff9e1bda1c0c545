------------------------------ MODULE Tenancy ------------------------------
(***************************************************************************)
(* Who is in a tenant and who administers it.  A signup is placed by       *)
(* fn-tenant-provision (handlers/tenant_provision.py), run by Cognito once *)
(* per confirmed user and again by scripts/backfill_tenants.py for users   *)
(* it left unscoped; fn-team (handlers/team.py) changes a member's role.   *)
(* They share key parameters in SSM, the tenant's rows in DynamoDB and the *)
(* groups in Cognito; one action per call to any of these, in any          *)
(* interleaving, and an invocation may end after any of them.  What the    *)
(* last-admin guard reads of the roster may lag behind it.                 *)
(***************************************************************************)
EXTENDS Naturals, FiniteSets, Rbac

CONSTANTS
    Users,      \* accounts of the user pool
    Tenants,    \* tenant ids
    TenantOf,   \* the tenant derived from each account's address, or NoTenant
    Sub,        \* the order of the accounts' subs, and so of their USER# rows
    Settled,    \* founders of tenants that were provisioned before the start
    Slots,      \* bound: role changes that run at once
    NewRoles,   \* the roles role changes ask for
    MAX_MEMBERS,  \* team.MAX_MEMBERS
    Backfills,  \* whether the backfill script is ever run
    MayFail,    \* whether calls fail and invocations die
    MayLag,     \* whether eventually consistent reads lag
    Nobody      \* no user

ASSUME EveryUserIsDerived == TenantOf \in [Users -> Tenants \cup {NoTenant}]
ASSUME NoTenantIsNone == NoTenant \notin Tenants
ASSUME NobodyIsNoUser == Nobody \notin Users
ASSUME SubsDiffer ==
    /\ Sub \in [Users -> Nat]
    /\ \A u, v \in Users : Sub[u] = Sub[v] => u = v
ASSUME MaxMembersIsNat == MAX_MEMBERS \in Nat
ASSUME NewRolesAreRoles == NewRoles \subseteq ROLES
ASSUME SettledFoundOneTenant ==
    /\ Settled \subseteq Users
    /\ \A u \in Settled : TenantOf[u] \in Tenants
    /\ \A u, v \in Settled : TenantOf[u] = TenantOf[v] => u = v

VARIABLES
    keys,       \* how often each kind of a tenant's key material was written
    profile,    \* the PROFILE row of each tenant: who claimed it, or Nobody
    scoped,     \* users whose custom:tenant_id is set
    groups,     \* the Cognito groups of each user
    roster,     \* the role in each user's USER# row, "absent" without one
    replica,    \* the same as a read that lags may tell it
    at,         \* where each run of the provisioning handler is
    given,      \* the role each run of it gives, NoGroup before the claim
    listed,     \* users the backfill script has listed and not yet repaired
    empowered,  \* users with an unexpired token that may manage roles
    change,     \* the role changes in progress
    promoted,   \* history: users an admin has made an admin
    troubled    \* history: tenants where operations overlapped or broke off, or
                \* a stale row let a demotion through

tenantVars == <<keys, profile>>
memberVars == <<scoped, groups, roster, replica>>
provisioning == <<at, given, listed>>
history == <<promoted, troubled>>
vars == <<keys, profile, scoped, groups, roster, replica, at, given, listed,
          empowered, change, promoted, troubled>>

CHANGE_CAPABILITY == "manage_roles"

KINDS == {"dek", "ingest_hmac", "integration_creds"}
\* Mutant of Following: the attribute is set as soon as the user has a tenant's DEK.
ScopedEarly == [dek |-> "attribute", attribute |-> "ingest_hmac",
                ingest_hmac |-> "integration_creds", integration_creds |-> "claim",
                claim |-> "group", group |-> "roster"]
\* The handler's calls in their order.
Following == [dek |-> "ingest_hmac", ingest_hmac |-> "integration_creds",
              integration_creds |-> "claim", claim |-> "attribute",
              attribute |-> "group", group |-> "roster"]
Placing == KINDS \cup {"claim", "attribute", "group", "roster"}
\* The handler runs as the pool's trigger and inside the script.
Runners == {"trigger", "script"}
Ended(k) == IF k = "trigger" THEN "ended" ELSE "idle"

Free == [at |-> "free", actor |-> Nobody, target |-> Nobody,
         new |-> NoGroup, old |-> NoGroup]
Changing == {"current", "guard", "remove", "add", "roster"}

TypeOK ==
    /\ keys \in [Tenants -> [KINDS -> 0..1]]
    /\ profile \in [Tenants -> Users \cup {Nobody}]
    /\ scoped \subseteq Users
    /\ groups \in [Users -> SUBSET ROLES]
    /\ roster \in [Users -> ROLES \cup {"absent"}]
    /\ replica \in [Users -> ROLES \cup {"absent"}]
    /\ at \in [Runners -> [Users -> Placing \cup {"idle", "ended"}]]
    /\ given \in [Runners -> [Users -> ROLES \cup {NoGroup}]]
    /\ listed \subseteq Users
    /\ empowered \subseteq Users
    /\ change \in [Slots -> [at: Changing \cup {"free"},
                            actor: Users \cup {Nobody}, target: Users \cup {Nobody},
                            new: ROLES \cup {NoGroup}, old: ROLES \cup {NoGroup}]]
    /\ promoted \subseteq Users
    /\ troubled \subseteq Tenants

Founded(t) == \E u \in Settled : TenantOf[u] = t
Init ==
    /\ keys = [t \in Tenants |-> [kind \in KINDS |-> IF Founded(t) THEN 1 ELSE 0]]
    /\ profile = [t \in Tenants |->
                     IF Founded(t) THEN CHOOSE u \in Settled : TenantOf[u] = t
                                   ELSE Nobody]
    /\ scoped = Settled
    /\ groups = [u \in Users |-> IF u \in Settled THEN {TENANT_ADMIN} ELSE {}]
    /\ roster = [u \in Users |-> IF u \in Settled THEN TENANT_ADMIN ELSE "absent"]
    /\ replica = roster
    /\ at = [k \in Runners |-> [u \in Users |->
                IF k = "trigger" /\ u \in Settled THEN "ended" ELSE "idle"]]
    /\ given = [k \in Runners |-> [u \in Users |-> NoGroup]]
    /\ listed = {}
    /\ empowered = {}
    /\ change = [s \in Slots |-> Free]
    /\ promoted = {}
    /\ troubled = {}

\* highest_priority_group and _current_group: the first of GROUP_PRIORITY held.
Highest(held) ==
    IF TENANT_ADMIN \in held THEN TENANT_ADMIN
    ELSE IF TENANT_ENGINEER \in held THEN TENANT_ENGINEER
    ELSE IF TENANT_LEADERSHIP \in held THEN TENANT_LEADERSHIP
    ELSE NoGroup

Trouble(u, when) ==
    troubled' = IF when THEN troubled \cup {TenantOf[u]} ELSE troubled

BeingPlaced(u) == \E k \in Runners : at[k][u] \in Placing
BeingChanged(u) == \E s \in Slots : change[s].at # "free" /\ change[s].target = u

-----------------------------------------------------------------------------
(* fn-tenant-provision, as the trigger and inside the script.              *)

\* Mutant of Confirm: no tenant is not told from a tenant.
ConfirmAnyway(u) ==
    /\ at["trigger"][u] = "idle"
    /\ at' = [at EXCEPT !["trigger"][u] = "dek"]
    /\ UNCHANGED <<tenantVars, memberVars, given, listed, empowered,
                   change, history>>

\* The account is confirmed and the trigger starts.  Without a tenant the
\* handler returns at once and the user stays unscoped.
Confirm(u) ==
    /\ at["trigger"][u] = "idle"
    /\ at' = [at EXCEPT !["trigger"][u] =
                 IF TenantOf[u] = NoTenant THEN "ended" ELSE "dek"]
    /\ UNCHANGED <<tenantVars, memberVars, given, listed, empowered,
                   change, history>>

\* The script's list_users: confirmed users without a tenant attribute for whom
\* one can be derived.  A new run of the script lists anew.
ListUsers ==
    /\ Backfills
    /\ \A u \in Users : at["script"][u] = "idle"
    /\ listed' = {u \in Users \ scoped : /\ at["trigger"][u] # "idle"
                                         /\ TenantOf[u] # NoTenant}
    /\ UNCHANGED <<tenantVars, memberVars, at, given, empowered, change,
                   history>>

\* The script repairs one listed user after the other, by the list and not by
\* what has become of the user since.
Repair(u) ==
    /\ u \in listed
    /\ \A v \in Users : at["script"][v] = "idle"
    /\ listed' = listed \ {u}
    /\ at' = [at EXCEPT !["script"][u] = "dek"]
    /\ Trouble(u, u \in scoped \/ BeingPlaced(u))
    /\ UNCHANGED <<tenantVars, memberVars, given, empowered, change,
                   promoted>>

Proceed(k, u, from) ==
    /\ at[k][u] = from
    /\ at' = [at EXCEPT ![k][u] = Following[from]]

\* Mutant of CreateKey: put_parameter with Overwrite=True.
ReplaceKey(k, u) ==
    \E kind \in KINDS :
       /\ Proceed(k, u, kind)
       /\ keys' = [keys EXCEPT ![TenantOf[u]][kind] = @ + 1]
       /\ UNCHANGED <<profile, memberVars, given, listed, empowered,
                      change, history>>

\* create_if_missing: what is there already is left alone.
CreateKey(k, u) ==
    \E kind \in KINDS :
       /\ Proceed(k, u, kind)
       /\ keys' = [keys EXCEPT ![TenantOf[u]][kind] = IF @ = 0 THEN 1 ELSE @]
       /\ UNCHANGED <<profile, memberVars, given, listed, empowered,
                      change, history>>

\* Mutant of ClaimTenant: the row is put without its condition.
ClaimAnyway(k, u) ==
    /\ Proceed(k, u, "claim")
    /\ profile' = [profile EXCEPT ![TenantOf[u]] = u]
    /\ given' = [given EXCEPT ![k][u] = TENANT_ADMIN]
    /\ UNCHANGED <<keys, memberVars, listed, empowered, change, history>>

\* _claim_tenant: only the first put succeeds, and makes its user the founder.
ClaimTenant(k, u) ==
    /\ Proceed(k, u, "claim")
    /\ profile' = [profile EXCEPT ![TenantOf[u]] = IF @ = Nobody THEN u ELSE @]
    /\ given' = [given EXCEPT ![k][u] =
                    IF profile[TenantOf[u]] = Nobody THEN TENANT_ADMIN
                                                     ELSE TENANT_ENGINEER]
    /\ UNCHANGED <<keys, memberVars, listed, empowered, change, history>>

\* The put landed and its answer was lost: when the SDK puts the row again, the
\* condition fails and the founder is taken for a later user.
ClaimUnanswered(k, u) ==
    /\ MayFail
    /\ at[k][u] = "claim"
    /\ profile[TenantOf[u]] = Nobody
    /\ profile' = [profile EXCEPT ![TenantOf[u]] = u]
    /\ UNCHANGED <<keys, memberVars, provisioning, empowered, change, history>>

\* admin_update_user_attributes
SetTenant(k, u) ==
    /\ Proceed(k, u, "attribute")
    /\ scoped' = scoped \cup {u}
    /\ UNCHANGED <<tenantVars, groups, roster, replica, given, listed, empowered,
                   change, history>>

\* admin_add_user_to_group
JoinGroup(k, u) ==
    /\ Proceed(k, u, "group")
    /\ groups' = [groups EXCEPT ![u] = @ \cup {given[k][u]}]
    /\ UNCHANGED <<tenantVars, scoped, roster, replica, given, listed, empowered,
                   change, history>>

\* A run of the handler ends, and forgets what it gave.
EndPlacing(k, u) ==
    /\ at' = [at EXCEPT ![k][u] = Ended(k)]
    /\ given' = [given EXCEPT ![k][u] = NoGroup]

\* Mutant of RecordMember: every member is recorded as one of MEMBER_GROUP.
RecordEngineer(k, u) ==
    /\ at[k][u] = "roster"
    /\ EndPlacing(k, u)
    /\ roster' = [roster EXCEPT ![u] = TENANT_ENGINEER]
    /\ UNCHANGED <<tenantVars, scoped, groups, replica, listed, empowered, change,
                   history>>

\* _record_member: puts the row whatever is there.
RecordMember(k, u) ==
    /\ at[k][u] = "roster"
    /\ EndPlacing(k, u)
    /\ roster' = [roster EXCEPT ![u] = given[k][u]]
    /\ UNCHANGED <<tenantVars, scoped, groups, replica, listed, empowered, change,
                   history>>

\* The same of the member row, which is put again whatever has become of it.
RecordUnanswered(k, u) ==
    /\ MayFail
    /\ at[k][u] = "roster"
    /\ roster[u] # given[k][u]
    /\ roster' = [roster EXCEPT ![u] = given[k][u]]
    /\ UNCHANGED <<tenantVars, scoped, groups, replica, provisioning, empowered,
                   change, history>>

\* A call fails and the error is swallowed, or the run is killed: it ends.
BreakOff(k, u) ==
    /\ MayFail
    /\ at[k][u] \in Placing
    /\ EndPlacing(k, u)
    /\ UNCHANGED <<tenantVars, memberVars, listed, empowered, change,
                   history>>

Place(k, u) ==
    \/ CreateKey(k, u) \/ ClaimTenant(k, u) \/ ClaimUnanswered(k, u)
    \/ SetTenant(k, u) \/ JoinGroup(k, u)
    \/ RecordMember(k, u) \/ RecordUnanswered(k, u) \/ BreakOff(k, u)

-----------------------------------------------------------------------------
(* Sessions: a token carries the groups of the moment it was issued.       *)

\* Only tokens the authorizer admits and whose group may manage roles matter.
SignIn(u) ==
    /\ u \in scoped
    /\ Can(Highest(groups[u]), CHANGE_CAPABILITY)
    /\ empowered' = empowered \cup {u}
    /\ UNCHANGED <<tenantVars, memberVars, provisioning, change, history>>

TokenExpires(u) ==
    /\ u \in empowered
    /\ empowered' = empowered \ {u}
    /\ UNCHANGED <<tenantVars, memberVars, provisioning, change, history>>

-----------------------------------------------------------------------------
(* fn-team's _change_role.                                                 *)

Move(s, from, to) ==
    /\ change[s].at = from
    /\ change' = [change EXCEPT ![s].at = to]

Finish(s, from) ==
    /\ change[s].at = from
    /\ change' = [change EXCEPT ![s] = Free]

\* Mutant of AskForRole: the member row is looked up in the target's partition.
AskAnywhere(s, actor, target, role) ==
    /\ change[s].at = "free"
    /\ actor \in empowered
    /\ roster[target] # "absent"
    /\ change' = [change EXCEPT ![s] = [at |-> "current", actor |-> actor,
                     target |-> target, new |-> role, old |-> NoGroup]]
    /\ Trouble(target, BeingChanged(target) \/ BeingPlaced(target))
    /\ UNCHANGED <<tenantVars, memberVars, provisioning, empowered,
                   promoted>>

\* A request whose token may manage roles and whose target has a member row in
\* the actor's tenant; any other is answered 403, 400 or 404 and changes nothing.
AskForRole(s, actor, target, role) ==
    /\ change[s].at = "free"
    /\ actor \in empowered
    /\ TenantOf[target] = TenantOf[actor]
    /\ roster[target] # "absent"
    /\ change' = [change EXCEPT ![s] = [at |-> "current", actor |-> actor,
                     target |-> target, new |-> role, old |-> NoGroup]]
    /\ Trouble(target, BeingChanged(target) \/ BeingPlaced(target))
    /\ UNCHANGED <<tenantVars, memberVars, provisioning, empowered,
                   promoted>>

\* _current_group is the new role already: nothing to do.
HasRole(s) ==
    /\ Finish(s, "current")
    /\ Highest(groups[change[s].target]) = change[s].new
    /\ UNCHANGED <<tenantVars, memberVars, provisioning, empowered, history>>

\* Mutant of ReadGroup: demotions skip the guard.
ReadGroupUnguarded(s) ==
    LET held == Highest(groups[change[s].target]) IN
    /\ change[s].at = "current"
    /\ held # change[s].new
    /\ change' = [change EXCEPT ![s].old = held,
                     ![s].at = IF held = NoGroup THEN "add" ELSE "remove"]
    /\ UNCHANGED <<tenantVars, memberVars, provisioning, empowered, history>>

ReadGroup(s) ==
    LET held == Highest(groups[change[s].target]) IN
    /\ change[s].at = "current"
    /\ held # change[s].new
    /\ change' = [change EXCEPT ![s].old = held,
                     ![s].at = CASE held = TENANT_ADMIN -> "guard"
                                 [] held = NoGroup -> "add"
                                 [] OTHER -> "remove"]
    /\ UNCHANGED <<tenantVars, memberVars, provisioning, empowered, history>>

\* The latest write of a row reaches the replica that lagged.
Replicate(u) ==
    /\ MayLag /\ replica[u] # roster[u]
    /\ replica' = [replica EXCEPT ![u] = roster[u]]
    /\ UNCHANGED <<tenantVars, scoped, groups, roster, provisioning, empowered,
                   change, history>>

\* _members: one page of the tenant's rows in the order of their subs, by a read
\* that lags for the users in `late`.
Reads == {late \in SUBSET Users : MayLag \/ late = {}}
Told(u, late) == IF u \in late THEN replica[u] ELSE roster[u]
Seen(t, late) == {u \in Users : TenantOf[u] = t /\ Told(u, late) # "absent"}
Members(t, late) ==
    {u \in Seen(t, late) :
        Cardinality({v \in Seen(t, late) : Sub[v] < Sub[u]}) < MAX_MEMBERS}

\* The other admins on the page, by whom the target can be spared.
OtherAdmins(u, late) ==
    {v \in Members(TenantOf[u], late) \ {u} : Told(v, late) = TENANT_ADMIN}

\* 409: the tenant's only admin, as far as the page tells.
RefuseLastAdmin(s) ==
    /\ Finish(s, "guard")
    /\ \E late \in Reads : OtherAdmins(change[s].target, late) = {}
    /\ UNCHANGED <<tenantVars, memberVars, provisioning, empowered, history>>

\* Demotions that have passed the guard and do not show in the roster yet.
Demoting(t) ==
    {s \in Slots : /\ change[s].at \in {"remove", "add", "roster"}
                   /\ change[s].old = TENANT_ADMIN
                   /\ TenantOf[change[s].target] = t}

\* None of the admins the guard saw is one any more.
Misled(u, late) == \A v \in OtherAdmins(u, late) : roster[v] # TENANT_ADMIN

PassGuard(s) ==
    LET target == change[s].target IN
    /\ Move(s, "guard", "remove")
    /\ \E late \in Reads :
          /\ OtherAdmins(target, late) # {}
          /\ Trouble(target, Demoting(TenantOf[target]) # {} \/ Misled(target, late))
    /\ UNCHANGED <<tenantVars, memberVars, provisioning, empowered,
                   promoted>>

\* admin_remove_user_from_group
LeaveGroup(s) ==
    /\ Move(s, "remove", "add")
    /\ groups' = [groups EXCEPT ![change[s].target] = @ \ {change[s].old}]
    /\ UNCHANGED <<tenantVars, scoped, roster, replica, provisioning, empowered,
                   history>>

\* admin_add_user_to_group
TakeGroup(s) ==
    /\ Move(s, "add", "roster")
    /\ groups' = [groups EXCEPT ![change[s].target] = @ \cup {change[s].new}]
    /\ promoted' = IF change[s].new = TENANT_ADMIN
                   THEN promoted \cup {change[s].target} ELSE promoted
    /\ UNCHANGED <<tenantVars, scoped, roster, replica, provisioning, empowered,
                   troubled>>

\* Mutant of UpdateRoster: the roster is left to the next provisioning.
LeaveRoster(s) ==
    /\ Finish(s, "roster")
    /\ UNCHANGED <<tenantVars, memberVars, provisioning, empowered, history>>

\* update_item on the member row; then the audit entry is handed over, which
\* changes nothing modelled here.
UpdateRoster(s) ==
    /\ Finish(s, "roster")
    /\ roster' = [roster EXCEPT ![change[s].target] = change[s].new]
    /\ UNCHANGED <<tenantVars, scoped, groups, replica, provisioning, empowered,
                   history>>

\* An error of any call is answered 500; what was done so far stays.
Die(s) ==
    /\ MayFail
    /\ change[s].at # "free"
    /\ change' = [change EXCEPT ![s] = Free]
    /\ Trouble(change[s].target, change[s].at \in {"add", "roster"})
    /\ UNCHANGED <<tenantVars, memberVars, provisioning, empowered,
                   promoted>>

ChangeRole(s) ==
    \/ HasRole(s) \/ ReadGroup(s) \/ RefuseLastAdmin(s) \/ PassGuard(s)
    \/ LeaveGroup(s) \/ TakeGroup(s) \/ UpdateRoster(s)
    \/ Die(s)

Next ==
    \/ ListUsers
    \/ \E u \in Users :
          Confirm(u) \/ Repair(u) \/ SignIn(u) \/ TokenExpires(u) \/ Replicate(u)
    \/ \E k \in Runners, u \in Users : Place(k, u)
    \/ \E s \in Slots :
          \/ ChangeRole(s)
          \/ \E actor, target \in Users, role \in NewRoles :
                AskForRole(s, actor, target, role)

Spec == Init /\ [][Next]_vars

=============================================================================
