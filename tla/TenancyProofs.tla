--------------------------- MODULE TenancyProofs ---------------------------
(***************************************************************************)
(* Proofs about Tenancy, for any users, tenants and number of role changes *)
(* that run at once, with and without failures and the backfill script.    *)
(***************************************************************************)
EXTENDS TenancyProps, TLAPS

-----------------------------------------------------------------------------
(* The inductive invariant.                                                *)

\* An account without a tenant is never touched; a running role change has an
\* actor, a new role and a target with a member row.
OnlyMembers ==
    /\ \A u \in Users :
          \/ TenantOf[u] \in Tenants
          \/ /\ u \notin scoped \cup listed \cup empowered
             /\ groups[u] = {}
             /\ roster[u] = "absent"
             /\ ~ BeingPlaced(u)
    /\ \A s \in Slots :
          change[s].at # "free" => /\ change[s].actor \in Users
                                   /\ change[s].target \in Users
                                   /\ change[s].new \in ROLES
                                   /\ roster[change[s].target] # "absent"

\* What the handler has written by the time it gets to each call.
Written(place) ==
    CASE place = "ingest_hmac" -> {"dek"}
      [] place = "integration_creds" -> {"dek", "ingest_hmac"}
      [] place \in {"claim", "attribute", "group", "roster"} -> KINDS
      [] OTHER -> {}

KeysFirst ==
    /\ \A t \in Tenants :
          profile[t] # Nobody => \A kind \in KINDS : keys[t][kind] = 1
    /\ \A k \in Runners, u \in Users :
          \A kind \in Written(at[k][u]) : keys[TenantOf[u]][kind] = 1

\* Just past the claim a run has a role to give, and only the founder's Admin.
GivenByRight ==
    \A k \in Runners, u \in Users :
       /\ given[k][u] \in ROLES <=> at[k][u] \in {"attribute", "group", "roster"}
       /\ given[k][u] = TENANT_ADMIN => profile[TenantOf[u]] = u

\* The order of a user's life: confirmed, scoped, in a group, in the roster.
LifeInOrder ==
    \A u \in Users :
       /\ u \in listed \cup scoped \/ at["script"][u] # "idle" =>
             at["trigger"][u] # "idle"
       /\ groups[u] # {} \/ roster[u] # "absent" => u \in scoped
       /\ \A k \in Runners : at[k][u] \in {"group", "roster"} => u \in scoped

\* Past the claim somebody has claimed the tenant, whose keys were there by then;
\* a token is issued to the scoped only, and so is a part in a role change.
ClaimedFirst ==
    /\ \A k \in Runners, u \in Users :
          at[k][u] \in {"attribute", "group", "roster"} => profile[TenantOf[u]] # Nobody
    /\ \A u \in scoped : profile[TenantOf[u]] # Nobody
    /\ empowered \subseteq scoped
    /\ \A s \in Slots :
          change[s].at # "free" => /\ change[s].actor \in scoped
                                   /\ change[s].target \in scoped

\* Where nothing has overlapped, one run places a user, who is new to it.
PlacedOnce ==
    \A k \in Runners, u \in Users :
       at[k][u] \in Placing /\ TenantOf[u] \notin troubled =>
          /\ \A j \in Runners \ {k} : at[j][u] \notin Placing
          /\ \/ roster[u] = "absent"
             \/ at[k][u] = "roster" /\ roster[u] = given[k][u]
          /\ at[k][u] \notin {"group", "roster"} => u \notin scoped
          /\ at[k][u] = "group" => groups[u] = {}
          /\ at[k][u] = "roster" => groups[u] = {given[k][u]}

\* Where nothing has overlapped, one change works on a member, who has been
\* placed, knows the role the roster shows until it writes it, and has done to the
\* groups what its place says.
ChangedOnce ==
    \A s \in Slots :
       LET c == change[s] IN
       c.at # "free" /\ TenantOf[c.target] \notin troubled =>
          /\ \A r \in Slots \ {s} : change[r].at # "free" => change[r].target # c.target
          /\ ~ BeingPlaced(c.target)
          /\ c.at # "current" => c.old = roster[c.target] /\ c.old # c.new
          /\ c.at \in {"current", "guard", "remove"} =>
                groups[c.target] = {roster[c.target]}
          /\ c.at = "add" => groups[c.target] = {}
          /\ c.at = "roster" => groups[c.target] = {c.new}

\* The roster's other admins, whether or not the guard has seen them.
Spare(u) ==
    {v \in Users \ {u} : TenantOf[v] = TenantOf[u] /\ roster[v] = TENANT_ADMIN}

\* Where nothing has overlapped, one demotion is past its guard and the target
\* can still be spared.
DemotedOnce ==
    \A s \in Slots :
       LET c == change[s] IN
       /\ c.at = "guard" => c.old = TENANT_ADMIN
       /\ /\ c.at \in {"remove", "add", "roster"}
          /\ c.old = TENANT_ADMIN
          /\ TenantOf[c.target] \notin troubled
          => /\ \A r \in Slots : r \in Demoting(TenantOf[c.target]) => r = s
             /\ c.at = "remove" => Spare(c.target) # {}

IInv ==
    /\ TypeOK
    /\ OnlyMembers
    /\ KeysFirst
    /\ GivenByRight
    /\ AuthorityFromTheFounder
    /\ LifeInOrder
    /\ ClaimedFirst
    /\ PlacedOnce
    /\ ChangedOnce
    /\ DemotedOnce
    /\ RosterAgrees

-----------------------------------------------------------------------------
(* The role a set of groups comes to, and reading it.                      *)

\* Only an admin may manage roles, and whoever holds the admins' group is one.
LEMMA AdminsManage ==
  ASSUME NEW held \in SUBSET ROLES
  PROVE  /\ Highest(held) \in ROLES \cup {NoGroup}
         /\ Highest(held) = TENANT_ADMIN <=> TENANT_ADMIN \in held
         /\ Can(Highest(held), CHANGE_CAPABILITY) => TENANT_ADMIN \in held
         /\ \A role \in ROLES : held = {role} => Highest(held) = role
  BY DEF Highest, ROLES, TENANT_ADMIN, TENANT_ENGINEER, TENANT_LEADERSHIP, NoGroup,
         Can, CAPABILITIES, CHANGE_CAPABILITY, Capability, READ_CAPABILITIES,
         REVIEW_CAPABILITIES, ADMIN_CAPABILITIES

\* What ReadGroup does, field by field.
GroupRead(s) ==
    /\ change[s].at = "current"
    /\ \A r \in Slots : /\ change'[r].actor = change[r].actor
                        /\ change'[r].target = change[r].target
                        /\ change'[r].new = change[r].new
                        /\ change'[r].at = "free" <=> change[r].at = "free"
    /\ \A r \in Slots \ {s} : /\ change'[r].at = change[r].at
                              /\ change'[r].old = change[r].old
    /\ change'[s].old = Highest(groups[change[s].target])
    /\ \A role \in ROLES :
          groups[change[s].target] = {role} => change'[s].old = role
    /\ change'[s].old # change[s].new
    /\ change'[s].at \in {"guard", "add", "remove"}
    /\ change'[s].at = "guard" <=> change'[s].old = TENANT_ADMIN
    /\ change'[s].at = "add" <=> change'[s].old = NoGroup
    /\ UNCHANGED <<keys, profile, scoped, groups, roster, replica, at, given, listed,
                   empowered, promoted, troubled>>

LEMMA ReadGroupEffect ==
  ASSUME TypeOK, NEW s \in Slots, ReadGroup(s)
  PROVE  GroupRead(s)
<1>1. \A role \in ROLES : Highest({role}) = role
  BY DEF Highest, ROLES, TENANT_ADMIN, TENANT_ENGINEER, TENANT_LEADERSHIP
<1>2. change'[s].old = Highest(groups[change[s].target])
  BY DEF TypeOK, ReadGroup
<1>3. \A role \in ROLES :
         groups[change[s].target] = {role} => change'[s].old = role
  BY <1>1, <1>2
<1> QED
  BY <1>3 DEF GroupRead, TypeOK, ReadGroup, tenantVars, memberVars, provisioning,
         history, TENANT_ADMIN, NoGroup

-----------------------------------------------------------------------------
(* Every step preserves each part of it.                                   *)

LEMMA TypeStep ==
  ASSUME TypeOK, OnlyMembers, GivenByRight, [Next]_vars
  PROVE  TypeOK'
<1> USE NewRolesAreRoles, EveryUserIsDerived DEF TypeOK, ROLES, TENANT_ADMIN,
        TENANT_ENGINEER, TENANT_LEADERSHIP, NoGroup, Runners, KINDS, Placing,
        Changing, tenantVars, memberVars, provisioning, history, OnlyMembers,
        GivenByRight
<1>1. ASSUME NEW u \in Users, Confirm(u) PROVE TypeOK'
  BY <1>1 DEF Confirm, BeingPlaced
<1>2. ASSUME ListUsers PROVE TypeOK'
  BY <1>2 DEF ListUsers, BeingPlaced
<1>3. ASSUME NEW u \in Users, Repair(u) PROVE TypeOK'
  BY <1>3 DEF Repair, Trouble, BeingPlaced
<1>4. ASSUME NEW k \in Runners, NEW u \in Users, CreateKey(k, u) PROVE TypeOK'
  BY <1>4 DEF CreateKey, Proceed, Following, BeingPlaced
<1>5. ASSUME NEW k \in Runners, NEW u \in Users, ClaimTenant(k, u) PROVE TypeOK'
  BY <1>5 DEF ClaimTenant, Proceed, Following, BeingPlaced
<1>6. ASSUME NEW k \in Runners, NEW u \in Users, SetTenant(k, u) PROVE TypeOK'
  BY <1>6 DEF SetTenant, Proceed, Following, BeingPlaced
<1>7. ASSUME NEW k \in Runners, NEW u \in Users, JoinGroup(k, u) PROVE TypeOK'
  BY <1>7 DEF JoinGroup, Proceed, Following, BeingPlaced
<1>8. ASSUME NEW k \in Runners, NEW u \in Users, RecordMember(k, u) PROVE TypeOK'
  BY <1>8 DEF RecordMember, EndPlacing, Ended, BeingPlaced
<1>9. ASSUME NEW k \in Runners, NEW u \in Users, BreakOff(k, u) PROVE TypeOK'
  BY <1>9 DEF BreakOff, EndPlacing, Ended, BeingPlaced
<1>10. ASSUME NEW u \in Users, SignIn(u) PROVE TypeOK'
  BY <1>10 DEF SignIn, BeingPlaced
<1>11. ASSUME NEW u \in Users, TokenExpires(u) PROVE TypeOK'
  BY <1>11 DEF TokenExpires, BeingPlaced
<1>12. ASSUME NEW s \in Slots, NEW actor \in Users, NEW target \in Users, NEW
              role \in NewRoles, AskForRole(s, actor, target, role)
       PROVE TypeOK'
  BY <1>12 DEF AskForRole, Trouble, BeingPlaced
<1>13. ASSUME NEW s \in Slots, HasRole(s) PROVE TypeOK'
  BY <1>13 DEF HasRole, Finish, Free, BeingPlaced
<1>14. ASSUME NEW s \in Slots, ReadGroup(s) PROVE TypeOK'
  <2>0. groups[change[s].target] \in SUBSET ROLES
    BY <1>14 DEF ReadGroup
  <2>1. Highest(groups[change[s].target]) \in ROLES \cup {NoGroup}
    BY <2>0, AdminsManage
  <2>2. change' \in [Slots -> [at: Changing \cup {"free"},
                            actor: Users \cup {Nobody}, target: Users \cup {Nobody},
                            new: ROLES \cup {NoGroup}, old: ROLES \cup {NoGroup}]]
    BY <1>14, <2>1 DEF ReadGroup
  <2>3. UNCHANGED <<keys, profile, scoped, groups, roster, replica, at, given, listed, empowered, promoted, troubled>>
    BY <1>14 DEF ReadGroup
  <2> QED
    BY <2>2, <2>3
<1>15. ASSUME NEW s \in Slots, RefuseLastAdmin(s) PROVE TypeOK'
  BY <1>15 DEF RefuseLastAdmin, Finish, Free, BeingPlaced
<1>16. ASSUME NEW s \in Slots, PassGuard(s) PROVE TypeOK'
  <2>1. TenantOf[change[s].target] \in Tenants
    BY <1>16 DEF PassGuard, Move
  <2>2. troubled' \subseteq Tenants
    BY <1>16, <2>1 DEF PassGuard, Trouble
  <2>3. UNCHANGED <<keys, profile, scoped, groups, roster, replica, at, given, listed, empowered, promoted>>
    BY <1>16 DEF PassGuard
  <2>4. change' \in [Slots -> [at: Changing \cup {"free"},
                            actor: Users \cup {Nobody}, target: Users \cup {Nobody},
                            new: ROLES \cup {NoGroup}, old: ROLES \cup {NoGroup}]]
    <3>1. change' = [change EXCEPT ![s].at = "remove"]
      BY <1>16 DEF PassGuard, Move
    <3> QED
      BY <3>1
  <2> QED
    BY <2>2, <2>3, <2>4
<1>17. ASSUME NEW s \in Slots, LeaveGroup(s) PROVE TypeOK'
  BY <1>17 DEF LeaveGroup, Move, BeingPlaced
<1>18. ASSUME NEW s \in Slots, TakeGroup(s) PROVE TypeOK'
  BY <1>18 DEF TakeGroup, Move, BeingPlaced
<1>19. ASSUME NEW s \in Slots, UpdateRoster(s) PROVE TypeOK'
  BY <1>19 DEF UpdateRoster, Finish, Free, BeingPlaced
<1>20. ASSUME NEW s \in Slots, Die(s) PROVE TypeOK'
  BY <1>20 DEF Die, Trouble, Free, BeingPlaced
<1>21. CASE UNCHANGED vars
  BY <1>21 DEF vars, TypeOK
<1>22. ASSUME NEW k \in Runners, NEW u \in Users, ClaimUnanswered(k, u)
       PROVE TypeOK'
  BY <1>22 DEF ClaimUnanswered
<1>23. ASSUME NEW k \in Runners, NEW u \in Users, RecordUnanswered(k, u)
       PROVE TypeOK'
  BY <1>23 DEF RecordUnanswered
<1>24. ASSUME NEW u \in Users, Replicate(u)
       PROVE TypeOK'
  BY <1>24 DEF Replicate
<1> HIDE DEF TypeOK, ROLES, Runners, KINDS, Placing, Changing, OnlyMembers,
        GivenByRight
<1> QED
  BY <1>1, <1>2, <1>3, <1>4, <1>5, <1>6, <1>7, <1>8, <1>9, <1>10, <1>11, <1>12,
     <1>13, <1>14, <1>15, <1>16, <1>17, <1>18, <1>19, <1>20, <1>21,
     <1>22, <1>23, <1>24 DEF Next, Place,
     ChangeRole

LEMMA MembersStep ==
  ASSUME IInv, TypeOK', [Next]_vars
  PROVE  OnlyMembers'
<1> USE EveryUserIsDerived, NewRolesAreRoles
    DEF IInv, TypeOK, OnlyMembers, GivenByRight, BeingPlaced, ROLES, TENANT_ADMIN,
    TENANT_ENGINEER, TENANT_LEADERSHIP, NoGroup, Runners, Placing,
        KINDS, tenantVars, memberVars, provisioning, history
<1>1. ASSUME NEW u \in Users, Confirm(u) PROVE OnlyMembers'
  BY <1>1 DEF Confirm
<1>2. ASSUME ListUsers PROVE OnlyMembers'
  BY <1>2 DEF ListUsers
<1>3. ASSUME NEW u \in Users, Repair(u) PROVE OnlyMembers'
  BY <1>3 DEF Repair, Trouble
<1>4. ASSUME NEW k \in Runners, NEW u \in Users, CreateKey(k, u) PROVE OnlyMembers'
  BY <1>4 DEF CreateKey, Proceed, Following
<1>5. ASSUME NEW k \in Runners, NEW u \in Users, ClaimTenant(k, u)
      PROVE OnlyMembers'
  BY <1>5 DEF ClaimTenant, Proceed, Following
<1>6. ASSUME NEW k \in Runners, NEW u \in Users, SetTenant(k, u) PROVE OnlyMembers'
  BY <1>6 DEF SetTenant, Proceed, Following
<1>7. ASSUME NEW k \in Runners, NEW u \in Users, JoinGroup(k, u) PROVE OnlyMembers'
  BY <1>7 DEF JoinGroup, Proceed, Following
<1>8. ASSUME NEW k \in Runners, NEW u \in Users, RecordMember(k, u)
      PROVE OnlyMembers'
  BY <1>8 DEF RecordMember, EndPlacing, Ended
<1>9. ASSUME NEW k \in Runners, NEW u \in Users, BreakOff(k, u) PROVE OnlyMembers'
  BY <1>9 DEF BreakOff, EndPlacing, Ended
<1>10. ASSUME NEW u \in Users, SignIn(u) PROVE OnlyMembers'
  BY <1>10 DEF SignIn
<1>11. ASSUME NEW u \in Users, TokenExpires(u) PROVE OnlyMembers'
  BY <1>11 DEF TokenExpires
<1>12. ASSUME NEW s \in Slots, NEW actor \in Users, NEW target \in Users, NEW
              role \in NewRoles, AskForRole(s, actor, target, role)
       PROVE OnlyMembers'
  BY <1>12 DEF AskForRole, Trouble
<1>13. ASSUME NEW s \in Slots, HasRole(s) PROVE OnlyMembers'
  BY <1>13 DEF HasRole, Finish, Free
<1>14. ASSUME NEW s \in Slots, ReadGroup(s) PROVE OnlyMembers'
  <2>1. GroupRead(s)
    BY <1>14, ReadGroupEffect
  <2> QED
    BY <2>1 DEF GroupRead
<1>15. ASSUME NEW s \in Slots, RefuseLastAdmin(s) PROVE OnlyMembers'
  BY <1>15 DEF RefuseLastAdmin, Finish, Free
<1>16. ASSUME NEW s \in Slots, PassGuard(s) PROVE OnlyMembers'
  BY <1>16 DEF PassGuard, Move, Trouble
<1>17. ASSUME NEW s \in Slots, LeaveGroup(s) PROVE OnlyMembers'
  BY <1>17 DEF LeaveGroup, Move
<1>18. ASSUME NEW s \in Slots, TakeGroup(s) PROVE OnlyMembers'
  BY <1>18 DEF TakeGroup, Move
<1>19. ASSUME NEW s \in Slots, UpdateRoster(s) PROVE OnlyMembers'
  BY <1>19 DEF UpdateRoster, Finish, Free
<1>20. ASSUME NEW s \in Slots, Die(s) PROVE OnlyMembers'
  BY <1>20 DEF Die, Trouble, Free
<1>21. CASE UNCHANGED <<at, listed, scoped, empowered, groups, roster, change>>
  BY <1>21 DEF OnlyMembers
<1>22. ASSUME NEW k \in Runners, NEW u \in Users, ClaimUnanswered(k, u)
       PROVE OnlyMembers'
  BY <1>22 DEF ClaimUnanswered
<1>23. ASSUME NEW k \in Runners, NEW u \in Users, RecordUnanswered(k, u)
       PROVE OnlyMembers'
  BY <1>23 DEF RecordUnanswered
<1>24. ASSUME NEW u \in Users, Replicate(u)
       PROVE OnlyMembers'
  BY <1>24 DEF Replicate
<1> HIDE DEF IInv, TypeOK, OnlyMembers, GivenByRight, BeingPlaced, ROLES, Runners,
        Placing, KINDS
<1> QED
  BY <1>1, <1>2, <1>3, <1>4, <1>5, <1>6, <1>7, <1>8, <1>9, <1>10, <1>11, <1>12,
     <1>13, <1>14, <1>15, <1>16, <1>17, <1>18, <1>19, <1>20, <1>21,
     <1>22, <1>23, <1>24 DEF Next, Place,
     ChangeRole, vars

LEMMA KeysStep ==
  ASSUME IInv, TypeOK', [Next]_vars
  PROVE  KeysFirst'
<1> USE EveryUserIsDerived DEF IInv, TypeOK, OnlyMembers, KeysFirst, Written,
        BeingPlaced, Runners, Placing, KINDS, tenantVars, memberVars, provisioning,
        history
<1>1. ASSUME NEW u \in Users, Confirm(u) PROVE KeysFirst'
  BY <1>1 DEF Confirm
<1>2. ASSUME NEW u \in Users, Repair(u) PROVE KeysFirst'
  BY <1>2 DEF Repair, Trouble
<1>3. ASSUME NEW k \in Runners, NEW u \in Users, CreateKey(k, u) PROVE KeysFirst'
  BY <1>3 DEF CreateKey, Proceed, Following
<1>4. ASSUME NEW k \in Runners, NEW u \in Users, ClaimTenant(k, u) PROVE KeysFirst'
  BY <1>4 DEF ClaimTenant, Proceed, Following
<1>5. ASSUME NEW k \in Runners, NEW u \in Users, SetTenant(k, u) PROVE KeysFirst'
  BY <1>5 DEF SetTenant, Proceed, Following
<1>6. ASSUME NEW k \in Runners, NEW u \in Users, JoinGroup(k, u) PROVE KeysFirst'
  BY <1>6 DEF JoinGroup, Proceed, Following
<1>7. ASSUME NEW k \in Runners, NEW u \in Users, RecordMember(k, u) PROVE KeysFirst'
  BY <1>7 DEF RecordMember, EndPlacing, Ended
<1>8. ASSUME NEW k \in Runners, NEW u \in Users, BreakOff(k, u) PROVE KeysFirst'
  BY <1>8 DEF BreakOff, EndPlacing, Ended
<1>9. CASE UNCHANGED <<at, keys, profile>>
  BY <1>9 DEF KeysFirst
<1>10. ASSUME NEW k \in Runners, NEW u \in Users, ClaimUnanswered(k, u)
       PROVE KeysFirst'
  BY <1>10 DEF ClaimUnanswered
<1> HIDE DEF IInv, TypeOK, OnlyMembers, KeysFirst, Written, BeingPlaced, Runners,
        Placing, KINDS
<1> QED
  BY <1>1, <1>2, <1>3, <1>4, <1>5, <1>6, <1>7, <1>8, <1>9, <1>10 DEF Next, Place,
     ChangeRole, vars, ListUsers, RecordUnanswered, Replicate, SignIn, TokenExpires, AskForRole, HasRole,
     ReadGroup, RefuseLastAdmin, PassGuard, LeaveGroup, TakeGroup, UpdateRoster,
     Die, Finish, Move, tenantVars, memberVars, provisioning, history

LEMMA GivenStep ==
  ASSUME IInv, TypeOK', [Next]_vars
  PROVE  GivenByRight'
<1> USE EveryUserIsDerived DEF IInv, TypeOK, OnlyMembers, GivenByRight, BeingPlaced,
        Runners, Placing, KINDS, ROLES, TENANT_ADMIN, TENANT_ENGINEER,
        TENANT_LEADERSHIP, NoGroup, tenantVars, memberVars, provisioning, history
<1>1. ASSUME NEW u \in Users, Confirm(u) PROVE GivenByRight'
  BY <1>1 DEF Confirm
<1>2. ASSUME NEW u \in Users, Repair(u) PROVE GivenByRight'
  BY <1>2 DEF Repair, Trouble
<1>3. ASSUME NEW k \in Runners, NEW u \in Users, CreateKey(k, u) PROVE GivenByRight'
  BY <1>3 DEF CreateKey, Proceed, Following
<1>4. ASSUME NEW k \in Runners, NEW u \in Users, ClaimTenant(k, u)
      PROVE GivenByRight'
  <2>1. \A j \in Runners, v \in Users :
           given[j][v] \in ROLES => TenantOf[v] \in Tenants
    OBVIOUS
  <2>2. \A j \in Runners, v \in Users :
           given'[j][v] = TENANT_ADMIN => profile'[TenantOf[v]] = v
    BY <1>4, <2>1, NobodyIsNoUser DEF ClaimTenant, Proceed, Following
  <2> QED
    BY <1>4, <2>2 DEF ClaimTenant, Proceed, Following
<1>5. ASSUME NEW k \in Runners, NEW u \in Users, SetTenant(k, u) PROVE GivenByRight'
  BY <1>5 DEF SetTenant, Proceed, Following
<1>6. ASSUME NEW k \in Runners, NEW u \in Users, JoinGroup(k, u) PROVE GivenByRight'
  BY <1>6 DEF JoinGroup, Proceed, Following
<1>7. ASSUME NEW k \in Runners, NEW u \in Users, RecordMember(k, u)
      PROVE GivenByRight'
  BY <1>7 DEF RecordMember, EndPlacing, Ended
<1>8. ASSUME NEW k \in Runners, NEW u \in Users, BreakOff(k, u) PROVE GivenByRight'
  BY <1>8 DEF BreakOff, EndPlacing, Ended
<1>9. CASE UNCHANGED <<at, given, profile>>
  BY <1>9 DEF GivenByRight
<1>10. ASSUME NEW k \in Runners, NEW u \in Users, ClaimUnanswered(k, u)
       PROVE GivenByRight'
  BY <1>10, NobodyIsNoUser DEF ClaimUnanswered
<1> HIDE DEF IInv, TypeOK, OnlyMembers, GivenByRight, BeingPlaced, Runners, Placing,
        KINDS, ROLES
<1> QED
  BY <1>1, <1>2, <1>3, <1>4, <1>5, <1>6, <1>7, <1>8, <1>9, <1>10 DEF Next, Place,
     ChangeRole, vars, ListUsers, RecordUnanswered, Replicate, SignIn, TokenExpires, AskForRole, HasRole,
     ReadGroup, RefuseLastAdmin, PassGuard, LeaveGroup, TakeGroup, UpdateRoster,
     Die, Finish, Move, tenantVars, memberVars, provisioning, history

LEMMA AuthorityStep ==
  ASSUME IInv, TypeOK', [Next]_vars
  PROVE  AuthorityFromTheFounder'
<1> USE EveryUserIsDerived DEF IInv, TypeOK, OnlyMembers, GivenByRight,
        AuthorityFromTheFounder, EverAdmin, tenantVars, memberVars, provisioning,
        history
<1>1. ASSUME NEW k \in Runners, NEW u \in Users, ClaimTenant(k, u)
      PROVE AuthorityFromTheFounder'
  <2>1. \A v \in Users : TenantOf[v] \in Tenants /\ EverAdmin(v) => EverAdmin(v)'
    BY <1>1, NobodyIsNoUser DEF ClaimTenant
  <2>2. \A r \in Slots : change[r].at # "free" => TenantOf[change[r].actor] \in Tenants
    BY <1>1
  <2>3. UNCHANGED <<groups, empowered, change>>
    BY <1>1 DEF ClaimTenant
  <2> QED
    BY <2>1, <2>2, <2>3
<1>2. ASSUME NEW k \in Runners, NEW u \in Users, JoinGroup(k, u)
      PROVE AuthorityFromTheFounder'
  BY <1>2 DEF JoinGroup, Proceed, Following
<1>3. ASSUME NEW u \in Users, SignIn(u) PROVE AuthorityFromTheFounder'
  BY <1>3, AdminsManage DEF SignIn
<1>4. ASSUME NEW u \in Users, TokenExpires(u) PROVE AuthorityFromTheFounder'
  BY <1>4 DEF TokenExpires
<1>5. ASSUME NEW s \in Slots, NEW actor \in Users, NEW target \in Users, NEW
             role \in NewRoles, AskForRole(s, actor, target, role)
      PROVE AuthorityFromTheFounder'
  BY <1>5 DEF AskForRole, Trouble
<1>6. ASSUME NEW s \in Slots, HasRole(s) PROVE AuthorityFromTheFounder'
  BY <1>6 DEF HasRole, Finish, Free
<1>7. ASSUME NEW s \in Slots, ReadGroup(s) PROVE AuthorityFromTheFounder'
  <2>1. GroupRead(s)
    BY <1>7, ReadGroupEffect
  <2> QED
    BY <2>1 DEF GroupRead
<1>8. ASSUME NEW s \in Slots, RefuseLastAdmin(s) PROVE AuthorityFromTheFounder'
  BY <1>8 DEF RefuseLastAdmin, Finish, Free
<1>9. ASSUME NEW s \in Slots, PassGuard(s) PROVE AuthorityFromTheFounder'
  BY <1>9 DEF PassGuard, Move, Trouble
<1>10. ASSUME NEW s \in Slots, LeaveGroup(s) PROVE AuthorityFromTheFounder'
  BY <1>10 DEF LeaveGroup, Move
<1>11. ASSUME NEW s \in Slots, TakeGroup(s) PROVE AuthorityFromTheFounder'
  BY <1>11 DEF TakeGroup, Move
<1>12. ASSUME NEW s \in Slots, UpdateRoster(s) PROVE AuthorityFromTheFounder'
  BY <1>12 DEF UpdateRoster, Finish, Free
<1>13. ASSUME NEW s \in Slots, Die(s) PROVE AuthorityFromTheFounder'
  BY <1>13 DEF Die, Trouble, Free
<1>14. CASE UNCHANGED <<groups, empowered, change, profile, promoted>>
  BY <1>14 DEF AuthorityFromTheFounder, EverAdmin
<1>15. ASSUME NEW k \in Runners, NEW u \in Users, ClaimUnanswered(k, u)
       PROVE AuthorityFromTheFounder'
  <2>1. \A v \in Users : TenantOf[v] \in Tenants /\ EverAdmin(v) => EverAdmin(v)'
    BY <1>15, NobodyIsNoUser DEF ClaimUnanswered
  <2>2. \A r \in Slots : change[r].at # "free" => TenantOf[change[r].actor] \in Tenants
    BY <1>15
  <2>3. UNCHANGED <<groups, empowered, change>>
    BY <1>15 DEF ClaimUnanswered
  <2> QED
    BY <2>1, <2>2, <2>3
<1> HIDE DEF IInv, TypeOK, OnlyMembers, GivenByRight, AuthorityFromTheFounder,
        EverAdmin
<1> QED
  BY <1>1, <1>2, <1>3, <1>4, <1>5, <1>6, <1>7, <1>8, <1>9, <1>10, <1>11, <1>12,
     <1>13, <1>14, <1>15 DEF Next, Place, ChangeRole, vars, Confirm, ListUsers, Repair,
     CreateKey, SetTenant, RecordMember, RecordUnanswered, Replicate, BreakOff, EndPlacing, Proceed, tenantVars,
     memberVars, provisioning, history

LEMMA LifeStep ==
  ASSUME IInv, TypeOK', [Next]_vars
  PROVE  LifeInOrder'
<1> USE EveryUserIsDerived DEF IInv, TypeOK, OnlyMembers, LifeInOrder, Runners,
        Placing, KINDS, tenantVars, memberVars, provisioning, history
<1>1. ASSUME NEW u \in Users, Confirm(u) PROVE LifeInOrder'
  BY <1>1 DEF Confirm
<1>2. ASSUME ListUsers PROVE LifeInOrder'
  BY <1>2 DEF ListUsers
<1>3. ASSUME NEW u \in Users, Repair(u) PROVE LifeInOrder'
  BY <1>3 DEF Repair, Trouble
<1>4. ASSUME NEW k \in Runners, NEW u \in Users, CreateKey(k, u) PROVE LifeInOrder'
  BY <1>4 DEF CreateKey, Proceed, Following
<1>5. ASSUME NEW k \in Runners, NEW u \in Users, ClaimTenant(k, u)
      PROVE LifeInOrder'
  BY <1>5 DEF ClaimTenant, Proceed, Following
<1>6. ASSUME NEW k \in Runners, NEW u \in Users, SetTenant(k, u) PROVE LifeInOrder'
  BY <1>6 DEF SetTenant, Proceed, Following
<1>7. ASSUME NEW k \in Runners, NEW u \in Users, JoinGroup(k, u) PROVE LifeInOrder'
  BY <1>7 DEF JoinGroup, Proceed, Following
<1>8. ASSUME NEW k \in Runners, NEW u \in Users, RecordMember(k, u)
      PROVE LifeInOrder'
  BY <1>8 DEF RecordMember, EndPlacing, Ended
<1>9. ASSUME NEW k \in Runners, NEW u \in Users, BreakOff(k, u) PROVE LifeInOrder'
  BY <1>9 DEF BreakOff, EndPlacing, Ended
<1>10. ASSUME NEW s \in Slots, LeaveGroup(s) PROVE LifeInOrder'
  BY <1>10 DEF LeaveGroup, Move
<1>11. ASSUME NEW s \in Slots, TakeGroup(s) PROVE LifeInOrder'
  BY <1>11 DEF TakeGroup, Move
<1>12. ASSUME NEW s \in Slots, UpdateRoster(s) PROVE LifeInOrder'
  BY <1>12 DEF UpdateRoster, Finish, Free
<1>13. CASE UNCHANGED <<at, listed, scoped, groups, roster>>
  BY <1>13 DEF LifeInOrder
<1>14. ASSUME NEW k \in Runners, NEW u \in Users, RecordUnanswered(k, u)
       PROVE LifeInOrder'
  BY <1>14 DEF RecordUnanswered
<1> HIDE DEF IInv, TypeOK, OnlyMembers, LifeInOrder, Runners, Placing, KINDS
<1> QED
  BY <1>1, <1>2, <1>3, <1>4, <1>5, <1>6, <1>7, <1>8, <1>9, <1>10, <1>11, <1>12,
     <1>13, <1>14 DEF Next, Place, ChangeRole, vars, ClaimUnanswered, Replicate, SignIn, TokenExpires, AskForRole,
     HasRole, ReadGroup, RefuseLastAdmin, PassGuard, Die, Finish, Move, tenantVars,
     memberVars, provisioning, history

LEMMA ClaimedStep ==
  ASSUME IInv, TypeOK', [Next]_vars
  PROVE  ClaimedFirst'
<1> USE EveryUserIsDerived, NobodyIsNoUser
    DEF IInv, TypeOK, OnlyMembers, LifeInOrder, ClaimedFirst, BeingPlaced, Runners,
        Placing, KINDS, tenantVars, memberVars, provisioning, history
<1>1. ASSUME NEW u \in Users, Confirm(u) PROVE ClaimedFirst'
  BY <1>1 DEF Confirm
<1>2. ASSUME NEW u \in Users, Repair(u) PROVE ClaimedFirst'
  BY <1>2 DEF Repair, Trouble
<1>3. ASSUME NEW k \in Runners, NEW u \in Users, CreateKey(k, u) PROVE ClaimedFirst'
  BY <1>3 DEF CreateKey, Proceed, Following
<1>4. ASSUME NEW k \in Runners, NEW u \in Users, ClaimTenant(k, u)
      PROVE ClaimedFirst'
  BY <1>4 DEF ClaimTenant, Proceed, Following
<1>5. ASSUME NEW k \in Runners, NEW u \in Users, SetTenant(k, u) PROVE ClaimedFirst'
  BY <1>5 DEF SetTenant, Proceed, Following
<1>6. ASSUME NEW k \in Runners, NEW u \in Users, JoinGroup(k, u) PROVE ClaimedFirst'
  BY <1>6 DEF JoinGroup, Proceed, Following
<1>7. ASSUME NEW k \in Runners, NEW u \in Users, RecordMember(k, u) \/ BreakOff(k, u)
      PROVE ClaimedFirst'
  BY <1>7 DEF RecordMember, BreakOff, EndPlacing, Ended
<1>8. ASSUME NEW u \in Users, SignIn(u) \/ TokenExpires(u) PROVE ClaimedFirst'
  BY <1>8 DEF SignIn, TokenExpires
<1>9. ASSUME NEW s \in Slots, NEW actor \in Users, NEW target \in Users,
             NEW role \in NewRoles, AskForRole(s, actor, target, role)
      PROVE ClaimedFirst'
  BY <1>9 DEF AskForRole, Trouble
<1>10. ASSUME NEW s \in Slots, ReadGroup(s) PROVE ClaimedFirst'
  BY <1>10, ReadGroupEffect DEF GroupRead
<1>11. ASSUME NEW s \in Slots,
              \/ HasRole(s) \/ RefuseLastAdmin(s) \/ PassGuard(s) \/ LeaveGroup(s)
              \/ TakeGroup(s) \/ UpdateRoster(s) \/ Die(s)
       PROVE ClaimedFirst'
  <2>1. UNCHANGED <<profile, scoped, empowered, at>>
    BY <1>11 DEF HasRole, RefuseLastAdmin, PassGuard, LeaveGroup, TakeGroup,
       UpdateRoster, Die
  <2>2. CASE HasRole(s) \/ RefuseLastAdmin(s) \/ UpdateRoster(s) \/ Die(s)
    <3>1. change' = [change EXCEPT ![s] = Free]
      BY <2>2 DEF HasRole, RefuseLastAdmin, UpdateRoster, Die, Finish
    <3>2. change'[s].at = "free" /\ \A r \in Slots \ {s} : change'[r] = change[r]
      BY <3>1 DEF Free
    <3> QED
      BY <2>1, <3>2
  <2>3. CASE PassGuard(s) \/ LeaveGroup(s) \/ TakeGroup(s)
    <3>1. PICK place \in Changing : /\ change[s].at # "free"
                                    /\ change' = [change EXCEPT ![s].at = place]
      BY <2>3 DEF PassGuard, LeaveGroup, TakeGroup, Move, Changing
    <3>2. \A r \in Slots : /\ change'[r].actor = change[r].actor
                           /\ change'[r].target = change[r].target
                           /\ change'[r].at # "free" => change[r].at # "free"
      BY <3>1
    <3> QED
      BY <2>1, <3>2
  <2> QED
    BY <1>11, <2>2, <2>3
<1>12. CASE UNCHANGED <<profile, scoped, empowered, change, at>>
  BY <1>12 DEF ClaimedFirst
<1>13. ASSUME NEW k \in Runners, NEW u \in Users, ClaimUnanswered(k, u)
       PROVE ClaimedFirst'
  BY <1>13 DEF ClaimUnanswered
<1> HIDE DEF IInv, TypeOK, OnlyMembers, LifeInOrder, ClaimedFirst, BeingPlaced, Runners,
        Placing, KINDS
<1> QED
  BY <1>1, <1>2, <1>3, <1>4, <1>5, <1>6, <1>7, <1>8, <1>9, <1>10, <1>11, <1>12,
     <1>13 DEF Next, Place, ChangeRole, vars, ListUsers, RecordUnanswered, Replicate

LEMMA PlacedStep ==
  ASSUME IInv, TypeOK', [Next]_vars
  PROVE  PlacedOnce'
<1> USE EveryUserIsDerived DEF IInv, TypeOK, OnlyMembers, LifeInOrder, PlacedOnce,
        ChangedOnce, GivenByRight, BeingPlaced, Runners, Placing, KINDS, tenantVars, memberVars, provisioning,
        history
<1>1. ASSUME NEW u \in Users, Confirm(u) PROVE PlacedOnce'
  BY <1>1 DEF Confirm
<1>2. ASSUME NEW u \in Users, Repair(u) PROVE PlacedOnce'
  BY <1>2 DEF Repair, Trouble
<1>3. ASSUME NEW k \in Runners, NEW u \in Users, CreateKey(k, u) PROVE PlacedOnce'
  BY <1>3 DEF CreateKey, Proceed, Following
<1>4. ASSUME NEW k \in Runners, NEW u \in Users, ClaimTenant(k, u) PROVE PlacedOnce'
  BY <1>4 DEF ClaimTenant, Proceed, Following
<1>5. ASSUME NEW k \in Runners, NEW u \in Users, SetTenant(k, u) PROVE PlacedOnce'
  BY <1>5 DEF SetTenant, Proceed, Following
<1>6. ASSUME NEW k \in Runners, NEW u \in Users, JoinGroup(k, u) PROVE PlacedOnce'
  BY <1>6 DEF JoinGroup, Proceed, Following
<1>7. ASSUME NEW k \in Runners, NEW u \in Users, RecordMember(k, u)
      PROVE PlacedOnce'
  BY <1>7 DEF RecordMember, EndPlacing, Ended
<1>8. ASSUME NEW k \in Runners, NEW u \in Users, BreakOff(k, u) PROVE PlacedOnce'
  BY <1>8 DEF BreakOff, EndPlacing, Ended
<1>9. ASSUME NEW s \in Slots, NEW actor \in Users, NEW target \in Users, NEW
             role \in NewRoles, AskForRole(s, actor, target, role)
      PROVE PlacedOnce'
  BY <1>9 DEF AskForRole, Trouble
<1>10. ASSUME NEW s \in Slots, PassGuard(s) PROVE PlacedOnce'
  BY <1>10 DEF PassGuard, Move, Trouble
<1>11. ASSUME NEW s \in Slots, LeaveGroup(s) PROVE PlacedOnce'
  BY <1>11 DEF LeaveGroup, Move
<1>12. ASSUME NEW s \in Slots, TakeGroup(s) PROVE PlacedOnce'
  BY <1>12 DEF TakeGroup, Move
<1>13. ASSUME NEW s \in Slots, UpdateRoster(s) PROVE PlacedOnce'
  BY <1>13 DEF UpdateRoster, Finish, Free
<1>14. ASSUME NEW s \in Slots, Die(s) PROVE PlacedOnce'
  BY <1>14 DEF Die, Trouble, Free
<1>15. CASE UNCHANGED <<at, scoped, groups, roster, given, troubled>>
  BY <1>15 DEF PlacedOnce
<1>16. ASSUME NEW k \in Runners, NEW u \in Users, RecordUnanswered(k, u)
       PROVE PlacedOnce'
  BY <1>16 DEF RecordUnanswered
<1> HIDE DEF IInv, TypeOK, OnlyMembers, LifeInOrder, PlacedOnce, ChangedOnce,
        GivenByRight, BeingPlaced,
        Runners, Placing, KINDS
<1> QED
  BY <1>1, <1>2, <1>3, <1>4, <1>5, <1>6, <1>7, <1>8, <1>9, <1>10, <1>11, <1>12,
     <1>13, <1>14, <1>15, <1>16 DEF Next, Place, ChangeRole, vars, ListUsers, ClaimUnanswered, Replicate, SignIn,
     TokenExpires, HasRole, ReadGroup, RefuseLastAdmin, Finish, tenantVars,
     memberVars, provisioning, history

LEMMA ChangedStep ==
  ASSUME IInv, TypeOK', [Next]_vars
  PROVE  ChangedOnce'
<1> USE EveryUserIsDerived DEF IInv, TypeOK, OnlyMembers, LifeInOrder, ClaimedFirst,
        PlacedOnce, GivenByRight, ChangedOnce, RosterAgrees, BeingPlaced, BeingChanged, Runners, Placing,
        KINDS, Changing, tenantVars, memberVars, provisioning, history
<1>1. ASSUME NEW u \in Users, Repair(u) PROVE ChangedOnce'
  BY <1>1 DEF Repair, Trouble
<1>2. ASSUME NEW k \in Runners, NEW u \in Users, JoinGroup(k, u) PROVE ChangedOnce'
  BY <1>2 DEF JoinGroup, Proceed, Following
<1>3. ASSUME NEW k \in Runners, NEW u \in Users, RecordMember(k, u)
      PROVE ChangedOnce'
  BY <1>3 DEF RecordMember, EndPlacing, Ended
<1>4. ASSUME NEW s \in Slots, NEW actor \in Users, NEW target \in Users, NEW
             role \in NewRoles, AskForRole(s, actor, target, role)
      PROVE ChangedOnce'
  BY <1>4 DEF AskForRole, Trouble
<1>5. ASSUME NEW s \in Slots, HasRole(s) PROVE ChangedOnce'
  BY <1>5 DEF HasRole, Finish, Free
<1>6. ASSUME NEW s \in Slots, ReadGroup(s) PROVE ChangedOnce'
  <2>1. GroupRead(s) /\ change[s].target \in Users
    BY <1>6, ReadGroupEffect DEF ReadGroup
  <2>2. roster[change[s].target] \in ROLES
    BY <2>1 DEF GroupRead
  <2>3. roster[change[s].target] # NoGroup
    BY <2>2 DEF ROLES, TENANT_ADMIN, TENANT_ENGINEER, TENANT_LEADERSHIP, NoGroup
  <2> QED
    BY <2>1, <2>2, <2>3 DEF GroupRead
<1>7. ASSUME NEW s \in Slots, RefuseLastAdmin(s) PROVE ChangedOnce'
  BY <1>7 DEF RefuseLastAdmin, Finish, Free
<1>8. ASSUME NEW s \in Slots, PassGuard(s) PROVE ChangedOnce'
  BY <1>8 DEF PassGuard, Move, Trouble
<1>9. ASSUME NEW s \in Slots, LeaveGroup(s) PROVE ChangedOnce'
  BY <1>9 DEF LeaveGroup, Move
<1>10. ASSUME NEW s \in Slots, TakeGroup(s) PROVE ChangedOnce'
  BY <1>10 DEF TakeGroup, Move
<1>11. ASSUME NEW s \in Slots, UpdateRoster(s) PROVE ChangedOnce'
  BY <1>11 DEF UpdateRoster, Finish, Free
<1>12. ASSUME NEW s \in Slots, Die(s) PROVE ChangedOnce'
  BY <1>12 DEF Die, Trouble, Free
<1>13. CASE UNCHANGED <<change, groups, roster, troubled, at>>
  BY <1>13 DEF ChangedOnce
<1>14. ASSUME NEW k \in Runners, NEW u \in Users, RecordUnanswered(k, u)
       PROVE ChangedOnce'
  BY <1>14 DEF RecordUnanswered
<1>15. ASSUME NEW u \in Users, Confirm(u) PROVE ChangedOnce'
  BY <1>15 DEF Confirm
<1>16. ASSUME NEW k \in Runners, NEW u \in Users,
              CreateKey(k, u) \/ ClaimTenant(k, u) \/ SetTenant(k, u) \/ BreakOff(k, u)
       PROVE ChangedOnce'
  <2>1. UNCHANGED <<change, groups, roster, troubled>>
    BY <1>16 DEF CreateKey, ClaimTenant, SetTenant, BreakOff
  <2>2. at[k][u] \in Placing
    BY <1>16 DEF CreateKey, ClaimTenant, SetTenant, BreakOff, Proceed
  <2>3. \A j \in Runners, v \in Users : j # k \/ v # u => at'[j][v] = at[j][v]
    BY <1>16 DEF CreateKey, ClaimTenant, SetTenant, BreakOff, Proceed, EndPlacing
  <2>4. ASSUME NEW v \in Users, BeingPlaced(v)' PROVE BeingPlaced(v)
    <3> HIDE DEF Placing, IInv
    <3>1. PICK j \in Runners : at'[j][v] \in Placing
      BY <2>4 DEF BeingPlaced
    <3> HIDE DEF Runners
    <3>2. at[j][v] \in Placing
      BY <2>2, <2>3, <3>1
    <3> QED
      BY <3>2 DEF BeingPlaced
  <2> QED
    BY <2>1, <2>4
<1> HIDE DEF IInv, TypeOK, OnlyMembers, LifeInOrder, ClaimedFirst, PlacedOnce,
        GivenByRight, ChangedOnce, RosterAgrees, BeingPlaced, BeingChanged, Runners, Placing, KINDS, Changing
<1> QED
  BY <1>1, <1>2, <1>3, <1>4, <1>5, <1>6, <1>7, <1>8, <1>9, <1>10, <1>11, <1>12,
     <1>13, <1>14, <1>15, <1>16 DEF Next, Place, ChangeRole, vars, ListUsers,
     ClaimUnanswered, Replicate, SignIn, TokenExpires, tenantVars, memberVars, provisioning, history

LEMMA DemotedStep ==
  ASSUME IInv, TypeOK', [Next]_vars
  PROVE  DemotedOnce'
<1> USE EveryUserIsDerived DEF IInv, TypeOK, OnlyMembers, PlacedOnce, ChangedOnce,
        DemotedOnce, Demoting, Spare, Changing, tenantVars, memberVars,
        provisioning, history
<1>1. ASSUME NEW u \in Users, Repair(u) PROVE DemotedOnce'
  BY <1>1 DEF Repair, Trouble
<1>2. ASSUME NEW k \in Runners, NEW u \in Users, RecordMember(k, u)
      PROVE DemotedOnce'
  <2>1. TenantOf[u] \notin troubled => roster[u] \in {"absent", given[k][u]}
    BY <1>2 DEF RecordMember, Runners, Placing
  <2>2. ASSUME NEW x \in Users, TenantOf[x] \notin troubled
        PROVE  Spare(x) \subseteq Spare(x)'
    <3>1. \A v \in Users : TenantOf[v] = TenantOf[x] /\ roster[v] # "absent" => roster'[v] = roster[v]
      BY <1>2, <2>1, <2>2 DEF RecordMember
    <3> QED
      BY <3>1 DEF TENANT_ADMIN
  <2>3. UNCHANGED <<change, troubled>>
    BY <1>2 DEF RecordMember
  <2> HIDE DEF Spare
  <2> QED
    BY <2>2, <2>3
<1>3. ASSUME NEW s \in Slots, NEW actor \in Users, NEW target \in Users, NEW
             role \in NewRoles, AskForRole(s, actor, target, role)
      PROVE DemotedOnce'
  BY <1>3 DEF AskForRole, Trouble
<1>4. ASSUME NEW s \in Slots, HasRole(s) PROVE DemotedOnce'
  BY <1>4 DEF HasRole, Finish, Free
<1>5. ASSUME NEW s \in Slots, ReadGroup(s) PROVE DemotedOnce'
  <2>1. GroupRead(s) /\ DemotedOnce
    BY <1>5, ReadGroupEffect
  <2> HIDE DEF IInv, TypeOK, OnlyMembers, PlacedOnce, ChangedOnce
  <2>2. \A t \in Tenants \cup {NoTenant} : Demoting(t)' = Demoting(t)
    BY <2>1 DEF GroupRead
  <2>3. \A x \in Users : Spare(x)' = Spare(x)
    BY <2>1 DEF GroupRead
  <2>4. \A r \in Slots : change[r].at # "free" => change[r].target \in Users
    BY DEF IInv, OnlyMembers
  <2> HIDE DEF Demoting, Spare
  <2> QED
    BY <2>1, <2>2, <2>3, <2>4 DEF GroupRead
<1>6. ASSUME NEW s \in Slots, RefuseLastAdmin(s) PROVE DemotedOnce'
  BY <1>6 DEF RefuseLastAdmin, Finish, Free
<1>7. ASSUME NEW s \in Slots, PassGuard(s) PROVE DemotedOnce'
  <2>1. PICK late \in Reads :
           LET target == change[s].target IN
           Trouble(target, Demoting(TenantOf[target]) # {} \/ Misled(target, late))
    BY <1>7 DEF PassGuard
  <2>2. OtherAdmins(change[s].target, late) \subseteq Users \ {change[s].target}
        /\ \A v \in OtherAdmins(change[s].target, late) :
              TenantOf[v] = TenantOf[change[s].target]
    BY DEF OtherAdmins, Members, Seen
  <2>3. ~ Misled(change[s].target, late) => Spare(change[s].target) # {}
    BY <2>2 DEF Misled
  <2>4. /\ change[s].at = "guard" /\ change' = [change EXCEPT ![s].at = "remove"]
        /\ UNCHANGED roster
    BY <1>7 DEF PassGuard, Move
  <2> QED
    BY <2>1, <2>3, <2>4 DEF Trouble
<1>8. ASSUME NEW s \in Slots, LeaveGroup(s) PROVE DemotedOnce'
  BY <1>8 DEF LeaveGroup, Move
<1>9. ASSUME NEW s \in Slots, TakeGroup(s) PROVE DemotedOnce'
  BY <1>9 DEF TakeGroup, Move
<1>10. ASSUME NEW s \in Slots, UpdateRoster(s) PROVE DemotedOnce'
  BY <1>10 DEF UpdateRoster, Finish, Free
<1>11. ASSUME NEW s \in Slots, Die(s) PROVE DemotedOnce'
  BY <1>11 DEF Die, Trouble, Free
<1>12. CASE UNCHANGED <<change, roster, troubled>>
  BY <1>12 DEF DemotedOnce
<1>13. ASSUME NEW k \in Runners, NEW u \in Users, RecordUnanswered(k, u)
       PROVE DemotedOnce'
  <2>1. TenantOf[u] \notin troubled => roster[u] = "absent"
    BY <1>13 DEF RecordUnanswered, Runners, Placing
  <2>2. ASSUME NEW x \in Users, TenantOf[x] \notin troubled
        PROVE  Spare(x) \subseteq Spare(x)'
    <3>1. \A v \in Users : TenantOf[v] = TenantOf[x] /\ roster[v] # "absent" => roster'[v] = roster[v]
      BY <1>13, <2>1, <2>2 DEF RecordUnanswered
    <3> QED
      BY <3>1 DEF TENANT_ADMIN
  <2>3. UNCHANGED <<change, troubled>>
    BY <1>13 DEF RecordUnanswered
  <2> HIDE DEF Spare
  <2> QED
    BY <2>2, <2>3
<1> HIDE DEF IInv, TypeOK, OnlyMembers, PlacedOnce, ChangedOnce, DemotedOnce,
        Demoting, Spare, Changing
<1> QED
  BY <1>1, <1>2, <1>3, <1>4, <1>5, <1>6, <1>7, <1>8, <1>9, <1>10, <1>11, <1>12,
     <1>13 DEF Next, Place, ChangeRole, vars, Confirm, ListUsers, CreateKey, ClaimTenant,
     SetTenant, JoinGroup, BreakOff, ClaimUnanswered, Replicate, SignIn, TokenExpires, EndPlacing, Proceed,
     tenantVars, memberVars, provisioning, history

LEMMA RosterStep ==
  ASSUME IInv, TypeOK', [Next]_vars
  PROVE  RosterAgrees'
<1> USE EveryUserIsDerived DEF IInv, TypeOK, OnlyMembers, LifeInOrder, PlacedOnce,
        ChangedOnce, RosterAgrees, BeingPlaced, BeingChanged, Runners, Placing,
        KINDS, Changing, tenantVars, memberVars, provisioning, history
<1>1. ASSUME NEW u \in Users, Repair(u) PROVE RosterAgrees'
  BY <1>1 DEF Repair, Trouble
<1>2. ASSUME NEW k \in Runners, NEW u \in Users, JoinGroup(k, u) PROVE RosterAgrees'
  BY <1>2 DEF JoinGroup, Proceed, Following
<1>3. ASSUME NEW k \in Runners, NEW u \in Users, RecordMember(k, u)
      PROVE RosterAgrees'
  BY <1>3 DEF RecordMember, EndPlacing, Ended
<1>4. ASSUME NEW s \in Slots, NEW actor \in Users, NEW target \in Users, NEW
             role \in NewRoles, AskForRole(s, actor, target, role)
      PROVE RosterAgrees'
  BY <1>4 DEF AskForRole, Trouble
<1>5. ASSUME NEW s \in Slots, HasRole(s) PROVE RosterAgrees'
  BY <1>5 DEF HasRole, Finish, Free
<1>6. ASSUME NEW s \in Slots, ReadGroup(s) PROVE RosterAgrees'
  <2>1. GroupRead(s)
    BY <1>6, ReadGroupEffect
  <2> QED
    BY <2>1 DEF GroupRead
<1>7. ASSUME NEW s \in Slots, RefuseLastAdmin(s) PROVE RosterAgrees'
  BY <1>7 DEF RefuseLastAdmin, Finish, Free
<1>8. ASSUME NEW s \in Slots, PassGuard(s) PROVE RosterAgrees'
  BY <1>8 DEF PassGuard, Move, Trouble
<1>9. ASSUME NEW s \in Slots, LeaveGroup(s) PROVE RosterAgrees'
  <2>1. \A v \in Users : v = change[s].target => BeingChanged(v)'
    BY <1>9 DEF LeaveGroup, Move
  <2>2. ASSUME NEW v \in Users \ {change[s].target}
        PROVE  groups'[v] = groups[v] /\ (BeingChanged(v) => BeingChanged(v)')
    BY <1>9 DEF LeaveGroup, Move
  <2>3. UNCHANGED <<roster, troubled>>
    BY <1>9 DEF LeaveGroup
  <2>4. RosterAgrees
    BY DEF IInv
  <2> HIDE DEF BeingChanged, IInv, TypeOK, OnlyMembers, PlacedOnce, ChangedOnce
  <2> QED
    BY <2>1, <2>2, <2>3, <2>4
<1>10. ASSUME NEW s \in Slots, TakeGroup(s) PROVE RosterAgrees'
  <2>1. \A v \in Users : v = change[s].target => BeingChanged(v)'
    BY <1>10 DEF TakeGroup, Move
  <2>2. ASSUME NEW v \in Users \ {change[s].target}
        PROVE  groups'[v] = groups[v] /\ (BeingChanged(v) => BeingChanged(v)')
    BY <1>10 DEF TakeGroup, Move
  <2>3. UNCHANGED <<roster, troubled>>
    BY <1>10 DEF TakeGroup
  <2>4. RosterAgrees
    BY DEF IInv
  <2> HIDE DEF BeingChanged, IInv, TypeOK, OnlyMembers, PlacedOnce, ChangedOnce
  <2> QED
    BY <2>1, <2>2, <2>3, <2>4
<1>11. ASSUME NEW s \in Slots, UpdateRoster(s) PROVE RosterAgrees'
  BY <1>11 DEF UpdateRoster, Finish, Free
<1>12. ASSUME NEW s \in Slots, Die(s) PROVE RosterAgrees'
  BY <1>12 DEF Die, Trouble, Free
<1>14. ASSUME NEW k \in Runners, NEW u \in Users, RecordUnanswered(k, u)
       PROVE RosterAgrees'
  BY <1>14 DEF RecordUnanswered
<1>13. CASE UNCHANGED <<change, groups, roster, troubled>>
  BY <1>13 DEF RosterAgrees
<1> HIDE DEF IInv, TypeOK, OnlyMembers, LifeInOrder, PlacedOnce, ChangedOnce,
        RosterAgrees, BeingPlaced, BeingChanged, Runners, Placing, KINDS, Changing
<1> QED
  BY <1>1, <1>2, <1>3, <1>4, <1>5, <1>6, <1>7, <1>8, <1>9, <1>10, <1>11, <1>12,
     <1>13, <1>14 DEF Next, Place, ChangeRole, vars, Confirm, ListUsers, CreateKey,
     ClaimTenant, SetTenant, BreakOff, ClaimUnanswered, Replicate, SignIn, TokenExpires, EndPlacing, Proceed,
     tenantVars, memberVars, provisioning, history

-----------------------------------------------------------------------------
LEMMA InitInv ==
  ASSUME Init
  PROVE  IInv
<1> USE EveryUserIsDerived, SettledFoundOneTenant, NoTenantIsNone, NobodyIsNoUser
    DEF Init, Runners, Placing, KINDS, Free
<1>1. \A t \in Tenants :
         Founded(t) => /\ (CHOOSE u \in Settled : TenantOf[u] = t) \in Settled
                       /\ TenantOf[CHOOSE u \in Settled : TenantOf[u] = t] = t
  BY DEF Founded
<1>2. \A t \in Tenants : profile[t] = IF Founded(t) THEN CHOOSE u \in Settled : TenantOf[u] = t
                                                   ELSE Nobody
  OBVIOUS
<1>3. \A u \in Settled : Founded(TenantOf[u]) /\ profile[TenantOf[u]] = u
  <2> TAKE u \in Settled
  <2>1. Founded(TenantOf[u]) /\ TenantOf[u] \in Tenants
    BY DEF Founded
  <2> QED
    BY <2>1, <1>1, <1>2
<1>4. TypeOK
  BY <1>1 DEF TypeOK, Changing, ROLES
<1>5. OnlyMembers
  BY DEF OnlyMembers, BeingPlaced
<1>6. KeysFirst
  BY <1>2 DEF KeysFirst, Written
<1>7. GivenByRight
  BY DEF GivenByRight, ROLES, NoGroup, TENANT_ADMIN, TENANT_ENGINEER,
     TENANT_LEADERSHIP
<1>8. AuthorityFromTheFounder
  BY <1>3 DEF AuthorityFromTheFounder, EverAdmin
<1>9. LifeInOrder
  BY DEF LifeInOrder
<1>10. ClaimedFirst
  BY <1>3 DEF ClaimedFirst
<1>11. PlacedOnce
  BY DEF PlacedOnce
<1>12. ChangedOnce /\ DemotedOnce
  BY DEF ChangedOnce, DemotedOnce
<1>13. RosterAgrees
  BY DEF RosterAgrees
<1> QED
  BY <1>4, <1>5, <1>6, <1>7, <1>8, <1>9, <1>10, <1>11, <1>12, <1>13 DEF IInv

LEMMA Inductive ==
  ASSUME IInv, [Next]_vars
  PROVE  IInv'
<1>1. TypeOK'
  BY TypeStep DEF IInv
<1> QED
  BY <1>1, MembersStep, KeysStep, GivenStep, AuthorityStep, LifeStep, ClaimedStep,
     PlacedStep,
     ChangedStep, DemotedStep, RosterStep DEF IInv

LEMMA InvariantHolds == Spec => []IInv
<1>1. Init => IInv
  BY InitInv
<1>2. IInv /\ [Next]_vars => IInv'
  BY Inductive
<1> QED
  BY <1>1, <1>2, PTL DEF Spec

-----------------------------------------------------------------------------
\* Every state of the accounts and their tenants is well typed.
THEOREM TypeCorrect == Spec => []TypeOK
<1>1. IInv => TypeOK
  BY DEF IInv
<1> QED
  BY <1>1, InvariantHolds, PTL

\* Whoever administers a tenant got it from its founder, and no role change
\* reaches into another tenant (team.py:14-18).
THEOREM AuthorityIsTheFounders == Spec => []AuthorityFromTheFounder
<1>1. IInv => AuthorityFromTheFounder
  BY DEF IInv
<1> QED
  BY <1>1, InvariantHolds, PTL

\* Nobody has anything in a tenant that is not claimed and in possession of all its
\* keys, and an account no tenant is derived for has nothing at all
\* (tenant_provision.py:17-21, :128-137).
THEOREM MembersAreProvisioned == Spec => []EveryMemberIsProvisioned
<1>1. IInv => EveryMemberIsProvisioned
  <2> SUFFICES ASSUME IInv, NEW u \in Users
               PROVE  /\ BeingPlaced(u) \/ u \in listed => TenantOf[u] # NoTenant
                      /\ \/ u \in scoped \cup empowered
                         \/ groups[u] # {} \/ roster[u] # "absent"
                         \/ BeingChanged(u) \/ IsActing(u)
                         => /\ TenantOf[u] # NoTenant
                            /\ profile[TenantOf[u]] # Nobody
                            /\ \A kind \in KINDS : keys[TenantOf[u]][kind] # 0
    BY DEF EveryMemberIsProvisioned
  <2>1. TenantOf[u] \in Tenants <=> TenantOf[u] # NoTenant
    BY EveryUserIsDerived, NoTenantIsNone
  <2>2. BeingPlaced(u) \/ u \in listed => TenantOf[u] \in Tenants
    BY DEF IInv, OnlyMembers
  <2>3. ASSUME \/ u \in scoped \cup empowered
               \/ groups[u] # {} \/ roster[u] # "absent"
               \/ BeingChanged(u) \/ IsActing(u)
        PROVE  u \in scoped
    BY <2>3 DEF IInv, LifeInOrder, ClaimedFirst, BeingChanged, IsActing
  <2>4. ASSUME u \in scoped
        PROVE  /\ TenantOf[u] \in Tenants
               /\ profile[TenantOf[u]] # Nobody
               /\ \A kind \in KINDS : keys[TenantOf[u]][kind] # 0
    BY <2>4 DEF IInv, OnlyMembers, ClaimedFirst, KeysFirst
  <2> QED
    BY <2>1, <2>2, <2>3, <2>4
<1> QED
  BY <1>1, InvariantHolds, PTL

\* Where no operations overlapped or broke off, the roster tells the group a
\* member's token will carry (team.py:166-173).
THEOREM RosterTells == Spec => []RosterAgrees
<1>1. IInv => RosterAgrees
  BY DEF IInv
<1> QED
  BY <1>1, InvariantHolds, PTL

\* A provisioned tenant has all its keys, and no key is ever replaced
\* (tenant_provision.py:17-21, paramstore.py:90-92).
THEOREM KeysAreKept == Spec => TenantKeepsItsKeys
<1> DEFINE Kept == \A t \in Tenants, kind \in KINDS :
              /\ profile'[t] # Nobody => keys'[t][kind] # 0
              /\ keys[t][kind] # 0 => keys'[t][kind] = keys[t][kind]
<1>1. ASSUME IInv, [Next]_vars
      PROVE  Kept
  <2>1. KeysFirst'
    BY <1>1, Inductive DEF IInv
  <2>2. TypeOK
    BY <1>1 DEF IInv
  <2>3. ASSUME NEW k \in Runners, NEW u \in Users, CreateKey(k, u)
        PROVE  \A t \in Tenants, kind \in KINDS :
                  keys[t][kind] # 0 => keys'[t][kind] = keys[t][kind]
    BY <2>2, <2>3 DEF CreateKey, TypeOK
  <2>4. CASE UNCHANGED keys
    BY <2>1, <2>4 DEF KeysFirst
  <2>5. UNCHANGED keys \/ \E k \in Runners, u \in Users : CreateKey(k, u)
    BY <1>1 DEF Next, Place, ChangeRole, vars, ListUsers, Confirm, Repair,
       ClaimTenant, ClaimUnanswered,
       SetTenant, JoinGroup, RecordMember, RecordUnanswered, Replicate, BreakOff, SignIn, TokenExpires, AskForRole,
       HasRole, ReadGroup, RefuseLastAdmin, PassGuard, LeaveGroup, TakeGroup,
       UpdateRoster, Die, tenantVars
  <2> QED
    BY <2>1, <2>3, <2>4, <2>5 DEF KeysFirst
<1> QED
  BY <1>1, InvariantHolds, PTL DEF Spec, TenantKeepsItsKeys

\* A tenant keeps an admin through everything but overlapping operations on one
\* member, overlapping demotions, role changes that stop half-way and a read of
\* the roster so late that no admin it shows is one any more; a late read or a
\* full page that hides admins only makes the guard refuse.
THEOREM AnAdminRemains == Spec => AdminRemains
<1> DEFINE Remains == \A t \in Tenants :
              HasAdmin(t) /\ t \notin troubled' => HasAdmin(t)'
<1>1. ASSUME IInv, [Next]_vars
      PROVE  Remains
  <2>1. ASSUME NEW t \in Tenants, HasAdmin(t), t \notin troubled',
               NEW s \in Slots, LeaveGroup(s)
        PROVE  HasAdmin(t)'
    <3> DEFINE x == change[s].target
    <3>1. /\ x \in Users
          /\ change[s].at = "remove"
          /\ t \notin troubled
          /\ groups' = [groups EXCEPT ![x] = @ \ {change[s].old}]
          /\ groups \in [Users -> SUBSET ROLES]
          /\ roster \in [Users -> ROLES \cup {"absent"}]
      BY <1>1, <2>1 DEF IInv, TypeOK, OnlyMembers, LeaveGroup, Move, history
    <3>2. PICK w \in Users : TenantOf[w] = t /\ TENANT_ADMIN \in groups[w]
      BY <2>1 DEF HasAdmin
    <3>3. CASE w # x \/ change[s].old # TENANT_ADMIN
      BY <3>1, <3>2, <3>3 DEF HasAdmin
    <3>4. CASE w = x /\ change[s].old = TENANT_ADMIN
      <4>1. Spare(x) # {}
        BY <1>1, <3>1, <3>2, <3>4 DEF IInv, DemotedOnce
      <4>2. PICK y \in Users : /\ y # x
                               /\ TenantOf[y] = t
                               /\ roster[y] = TENANT_ADMIN
        BY <4>1, <3>2, <3>4 DEF Spare
      <4>3. TENANT_ADMIN \in groups[y]
        <5>1. CASE ~ BeingChanged(y)
          BY <1>1, <3>1, <4>2, <5>1 DEF IInv, RosterAgrees, TENANT_ADMIN
        <5>2. CASE BeingChanged(y)
          <6>1. PICK r \in Slots : change[r].at # "free" /\ change[r].target = y
            BY <5>2 DEF BeingChanged
          <6>2. change[r].at \in Changing
            BY <1>1, <6>1 DEF IInv, TypeOK
          <6>3. r \notin Demoting(t) /\ change[r].at # "current" => change[r].old = roster[y]
            BY <1>1, <3>1, <4>2, <6>1 DEF IInv, ChangedOnce
          <6>4. r \notin Demoting(t)
            BY <1>1, <3>1, <3>2, <3>4, <4>2, <6>1 DEF IInv, DemotedOnce, Demoting
          <6>5. change[r].at \in {"current", "guard"}
            BY <4>2, <6>1, <6>2, <6>3, <6>4 DEF Demoting, Changing
          <6> QED
            BY <1>1, <3>1, <4>2, <6>1, <6>5 DEF IInv, ChangedOnce
        <5> QED
          BY <5>1, <5>2
      <4> QED
        BY <3>1, <4>2, <4>3 DEF HasAdmin
    <3> QED
      BY <3>3, <3>4
  <2>2. \/ \E s \in Slots : LeaveGroup(s)
        \/ \A u \in Users : groups[u] \subseteq groups'[u]
    <3>1. groups \in [Users -> SUBSET ROLES]
      BY <1>1 DEF IInv, TypeOK
    <3> QED
      BY <1>1, <3>1 DEF Next, Place, ChangeRole, vars, memberVars, ListUsers,
         Confirm, Repair,
         CreateKey, ClaimTenant, ClaimUnanswered, SetTenant, JoinGroup, RecordMember,
         RecordUnanswered, Replicate, BreakOff, SignIn,
         TokenExpires, AskForRole, HasRole, ReadGroup, RefuseLastAdmin, PassGuard,
         TakeGroup, UpdateRoster, Die
  <2> QED
    BY <2>1, <2>2 DEF HasAdmin
<1> QED
  BY <1>1, InvariantHolds, PTL DEF Spec, AdminRemains

=============================================================================
